--------------------------- MODULE AllocationSites ---------------------------
(***************************************************************************)
(* The identifiers of the trace: AllocationSites gives an identifier to a  *)
(* stack trace with the class it allocates, AllocatedTypes one to a class, *)
(* and SymbolsWriter tells the analyzer what they stand for.               *)
(*                                                                         *)
(* The interpreter asks for an identifier at every allocation.  Compilers  *)
(* ask once and put it into the code; C1 may not know the class yet, and   *)
(* C2 knows a static type from which the object may deviate.  The table is *)
(* protected by one lock, the types by another that is avoided when the    *)
(* class has an identifier, the file by a third.  They nest in that order. *)
(*                                                                         *)
(* A frame is a Method* with a bytecode index, innermost first.  Mirrors   *)
(* (instances of java.lang.Class) never come here and are left out.        *)
(***************************************************************************)
EXTENDS Integers, Sequences, FiniteSetsExt

CONSTANTS
  JavaThreads, CompilerThreads,
  Klasses, Super,       \* Super[k]: the super class, or NULL
  Arrays,               \* the array classes
  Frames, Name,         \* Name[f]: class, method, signature and index as text
  Unloadable,           \* the frames of a class loader that may be unloaded
  CallSites, Allocates, \* stack traces; the classes allocated there
  Unresolved,           \* where C1 may not know the class
  NULL,
  ALLOCATION_SITE_IDENTIFIER_FIRST_CUSTOM,
  SmallRange, BigRange, \* 0x8000 and 0x800000 in the code
  YellowZone, RedZone,  \* per cent, 10 and 5 in the code
  YellowDepth,          \* 3 in the code
  TraceObjectsMaxStackTraceDepth,
  ExtendAllocationSiteIdRange, ReuseUnloadedAllocationSites,
  MaxType,              \* 2^31 - 1 in the code
  Programs              \* where a program allocates, collections and types
                        \* before that; bound: its compiled allocations

Threads == JavaThreads \cup CompilerThreads
FIRST == ALLOCATION_SITE_IDENTIFIER_FIRST_CUSTOM
UNKNOWN == 0            \* ALLOCATION_SITE_IDENTIFIER_UNKNOWN, ALLOCATED_TYPE_...
FirstType == 2          \* ALLOCATED_TYPE_IDENTIFIER_FIRST_CUSTOM

ASSUME SitesAssumption ==
  /\ JavaThreads \cap CompilerThreads = {}
  /\ NULL \notin Klasses \cup Threads
  /\ Super \in [Klasses -> Klasses \cup {NULL}]
  /\ \E depth \in [Klasses -> 0..Cardinality(Klasses)] :
       \A k \in Klasses : Super[k] # NULL => depth[Super[k]] < depth[k]
  /\ DOMAIN Name = Frames /\ Unloadable \subseteq Frames /\ Arrays \subseteq Klasses
  /\ CallSites \subseteq Seq(Frames) \ {<<>>} /\ Unresolved \subseteq CallSites
  /\ Allocates \in [CallSites -> SUBSET Klasses]
  /\ FIRST \in Nat \ {0} /\ SmallRange \in Nat /\ BigRange \in Nat
  /\ FIRST < SmallRange /\ SmallRange <= BigRange
  /\ YellowZone \in 0..100 /\ RedZone \in 0..YellowZone
  /\ YellowDepth \in Nat \ {0} /\ TraceObjectsMaxStackTraceDepth \in Nat
  /\ Programs \subseteq [sites : SUBSET CallSites, collections : Nat, types : Nat, code : Nat]
  /\ MaxType \in Nat /\ \A p \in Programs : FirstType + p.types <= MaxType

VARIABLES
  type_id,       \* _allocated_type_identifier of every Klass
  next_type,     \* next_allocated_type_identifier
  info,          \* id_to_info
  index,         \* info_to_id: the identifiers whose info is a key of it
  next_small, next_big,
  is_in_yellow_zone,
  dictionary,    \* the call sites of unloaded methods, as text
  types,         \* symbols file: the types
  sites,         \* symbols file: the last record of every site
  sites_lock, types_lock, writer_lock,
  program,       \* one of Programs
  call,          \* what a thread does
  code,          \* compiled allocations
  collections,   \* total_full_collections
  dead, unloaded, \* the class loader is unreachable; its frames are gone
  fatal          \* the VM has ended itself

table == <<info, index, next_small, next_big, is_in_yellow_zone, dictionary>>
klasses == <<type_id, next_type>>
symbols == <<types, sites>>
locks == <<sites_lock, types_lock, writer_lock>>
heap == <<program, collections, dead, unloaded>>
vars == <<klasses, table, symbols, locks, call, code, heap, fatal>>

Idle == [at |-> "idle", op |-> "none", for |-> "none", trace |-> <<>>, sites |-> <<>>,
         klass |-> NULL, relax |-> FALSE, deviant |-> FALSE, id |-> UNKNOWN, stack |-> <<>>]

Put(f, x, y) == [z \in DOMAIN f \cup {x} |-> IF z = x THEN y ELSE f[z]]

Goto(t, at) == call' = [call EXCEPT ![t].at = at]

TypeOf(k) == IF k = NULL THEN UNKNOWN ELSE type_id[k]

(* Reading a method that is gone is undefined. *)
NameOf(f) == IF f \in unloaded THEN "garbage" ELSE Name[f]
Names(s) == [i \in 1..Len(s) |-> NameOf(s[i])]
Loaded(s) == \A i \in 1..Len(s) : s[i] \notin unloaded
Usable(s) == dead => \A i \in 1..Len(s) : s[i] \notin Unloadable

-----------------------------------------------------------------------------
(* AllocatedTypes: the class has an identifier before its record is written, *)
(* and the first look is without the lock (synchronized_if).                 *)

Typed(t) ==
  call' = [call EXCEPT ![t] = IF @.op = "get" THEN Idle
                              ELSE [@ EXCEPT !.at = "resolve", !.stack = <<>>]]

ToAllocatedType(t) ==
  /\ call[t].at = "type"
  /\ IF TypeOf(call[t].klass) = UNKNOWN /\ call[t].klass # NULL
     THEN Goto(t, "types") ELSE Typed(t)
  /\ UNCHANGED <<klasses, table, symbols, locks, code, heap, fatal>>

SetIdentifier(k) ==
  /\ next_type < MaxType
  /\ type_id' = [type_id EXCEPT ![k] = next_type]
  /\ next_type' = next_type + 1

AssignTypeUnchecked(t) ==
  /\ call[t].at = "types" /\ types_lock = NULL
  /\ SetIdentifier(call[t].klass)
  /\ types_lock' = t
  /\ call' = [call EXCEPT ![t].at = "symbol", ![t].stack = <<call[t].klass>>]
  /\ UNCHANGED <<table, symbols, sites_lock, writer_lock, code, heap, fatal>>

AssignType(t) ==
  /\ call[t].at = "types" /\ types_lock = NULL
  /\ IF type_id[call[t].klass] = UNKNOWN
     THEN /\ SetIdentifier(call[t].klass)
          /\ types_lock' = t
          /\ call' = [call EXCEPT ![t].at = "symbol", ![t].stack = <<call[t].klass>>]
     ELSE Typed(t) /\ UNCHANGED <<klasses, types_lock>>
  /\ UNCHANGED <<table, symbols, sites_lock, writer_lock, code, heap, fatal>>

(* The writer asks for the super class, which is written first: the calls   *)
(* of write_symbols that have not returned are the stack.                   *)
WriteSuper(t) ==
  LET super == Super[Head(call[t].stack)] IN
  /\ call[t].at = "symbol" /\ writer_lock \in {NULL, t}
  /\ super # NULL /\ type_id[super] = UNKNOWN
  /\ SetIdentifier(super)
  /\ writer_lock' = t
  /\ call' = [call EXCEPT ![t].stack = <<super>> \o @]
  /\ UNCHANGED <<table, symbols, sites_lock, types_lock, code, heap, fatal>>

SuperDone(k) == Super[k] # NULL => type_id[Super[k]] # UNKNOWN

(* The next identifier would be negative: the VM ends itself. *)
TypesRunOut(t) ==
  /\ next_type = MaxType
  /\ \/ call[t].at = "types" /\ types_lock = NULL /\ type_id[call[t].klass] = UNKNOWN
     \/ /\ call[t].at = "symbol" /\ writer_lock \in {NULL, t}
        /\ ~SuperDone(Head(call[t].stack))
  /\ fatal' = TRUE
  /\ UNCHANGED <<klasses, table, symbols, locks, call, code, heap>>

WriteTypeSymbol(t) ==
  LET k == Head(call[t].stack)
      stack == Tail(call[t].stack) IN
  /\ call[t].at = "symbol" /\ writer_lock \in {NULL, t}
  /\ SuperDone(k)
  /\ types' = Append(types,
                [id |-> type_id[k], klass |-> k, super |-> TypeOf(Super[k])])
  /\ IF stack = <<>>
     THEN writer_lock' = NULL /\ types_lock' = NULL /\ Typed(t)
     ELSE /\ writer_lock' = t /\ UNCHANGED types_lock
          /\ call' = [call EXCEPT ![t].stack = stack]
  /\ UNCHANGED <<klasses, table, sites, sites_lock, code, heap, fatal>>

-----------------------------------------------------------------------------
(* method_to_allocation_site. *)

Min2(a, b) == IF a < b THEN a ELSE b
Prefix(s, n) == SubSeq(s, 1, Min2(n, Len(s)))

Depth(s) == IF TraceObjectsMaxStackTraceDepth > 0
            THEN Min2(TraceObjectsMaxStackTraceDepth, Len(s)) ELSE Len(s)

(* AllocationSites::equals: an unknown type is equal to any. *)
Equal(i, s, type) ==
  info[i].sites = s /\ (info[i].type = type \/ info[i].type = UNKNOWN \/ type = UNKNOWN)

Lookup(s, type) == {i \in index : Equal(i, s, type)}

(* An identifier whose methods were unloaded, found by their names. *)
Reusable(s, type) ==
  {dictionary[n] : n \in {m \in DOMAIN dictionary :
     Loaded(s) /\ m = Names(s) /\ info[dictionary[m]].type = type}}

InZone(percent) ==
  \/ 100 * next_small > (SmallRange - 1) * (100 - percent)
  \/ 100 * next_big > (BigRange - 1) * (100 - percent)

Shorter(s, type) ==
  LET lengths == {n \in 1..Len(s) : Lookup(Prefix(s, n), type) # {}} IN
  IF lengths = {} THEN {} ELSE Lookup(Prefix(s, Max(lengths)), type)

(* What the search finds: any one of these, nothing if there is none. *)
Candidates(s, type) ==
  LET here == Lookup(Prefix(s, Depth(s)), type)
      reused == IF here = {} THEN Reusable(s, type) ELSE here IN
  IF reused = {} /\ InZone(YellowZone) THEN Shorter(Prefix(s, Depth(s)), type) ELSE reused

NewDepth(s, type) ==
  IF InZone(YellowZone) /\ Candidates(s, type) = {}
  THEN IF InZone(RedZone) THEN 1 ELSE Min2(YellowDepth, Depth(s))
  ELSE Depth(s)

Small(c) == ~ExtendAllocationSiteIdRange \/ c.klass = NULL \/ c.deviant \/ c.klass \in Arrays

(* The loaders of the frames are the same. *)
Savable(s) == \A i, j \in 1..Len(s) : s[i] \in Unloadable <=> s[j] \in Unloadable

InsertAnother(id, new) ==
  info' = Put(info, id, new) /\ index' = index \cup {id}

(* Dict::Insert replaces an equal key. *)
Insert(id, new) ==
  /\ info' = Put(info, id, new)
  /\ LET equal == Lookup(new.sites, new.type) IN
     IF equal = {} THEN index' = index \cup {id}
     ELSE \E i \in equal : index' = (index \ {i}) \cup {id}

After(type) == IF type = UNKNOWN THEN "return" ELSE "write"

NewSiteWithoutMask(t) ==
  LET c == call[t]
      type == TypeOf(c.klass)
      s == Prefix(c.sites, NewDepth(c.sites, type))
      id == IF Small(c) THEN next_small ELSE BigRange + next_big IN
  /\ IF Small(c) THEN next_small' = next_small + 1 /\ UNCHANGED next_big
     ELSE next_big' = next_big + 1 /\ UNCHANGED next_small
  /\ Insert(id, [sites |-> s, type |-> type, savable |-> Savable(s)])
  /\ call' = [call EXCEPT ![t].id = id, ![t].at = After(type)]
  /\ UNCHANGED fatal

NewSite(t) ==
  LET c == call[t]
      type == TypeOf(c.klass)
      s == Prefix(c.sites, NewDepth(c.sites, type))
      number == IF Small(c) THEN next_small ELSE next_big
      id == IF Small(c) THEN number ELSE BigRange + number IN
  /\ IF Small(c)
     THEN next_small' = (next_small + 1) % SmallRange /\ UNCHANGED next_big
     ELSE next_big' = (next_big + 1) % BigRange /\ UNCHANGED next_small
  /\ fatal' = (number < FIRST)
  /\ IF number < FIRST THEN UNCHANGED <<info, index, call>>
     ELSE /\ Insert(id, [sites |-> s, type |-> type, savable |-> Savable(s)])
          /\ call' = [call EXCEPT ![t].id = id, ![t].at = After(type)]

(* check_allocation_site: the first known class becomes the site's type. *)
Patches(id, type) == info[id].type = UNKNOWN /\ type # UNKNOWN

CheckSiteWithoutSymbols(t, id) ==
  LET type == TypeOf(call[t].klass) IN
  /\ info' = IF Patches(id, type) THEN [info EXCEPT ![id].type = type] ELSE info
  /\ call' = [call EXCEPT ![t].id = id, ![t].at = "return"]
  /\ UNCHANGED <<index, next_small, next_big, fatal>>

CheckSiteWriting(t, id) ==
  LET type == TypeOf(call[t].klass) IN
  /\ info' = IF Patches(id, type) THEN [info EXCEPT ![id].type = type] ELSE info
  /\ call' = [call EXCEPT ![t].id = id, ![t].at = After(type)]
  /\ UNCHANGED <<index, next_small, next_big, fatal>>

CheckSite(t, id) ==
  LET type == TypeOf(call[t].klass) IN
  /\ info' = IF Patches(id, type) THEN [info EXCEPT ![id].type = type] ELSE info
  /\ call' = [call EXCEPT ![t].id = id,
                ![t].at = IF Patches(id, type) THEN "write" ELSE "return"]
  /\ UNCHANGED <<index, next_small, next_big, fatal>>

(* With relax, an identifier of another type is as good as none. *)
Accepted(c, id) == c.relax => info[id].type = TypeOf(c.klass)

Find(t) ==
  LET c == call[t]
      found == Candidates(c.sites, TypeOf(c.klass)) IN
  /\ call[t].at = "resolve" /\ c.op = "find"
  /\ is_in_yellow_zone' = InZone(YellowZone)
  /\ \/ \E id \in found : Accepted(c, id) /\ CheckSite(t, id)
     \/ (\E id \in found : ~Accepted(c, id)) /\ NewSite(t)
     \/ found = {} /\ NewSite(t)
  /\ UNCHANGED <<klasses, dictionary, symbols, locks, code, heap>>

Check(t) ==
  /\ call[t].at = "resolve" /\ call[t].op = "check"
  /\ CheckSite(t, call[t].id)
  /\ UNCHANGED <<klasses, is_in_yellow_zone, dictionary, symbols, locks, code, heap>>

(* A collection may make identifiers reusable. *)
NeedsCollection == is_in_yellow_zone /\ collections = 0

(* allocation_site_to_allocation_site_with_alternate_type: the lock is held *)
(* while the stack trace of the site is looked up with the other type.      *)
Alternate(t) ==
  LET i == info[call[t].id] IN
  /\ call[t].at = "resolve" /\ call[t].op = "alternate"
  /\ call' = IF i.type = TypeOf(call[t].klass) THEN [call EXCEPT ![t].at = "return"]
             ELSE [call EXCEPT ![t].op = "find", ![t].sites = i.sites, ![t].relax = TRUE,
                     ![t].at = IF NeedsCollection THEN "collect" ELSE "resolve"]
  /\ UNCHANGED <<klasses, table, symbols, locks, code, heap, fatal>>

WriteSiteSymbol(t) ==
  LET id == call[t].id IN
  /\ call[t].at = "write" /\ writer_lock = NULL
  /\ sites' = Put(sites, id, [names |-> Names(info[id].sites), type |-> info[id].type])
  /\ Goto(t, "return")
  /\ UNCHANGED <<klasses, table, types, locks, code, heap, fatal>>

Lock(t) ==
  /\ call[t].at = "lock" /\ sites_lock = NULL
  /\ sites_lock' = t
  /\ Goto(t, "type")
  /\ UNCHANGED <<klasses, table, symbols, types_lock, writer_lock, code, heap, fatal>>

-----------------------------------------------------------------------------
(* The callers.  A site has one class unless it is an intrinsic of C2 whose *)
(* class is known at run time only: such a site is always looked up relaxed. *)

TheClass(s, k) == Allocates[s] = {k}

Start(t, c) ==
  /\ call[t].at = "idle" /\ Usable(c.trace)
  /\ call' = [call EXCEPT ![t] = c]
  /\ UNCHANGED <<klasses, table, symbols, locks, code, heap, fatal>>

StartFind(t, for, s, k, relax, deviant) ==
  Start(t, [Idle EXCEPT !.op = "find", !.for = for, !.trace = s, !.sites = s, !.klass = k,
              !.relax = relax, !.deviant = deviant,
              !.at = IF NeedsCollection THEN "collect" ELSE "lock"])

(* Also C2 code that has a constant class and passes no identifier. *)
Interpreter(t) == \E s \in program.sites : \E k \in Allocates[s] :
  TheClass(s, k) /\ StartFind(t, "fire", s, k, FALSE, FALSE)

(* fire_obj_alloc_fast_unknown: the class is not constant and C2 code passes *)
(* no identifier.                                                            *)
C2Unknown(t) == \E s \in program.sites : \E k \in Allocates[s] :
  ~TheClass(s, k) /\ StartFind(t, "fire", s, k, TRUE, FALSE)

CompileC1(t) == \E s \in program.sites : \E k \in Allocates[s] \cup {NULL} :
  /\ \A l \in Allocates[s] : TheClass(s, l)
  /\ k = NULL => s \in Unresolved
  /\ Cardinality(code) < program.code
  /\ StartFind(t, "c1", s, k, FALSE, FALSE)

CompileC2(t) == \E s \in program.sites : \E k \in Allocates[s] :
  Cardinality(code) < program.code /\ StartFind(t, "c2", s, k, TRUE, TRUE)

(* Compiled code passes its identifier; C1 has it checked.  C2 has it        *)
(* exchanged when the object is of another class, on the way of a slow       *)
(* allocation and on that of a fast one whose class is not constant.  Code   *)
(* fires the event by itself when it knows the class; when it does not, C2   *)
(* code that meets a class with an identifier puts that into the event too.  *)
RunC1(t) == \E c \in code : \E k \in Allocates[c.trace] :
  /\ c.by = "c1"
  /\ \/ Start(t, [Idle EXCEPT !.op = "check", !.for = "fire", !.trace = c.trace,
                    !.klass = k, !.id = c.id, !.at = "lock"])
     \/ c.klass = k
        /\ Start(t, [Idle EXCEPT !.trace = c.trace, !.klass = k, !.id = c.id, !.at = "fire"])

RunC2(t) == \E c \in code : \E k \in Allocates[c.trace] :
  /\ c.by = "c2"
  /\ \/ \E for \in {"slow"} \cup (IF TheClass(c.trace, k) THEN {} ELSE {"fire"}) :
          Start(t, [Idle EXCEPT !.op = "alternate", !.for = for, !.trace = c.trace,
                      !.klass = k, !.id = c.id, !.at = "lock"])
     \/ TheClass(c.trace, k)
        /\ Start(t, [Idle EXCEPT !.trace = c.trace, !.klass = k, !.id = c.id, !.at = "fire"])
     \/ ~TheClass(c.trace, k) /\ type_id[k] # UNKNOWN
        /\ Start(t, [Idle EXCEPT !.trace = c.trace, !.klass = k, !.id = c.id, !.at = "fire",
                       !.deviant = TRUE])

GetType(t) == \E k \in Klasses :
  Start(t, [Idle EXCEPT !.op = "get", !.klass = k, !.at = "type"])

ReturnHolding(t) ==
  LET c == call[t] IN
  /\ c.at = "return"
  /\ c.for = "fire" /\ Goto(t, "fire")
  /\ UNCHANGED <<klasses, table, symbols, locks, code, heap, fatal>>

Return(t) ==
  LET c == call[t] IN
  /\ c.at = "return"
  /\ sites_lock' = NULL
  /\ \/ /\ c.for \in {"c1", "c2"}
        /\ code' = code \cup {[by |-> c.for, trace |-> c.trace, klass |-> c.klass, id |-> c.id]}
        /\ call' = [call EXCEPT ![t] = Idle]
     \/ c.for = "fire" /\ Goto(t, "fire") /\ UNCHANGED code
     \/ /\ c.for = "slow"
        /\ call' = [call EXCEPT ![t].op = "check", ![t].for = "fire", ![t].at = "lock"]
        /\ UNCHANGED code
  /\ UNCHANGED <<klasses, table, symbols, types_lock, writer_lock, heap, fatal>>

Fire(t) ==
  /\ call[t].at = "fire"
  /\ call' = [call EXCEPT ![t] = Idle]
  /\ UNCHANGED <<klasses, table, symbols, locks, code, heap, fatal>>

-----------------------------------------------------------------------------
(* A full collection.  A Java thread that waits for a lock of the tracing   *)
(* does so without a safepoint check, so the collection waits for it; a     *)
(* compiler thread runs on.  The identifiers of a class loader that is      *)
(* unloaded are kept under the names of their methods, the last one put.    *)

Die ==
  /\ ~dead /\ Unloadable # {}
  /\ \A t \in Threads : \A i \in 1..Len(call[t].trace) : call[t].trace[i] \notin Unloadable
  /\ dead' = TRUE
  /\ UNCHANGED <<klasses, table, symbols, locks, call, code, program, collections, unloaded,
                 fatal>>

Saved == {i \in DOMAIN info :
            /\ info[i].savable /\ Loaded(info[i].sites)
            /\ \E n \in 1..Len(info[i].sites) : info[i].sites[n] \in Unloadable}

SaveUnloaded ==
  IF ReuseUnloadedAllocationSites
  THEN \E last \in [{Names(info[i].sites) : i \in Saved} -> Saved] :
         /\ \A n \in DOMAIN last : Names(info[last[n]].sites) = n
         /\ dictionary' = [n \in DOMAIN last \cup DOMAIN dictionary |->
                            IF n \in DOMAIN last THEN last[n] ELSE dictionary[n]]
  ELSE UNCHANGED dictionary

Collect ==
  /\ \A t \in JavaThreads : call[t].at \in {"idle", "fire", "collect"}
  /\ collections' = Min2(collections + 1, 1)
  /\ IF dead /\ unloaded = {}
     THEN /\ ReuseUnloadedAllocationSites => sites_lock = NULL
          /\ SaveUnloaded
          /\ unloaded' = Unloadable
          /\ code' = {c \in code : \A i \in 1..Len(c.trace) : c.trace[i] \notin Unloadable}
     ELSE UNCHANGED <<dictionary, unloaded, code>>
  /\ call' = [t \in Threads |-> IF call[t].at # "collect" THEN call[t]
                ELSE [call[t] EXCEPT !.at = IF sites_lock = t THEN "resolve" ELSE "lock"]]
  /\ UNCHANGED <<klasses, info, index, next_small, next_big, is_in_yellow_zone, symbols,
                 locks, program, dead, fatal>>

-----------------------------------------------------------------------------
Init ==
  /\ program \in Programs /\ collections = program.collections
  /\ type_id = [k \in Klasses |-> UNKNOWN] /\ next_type = FirstType + program.types
  /\ info = <<>> /\ index = {} /\ next_small = FIRST /\ next_big = FIRST
  /\ is_in_yellow_zone = FALSE /\ dictionary = <<>>
  /\ types = <<>> /\ sites = <<>>
  /\ sites_lock = NULL /\ types_lock = NULL /\ writer_lock = NULL
  /\ call = [t \in Threads |-> Idle] /\ code = {}
  /\ dead = FALSE /\ unloaded = {}
  /\ fatal = FALSE

Steps(t) ==
  \/ ToAllocatedType(t) \/ AssignType(t) \/ WriteSuper(t) \/ WriteTypeSymbol(t)
  \/ TypesRunOut(t)
  \/ Lock(t) \/ Find(t) \/ Check(t) \/ Alternate(t) \/ WriteSiteSymbol(t)
  \/ Return(t) \/ Fire(t)

Next ==
  /\ ~fatal
  /\ \/ \E t \in Threads : Steps(t)
     \/ \E t \in JavaThreads :
          Interpreter(t) \/ C2Unknown(t) \/ RunC1(t) \/ RunC2(t) \/ GetType(t)
     \/ \E t \in CompilerThreads : CompileC1(t) \/ CompileC2(t)
     \/ Die \/ Collect

Spec == Init /\ [][Next]_vars

(* A thread in the VM goes on.  The VM thread stops the others for a        *)
(* collection someone waits for.                                            *)
Awaited == \E t \in Threads : call[t].at = "collect"

FairSpec ==
  /\ Spec
  /\ \A t \in Threads : WF_vars(~fatal /\ Steps(t))
  /\ SF_vars(~fatal /\ Awaited /\ Collect)

-----------------------------------------------------------------------------
Ids == 0..(2 * BigRange)

(* Type correctness. *)
TypeOK ==
  /\ type_id \in [Klasses -> Nat] /\ next_type \in Nat
  /\ \A i \in DOMAIN info : i \in Ids /\ info[i] \in
       [sites : Seq(Frames), type : Nat, savable : BOOLEAN]
  /\ index \subseteq DOMAIN info
  /\ next_small \in 0..(SmallRange - 1) /\ next_big \in 0..(BigRange - 1)
  /\ \A n \in DOMAIN dictionary : dictionary[n] \in DOMAIN info
  /\ types \in Seq([id : Nat, klass : Klasses, super : Nat])
  /\ DOMAIN sites \subseteq DOMAIN info
  /\ {sites_lock, types_lock, writer_lock} \subseteq Threads \cup {NULL}
  /\ unloaded \subseteq Unloadable

(* The method was unloaded before the record was written. *)
Stale(id, i, name) ==
  /\ sites[id].names[i] = "garbage"
  /\ info[id].sites[i] \in unloaded /\ Name[info[id].sites[i]] = name

(* The record of a site names the innermost frames of the stack trace. *)
Located(id, s) ==
  /\ id \in DOMAIN sites
  /\ Len(sites[id].names) \in 1..Len(s)
  /\ \A i \in 1..Len(sites[id].names) :
       sites[id].names[i] = Name[s[i]] \/ Stale(id, i, Name[s[i]])

(* It names the class, too. *)
Told(id, s, k) ==
  Located(id, s) /\ sites[id].type = type_id[k] /\ type_id[k] # UNKNOWN

(* The class has an identifier, and its record is there or being written. *)
TypeTold(k) ==
  /\ type_id[k] # UNKNOWN
  /\ \/ \E i \in 1..Len(types) : types[i].id = type_id[k] /\ types[i].klass = k
     \/ \E t \in Threads : \E i \in 1..Len(call[t].stack) : call[t].stack[i] = k

(* An allocation event carries an identifier whose record in the symbols    *)
(* file is there before the event, and says what was allocated and where:   *)
(* for the event a thread is about to fire, and for what compiled code      *)
(* fires without asking.  An event of C2 code that does not know the class  *)
(* says itself what was allocated.  One kind of record is wrong: that of an *)
(* identifier without a type which was reused after its class was unloaded. *)
(* The table still has the old method when the type is found out and the    *)
(* record written.                                                          *)
EventsTold ==
  /\ \A t \in Threads : call[t].at = "fire" =>
       IF call[t].deviant
       THEN Located(call[t].id, call[t].trace) /\ TypeTold(call[t].klass)
       ELSE Told(call[t].id, call[t].trace, call[t].klass)
  /\ \A c \in code : c.klass # NULL => Told(c.id, c.trace, c.klass)

(* The record of a site never changes: events that were fired earlier keep  *)
(* their meaning, although the analyzer takes a site's last record.         *)
RecordsStable ==
  [][\A id \in DOMAIN sites : id \in DOMAIN sites' /\ sites'[id] = sites[id]]_vars

(* A class has one identifier and one record, its super class has its own   *)
(* before, and every identified class is recorded once no thread is about   *)
(* to do it.                                                                *)
TypesTold ==
  /\ \A i, j \in 1..Len(types) :
       types[i].id = types[j].id \/ types[i].klass = types[j].klass => i = j
  /\ \A i \in 1..Len(types) :
       types[i].super # UNKNOWN => \E j \in 1..(i - 1) : types[j].id = types[i].super
  /\ \A k \in Klasses : types_lock = NULL /\ type_id[k] # UNKNOWN =>
       \E i \in 1..Len(types) : types[i].id = type_id[k]

(* The table has no two equal keys, although an unknown type is equal to    *)
(* any and types are patched in place: a search for a known class has one   *)
(* answer.                                                                  *)
KeysDiffer ==
  \A i, j \in index : i # j => ~Equal(i, info[j].sites, info[j].type)

(* Who has the lock of the table releases it, whatever other locks are      *)
(* taken while it is held, although a Java thread that waits for it keeps   *)
(* a collection from starting.  Checked for programs whose intrinsics run   *)
(* after the first full collection; GCStarts is about the others.           *)
LockReleased == \A t \in Threads : sites_lock = t ~> sites_lock # t \/ fatal

(* "Start GC if we are running out of allocation site ids and full GC was   *)
(* never active": AllocationSites.cpp.  The collection takes place.         *)
GCStarts ==
  \A t \in Threads : call[t].at = "collect" ~> call[t].at # "collect" \/ fatal

=============================================================================
