----------------------- MODULE AllocationSitesProofs -----------------------
(***************************************************************************)
(* That the record of a site never changes and that the keys of the table  *)
(* stay different, for any threads, classes, stack traces, ranges, zones   *)
(* and options.                                                            *)
(*                                                                         *)
(* A record is written by the thread that made the site or found out its   *)
(* type, while it holds the lock of the table.  So a site that is about to *)
(* be written has no record (RecordInv): a new identifier is fresh because *)
(* the VM ends itself when the counter has come round (TableInv), and a    *)
(* patched one had no type, while every recorded site has one.  Patching a *)
(* key keeps it different from the others because its unknown type was     *)
(* already equal to any.                                                   *)
(***************************************************************************)
EXTENDS AllocationSites, WellFoundedInduction, TLAPS

Shape(c) ==
  c = [at |-> c.at, op |-> c.op, for |-> c.for, trace |-> c.trace, sites |-> c.sites,
       klass |-> c.klass, relax |-> c.relax, deviant |-> c.deviant, id |-> c.id,
       stack |-> c.stack]

InfoShape(i) == i = [sites |-> i.sites, type |-> i.type, savable |-> i.savable]

Inside(c) == c.op # "get" /\ c.at \in {"type", "types", "symbol", "resolve", "write", "return"}

Identified(c) == c.op \in {"check", "alternate"} \/ c.at \in {"write", "return", "fire"}

Trace == Seq(Frames) \ {<<>>}

Known(c) == c.klass \in Klasses => type_id[c.klass] # UNKNOWN

TableInv ==
  /\ info = [i \in DOMAIN info |-> info[i]]
  /\ \A i \in DOMAIN info : i \in Nat /\ InfoShape(info[i]) /\ info[i].sites \in Trace
  /\ index \subseteq DOMAIN info
  /\ \A n \in DOMAIN dictionary : dictionary[n] \in DOMAIN info
  /\ next_small \in 0..(SmallRange - 1) /\ next_big \in 0..(BigRange - 1)
  /\ ~fatal => \A i \in DOMAIN info :
       /\ i < BigRange => next_small = 0 \/ i < next_small
       /\ i >= BigRange => next_big = 0 \/ i < BigRange + next_big

KlassInv ==
  /\ type_id \in [Klasses -> Nat] /\ next_type \in Nat \ {0}
  /\ program.sites \subseteq CallSites

(* What is known of one call. *)
CallOK(t, c) ==
  /\ Shape(c)
  /\ c.klass \in Klasses \cup {NULL}
  /\ c.op = "find" => c.sites \in Trace
  /\ c.relax \/ c.op = "alternate" => c.klass \in Klasses
  /\ c.for \in {"c1", "c2"} => c.trace \in CallSites
  /\ c.at \in {"lock", "collect", "resolve", "write", "return"} => c.op # "get"
  /\ c.at \in {"symbol", "resolve"} => Known(c)
  /\ Inside(c) => sites_lock = t
  /\ sites_lock = t => Inside(c) \/ (c.at = "collect" /\ c.op = "find" /\ Known(c))
  /\ Identified(c) => c.id \in DOMAIN info
  /\ c.at = "write" => c.id \notin DOMAIN sites /\ info[c.id].type # UNKNOWN

CallInv ==
  /\ call = [t \in Threads |-> call[t]]
  /\ \A t \in Threads : CallOK(t, call[t])
  /\ \A c \in code : c.id \in DOMAIN info /\ c.trace \in CallSites

RecordInv ==
  /\ sites = [i \in DOMAIN sites |-> sites[i]]
  /\ DOMAIN sites \subseteq DOMAIN info
  /\ \A i \in DOMAIN sites : info[i].type # UNKNOWN

IInv == TableInv /\ KlassInv /\ KeysDiffer /\ CallInv /\ RecordInv

-----------------------------------------------------------------------------
(* A bounded set of numbers has a greatest one. *)
LEMMA MaxExists ==
  ASSUME NEW n \in Nat, NEW S, S \subseteq 1..n, S # {}
  PROVE  Max(S) \in S
<1> DEFINE T == {n - x : x \in S}
           R == OpToRel(<, Nat)
<1>1. IsWellFoundedOn(R, Nat)
  BY NatLessThanWellFounded, Zenon
<1>2. \A y, m \in Nat : y < m => <<y, m>> \in R
  BY DEF OpToRel
<1> HIDE DEF R
<1>3. \A x \in S : x \in Nat /\ x <= n /\ n - x \in Nat
  OBVIOUS
<1>4. T \subseteq Nat /\ T # {}
  BY <1>3, Zenon
<1>5. \E m \in T : \A y \in T : ~(<<y, m>> \in R)
  <2> HIDE DEF T
  <2> QED BY <1>1, <1>4, WFMin, Zenon
<1>6. PICK x \in S : \A y \in T : ~(<<y, n - x>> \in R)
  BY <1>5
<1>7. ASSUME NEW y \in S PROVE x >= y
  <2>1. ~(<<n - y, n - x>> \in R)
    BY <1>6
  <2>2. ~(n - y < n - x)
    BY <1>2, <1>3, <2>1
  <2> QED BY <1>3, <2>2
<1> QED BY <1>7, Zenon DEF Max

(* The depth of a new site is one its stack trace has. *)
LEMMA DepthBounds ==
  ASSUME NEW s \in Trace, NEW type
  PROVE  /\ Depth(s) \in 1..Len(s)
         /\ NewDepth(s, type) \in 1..Depth(s)
<1>1. Len(s) \in Nat \ {0}
  BY DEF Trace
<1>2. Depth(s) \in 1..Len(s)
  BY <1>1, SitesAssumption DEF Depth, Min2
<1> QED BY <1>1, <1>2, SitesAssumption DEF NewDepth, Min2

(* A prefix of a stack trace is one, and a prefix of a longer prefix. *)
LEMMA Prefixes ==
  ASSUME NEW s \in Trace, NEW m \in 1..Len(s), NEW n \in 1..m
  PROVE  /\ Prefix(s, m) \in Trace /\ Len(Prefix(s, m)) = m
         /\ Prefix(Prefix(s, m), n) = Prefix(s, n)
<1>1. s \in Seq(Frames) /\ Len(s) \in Nat /\ Min2(m, Len(s)) = m /\ Min2(n, Len(s)) = n
      /\ Min2(n, m) = n
  BY DEF Trace, Min2
<1>2. Prefix(s, m) \in Seq(Frames) /\ Len(Prefix(s, m)) = m
  BY <1>1 DEF Prefix
<1>3. Prefix(Prefix(s, m), n) = SubSeq(SubSeq(s, 1, m), 1, n)
  BY <1>1, <1>2 DEF Prefix
<1>4. SubSeq(SubSeq(s, 1, m), 1, n) = SubSeq(s, 1, n)
  BY <1>1
<1> QED BY <1>1, <1>2, <1>3, <1>4 DEF Trace, Prefix

(* When a search finds nothing, no key is equal to the one that is made. *)
LEMMA NothingFound ==
  ASSUME NEW s \in Trace, NEW type, Candidates(s, type) = {}
  PROVE  Lookup(Prefix(s, NewDepth(s, type)), type) = {}
<1> DEFINE p == Prefix(s, Depth(s))
           n == NewDepth(s, type)
<1>1. Depth(s) \in 1..Len(s) /\ n \in 1..Depth(s)
  BY DepthBounds
<1>2. p \in Trace /\ Len(p) = Depth(s) /\ Prefix(p, n) = Prefix(s, n)
  BY <1>1, Prefixes
<1>3. CASE ~InZone(YellowZone)
  BY <1>3 DEF Candidates, NewDepth
<1>4. CASE InZone(YellowZone)
  <2> DEFINE lengths == {m \in 1..Len(p) : Lookup(Prefix(p, m), type) # {}}
  <2>1. Shorter(p, type) = {}
    BY <1>4 DEF Candidates
  <2>2. lengths = {} \/ Max(lengths) \notin lengths
    BY <2>1, Zenon DEF Shorter
  <2>3. Len(p) \in Nat /\ lengths \subseteq 1..Len(p)
    BY <1>1, <1>2 DEF Trace
  <2>4. lengths = {}
    <3> HIDE DEF lengths
    <3> QED BY <2>2, <2>3, MaxExists, Zenon
  <2> QED BY <1>1, <1>2, <2>4
<1> QED BY <1>3, <1>4

(* What a search finds has an entry. *)
LEMMA CandidatesExist ==
  ASSUME TableInv, NEW s, NEW type
  PROVE  Candidates(s, type) \subseteq DOMAIN info
<1>1. \A r : Lookup(r, type) \subseteq DOMAIN info
  BY DEF Lookup, TableInv
<1>2. Reusable(s, type) \subseteq DOMAIN info
  BY DEF Reusable, TableInv
<1>3. Shorter(Prefix(s, Depth(s)), type) \subseteq DOMAIN info
  BY <1>1 DEF Shorter
<1> QED BY <1>1, <1>2, <1>3 DEF Candidates

(* A step of thread t leaves what is known of the other calls true: it      *)
(* changes the table only if it has the lock, which another one then has    *)
(* not, and classes keep their identifiers.                                 *)
LEMMA OthersKept ==
  ASSUME IInv, NEW t \in Threads,
         call' = [u \in Threads |-> call'[u]],
         \A u \in Threads : u # t => call'[u] = call[u],
         \A k \in Klasses : type_id[k] # UNKNOWN => type_id'[k] # UNKNOWN,
         DOMAIN info \subseteq DOMAIN info',
         sites_lock' = sites_lock \/ {sites_lock, sites_lock'} \subseteq {NULL, t},
         UNCHANGED <<info, sites>> \/ sites_lock = t,
         CallOK(t, call[t])',
         \A c \in code' : c.id \in DOMAIN info' /\ c.trace \in CallSites
  PROVE  CallInv'
<1> TableInv /\ KlassInv /\ KeysDiffer /\ CallInv /\ RecordInv
  BY DEF IInv
<1>1. ASSUME NEW u \in Threads, u # t PROVE CallOK(u, call[u])'
  <2>1. CallOK(u, call[u]) /\ call'[u] = call[u]
    BY <1>1 DEF CallInv
  <2>2. sites_lock' = u <=> sites_lock = u
    BY <1>1, SitesAssumption DEF Threads
  <2>3. Known(call[u]) => Known(call[u])'
    BY <2>1 DEF Known
  <2>4. call[u].at = "write" => UNCHANGED <<info, sites>>
    BY <1>1, <2>1 DEF CallOK, Inside
  <2> QED BY <2>1, <2>2, <2>3, <2>4 DEF CallOK, Inside, Identified
<1> QED BY <1>1 DEF CallInv

(* The invariant of the table depends on the table alone. *)
LEMMA TableKept ==
  ASSUME IInv, UNCHANGED <<info, index, next_small, next_big, dictionary, sites, fatal>>
  PROVE  TableInv' /\ KeysDiffer' /\ RecordInv'
BY DEF IInv, TableInv, KeysDiffer, Equal, RecordInv

(* A patched site keeps its entry, the others keep everything. *)
LEMMA CheckSiteStep ==
  ASSUME IInv, NEW t \in Threads, NEW id \in DOMAIN info, CheckSite(t, id),
         Inside(call[t]), UNCHANGED <<klasses, dictionary, symbols, locks, code, heap>>
  PROVE  IInv'
<1> TableInv /\ KlassInv /\ KeysDiffer /\ CallInv /\ RecordInv
  BY DEF IInv
<1> DEFINE type == TypeOf(call[t].klass)
<1>1. /\ DOMAIN info' = DOMAIN info /\ info' = [i \in DOMAIN info' |-> info'[i]]
      /\ \A i \in DOMAIN info : i # id => info'[i] = info[i]
      /\ InfoShape(info'[id]) /\ info'[id].sites = info[id].sites
      /\ info'[id].type = IF Patches(id, type) THEN type ELSE info[id].type
  BY DEF CheckSite, TableInv, InfoShape
<1>2. /\ UNCHANGED <<index, next_small, next_big, fatal, dictionary, sites, sites_lock, code>>
      /\ UNCHANGED <<type_id, next_type, program>>
  BY DEF CheckSite, symbols, locks, klasses, heap
<1>3. /\ call' = [u \in Threads |-> call'[u]]
      /\ \A u \in Threads : u # t => call'[u] = call[u]
      /\ call'[t] = [call[t] EXCEPT !.id = id,
                       !.at = IF Patches(id, type) THEN "write" ELSE "return"]
  BY DEF CheckSite, CallInv
<1>4. TableInv'
  BY <1>1, <1>2 DEF TableInv
<1>5. KeysDiffer'
  BY <1>1, <1>2 DEF TableInv, KeysDiffer, Equal, Patches
<1>6. RecordInv' /\ KlassInv'
  BY <1>1, <1>2 DEF RecordInv, KlassInv, Patches
<1>7. CallOK(t, call[t]) /\ sites_lock = t
  BY DEF CallInv, CallOK
<1>8. CallOK(t, call[t])'
  <2>1. /\ Shape(call'[t]) /\ call'[t].id = id
        /\ call'[t].at = IF Patches(id, type) THEN "write" ELSE "return"
        /\ \A f \in {"op", "klass", "relax", "for", "trace", "sites"} : call'[t][f] = call[t][f]
    <3> DEFINE at == IF Patches(id, type) THEN "write" ELSE "return"
    <3>1. Shape(call[t]) /\ call'[t] = [call[t] EXCEPT !.id = id, !.at = at]
      BY <1>3, <1>7 DEF CallOK
    <3> HIDE DEF at
    <3>2. /\ Shape(call'[t]) /\ call'[t].id = id /\ call'[t].at = at
          /\ \A f \in {"op", "klass", "relax", "for", "trace", "sites"} :
               call'[t][f] = call[t][f]
      BY <3>1, Zenon DEF Shape
    <3> QED BY <3>2 DEF at
  <2>2. Patches(id, type) => id \notin DOMAIN sites' /\ info'[id].type # UNKNOWN
    BY <1>1, <1>2 DEF Patches, RecordInv
  <2> QED BY <1>1, <1>2, <1>7, <2>1, <2>2 DEF CallOK, Inside, Identified
<1>9. CallInv'
  BY <1>1, <1>2, <1>3, <1>7, <1>8, OthersKept DEF CallInv
<1> QED BY <1>4, <1>5, <1>6, <1>9 DEF IInv

(* A new site has a fresh identifier and replaces the only key that may be  *)
(* equal to its own.                                                        *)
LEMMA NewSiteStep ==
  ASSUME IInv, NEW t \in Threads, NewSite(t), ~fatal,
         call[t].at = "resolve" /\ call[t].op = "find",
         Candidates(call[t].sites, TypeOf(call[t].klass)) = {} \/ call[t].relax,
         UNCHANGED <<klasses, dictionary, symbols, locks, code, heap>>
  PROVE  IInv'
<1> TableInv /\ KlassInv /\ KeysDiffer /\ CallInv /\ RecordInv
  BY DEF IInv
<1> DEFINE c == call[t]
           type == TypeOf(c.klass)
           s == Prefix(c.sites, NewDepth(c.sites, type))
           number == IF Small(c) THEN next_small ELSE next_big
           id == IF Small(c) THEN number ELSE BigRange + number
           new == [sites |-> s, type |-> type, savable |-> Savable(s)]
<1>1. /\ IF Small(c)
         THEN next_small' = (next_small + 1) % SmallRange /\ next_big' = next_big
         ELSE next_big' = (next_big + 1) % BigRange /\ next_small' = next_small
      /\ fatal' = (number < FIRST)
      /\ IF number < FIRST THEN UNCHANGED <<info, index, call>>
         ELSE /\ Insert(id, new)
              /\ call' = [call EXCEPT ![t].id = id, ![t].at = After(type)]
  BY DEF NewSite
<1>11. number = (IF Small(c) THEN next_small ELSE next_big)
       /\ id = (IF Small(c) THEN number ELSE BigRange + number)
  OBVIOUS
<1>12. s = Prefix(c.sites, NewDepth(c.sites, type)) /\ type = TypeOf(c.klass)
  OBVIOUS
<1>13. InfoShape(new) /\ new.sites = s /\ new.type = type
  BY DEF InfoShape
<1>14. Candidates(c.sites, type) = {} \/ c.relax
  OBVIOUS
<1> HIDE DEF type, s, number, id, new
<1>2. UNCHANGED <<dictionary, sites, sites_lock, code, type_id, next_type, program>>
  BY DEF symbols, locks, klasses, heap
<1>3. /\ next_small \in 0..(SmallRange - 1) /\ next_big \in 0..(BigRange - 1)
      /\ SmallRange \in Nat \ {0} /\ BigRange \in Nat \ {0} /\ SmallRange <= BigRange
      /\ FIRST \in Nat \ {0}
  BY SitesAssumption DEF TableInv
<1>4. /\ next_small' \in 0..(SmallRange - 1) /\ next_big' \in 0..(BigRange - 1)
  <2>1. \A n \in Nat, m \in Nat \ {0} : n % m \in 0..(m - 1)
    OBVIOUS
  <2>0. next_small + 1 \in Nat /\ next_big + 1 \in Nat
    BY <1>3
  <2>2. (next_small + 1) % SmallRange \in 0..(SmallRange - 1)
    BY <1>3, <2>0, <2>1, Zenon
  <2>3. (next_big + 1) % BigRange \in 0..(BigRange - 1)
    BY <1>3, <2>0, <2>1, Zenon
  <2> QED BY <1>1, <2>2, <2>3, <1>3
<1>5. KlassInv'
  BY <1>2 DEF KlassInv
<1>6. CallOK(t, c) /\ sites_lock = t /\ c.sites \in Trace /\ Known(c)
  BY DEF CallInv, CallOK, Inside
<1>7. CASE number < FIRST
  <2>1. UNCHANGED <<info, index, call>> /\ fatal'
    BY <1>1, <1>7, Zenon
  <2>2. TableInv'
    BY <1>2, <1>4, <2>1 DEF TableInv
  <2>3. KeysDiffer' /\ RecordInv'
    BY <1>2, <2>1 DEF KeysDiffer, Equal, RecordInv
  <2>4. CallInv'
    BY <1>2, <2>1 DEF CallInv, CallOK, Known
  <2> QED BY <1>5, <2>2, <2>3, <2>4 DEF IInv
<1>8. CASE ~(number < FIRST)
  <2>1. Insert(id, new) /\ call' = [call EXCEPT ![t].id = id, ![t].at = After(type)] /\ ~fatal'
    BY <1>1, <1>8, ZenonT(60)
  <2>2. id \in Nat /\ id \notin DOMAIN info
    BY <1>3, <1>8, <1>11 DEF TableInv
  <2>3. s \in Trace
    BY <1>6, <1>12, DepthBounds, Prefixes
  <2>4. /\ info' = [i \in DOMAIN info' |-> info'[i]]
        /\ DOMAIN info' = DOMAIN info \cup {id}
        /\ \A i \in DOMAIN info : info'[i] = info[i]
        /\ InfoShape(info'[id]) /\ info'[id].sites = s /\ info'[id].type = type
    <3>1. info' = Put(info, id, new)
      BY <2>1 DEF Insert
    <3> QED BY <1>13, <2>2, <3>1 DEF Put
  <2>5. \/ index' = index \cup {id} /\ Lookup(s, type) = {}
        \/ \E i \in Lookup(s, type) : index' = (index \ {i}) \cup {id}
    BY <1>13, <2>1 DEF Insert
  <2>6. /\ Small(c) => next_small' = 0 \/ next_small' = next_small + 1
        /\ ~Small(c) => next_big' = 0 \/ next_big' = next_big + 1
    <3>1. \A n \in Nat, m \in Nat \ {0} : n < m => (n + 1) % m = 0 \/ (n + 1) % m = n + 1
      <4> SUFFICES ASSUME NEW n \in Nat, NEW m \in Nat \ {0}, n < m
                   PROVE (n + 1) % m = 0 \/ (n + 1) % m = n + 1
        OBVIOUS
      <4>1. CASE n + 1 = m
        BY <4>1
      <4>2. CASE n + 1 < m
        BY <4>2
      <4> QED BY <4>1, <4>2
    <3> QED BY <1>1, <1>3, <3>1
  <2>7. TableInv'
    <3>1. \A i \in DOMAIN info' : i \in Nat /\ InfoShape(info'[i]) /\ info'[i].sites \in Trace
      BY <2>2, <2>3, <2>4 DEF TableInv
    <3>2. index' \subseteq DOMAIN info'
      BY <2>4, <2>5 DEF TableInv, Lookup
    <3>3. \A i \in DOMAIN info' :
            /\ i < BigRange => next_small' = 0 \/ i < next_small'
            /\ i >= BigRange => next_big' = 0 \/ i < BigRange + next_big'
      BY <1>1, <1>3, <1>4, <1>8, <1>11, <2>2, <2>4, <2>6 DEF TableInv
    <3>4. \A n \in DOMAIN dictionary' : dictionary'[n] \in DOMAIN info'
      BY <1>2, <2>4 DEF TableInv
    <3> QED BY <1>4, <2>4, <3>1, <3>2, <3>3, <3>4 DEF TableInv
  <2>8. KeysDiffer'
    <3>1. \A i, j \in index : i # j => i \in DOMAIN info /\ j \in DOMAIN info
            /\ ~Equal(i, info[j].sites, info[j].type)
      BY DEF TableInv, KeysDiffer
    <3>2. CASE Candidates(c.sites, type) = {}
      <4>1. Lookup(s, type) = {}
        BY <1>6, <1>12, <3>2, NothingFound
      <4>2. index' = index \cup {id}
        BY <2>5, <4>1
      <4> QED BY <2>2, <2>4, <3>1, <4>1, <4>2 DEF TableInv, KeysDiffer, Equal, Lookup
    <3>3. CASE c.relax
      <4>1. c.klass \in Klasses /\ c.klass # NULL
        BY <1>6, <3>3, SitesAssumption DEF CallOK
      <4>2. type # UNKNOWN
        BY <1>6, <1>12, <4>1 DEF Known, TypeOf
      <4>3. \A i, j \in Lookup(s, type) : i = j
        BY <3>1, <4>2 DEF Lookup, Equal
      <4>4. \A i \in index' \ {id} : i \in index /\ i \notin Lookup(s, type)
        BY <2>5, <4>3, ZenonT(60)
      <4> QED BY <2>2, <2>4, <3>1, <4>4 DEF TableInv, KeysDiffer, Equal, Lookup
    <3> QED BY <1>14, <3>2, <3>3
  <2>9. RecordInv'
    BY <1>2, <2>4 DEF RecordInv
  <2>10. /\ call' = [u \in Threads |-> call'[u]]
         /\ \A u \in Threads : u # t => call'[u] = call[u]
         /\ call'[t] = [call[t] EXCEPT !.id = id, !.at = After(type)]
    BY <2>1, Zenon DEF CallInv
  <2>11. CallOK(t, call[t])'
    <3>1. /\ Shape(call'[t]) /\ call'[t].id = id /\ call'[t].at = After(type)
          /\ \A f \in {"op", "klass", "relax", "for", "trace", "sites"} :
               call'[t][f] = call[t][f]
      BY <1>6, <2>10, ZenonT(60) DEF CallOK, Shape
    <3>2. id \notin DOMAIN sites'
      BY <1>2, <2>2 DEF RecordInv
    <3> QED BY <1>2, <1>6, <2>4, <3>1, <3>2 DEF CallOK, Inside, Identified, After
  <2>12. CallInv'
    BY <1>2, <1>6, <2>4, <2>10, <2>11, OthersKept DEF CallInv
  <2> QED BY <1>5, <2>7, <2>8, <2>9, <2>12 DEF IInv
<1> QED BY <1>7, <1>8

(* Only thread t's call changes, to what is d. *)
Moves(t, d) ==
  /\ call' = [u \in Threads |-> call'[u]] /\ call'[t] = d
  /\ \A u \in Threads : u # t => call'[u] = call[u]

(* The table, the site records and the program are left alone. *)
Quiet ==
  UNCHANGED <<info, index, next_small, next_big, dictionary, sites, fatal, program>>

(* A new identifier of a class is a number that is not UNKNOWN. *)
LEMMA IdentifiersKept ==
  ASSUME type_id \in [Klasses -> Nat], next_type \in Nat \ {0}, NEW k, SetIdentifier(k)
  PROVE  /\ type_id' \in [Klasses -> Nat] /\ next_type' \in Nat \ {0}
         /\ \A l \in Klasses : type_id[l] # UNKNOWN => type_id'[l] # UNKNOWN
<1>1. type_id' = [type_id EXCEPT ![k] = next_type] /\ next_type' = next_type + 1
  BY DEF SetIdentifier
<1>2. next_type \in Nat /\ next_type' \in Nat \ {0}
  BY <1>1
<1>3. type_id' = [l \in Klasses |-> IF l = k THEN next_type ELSE type_id[l]]
  BY <1>1, ZenonT(60)
<1>4. \A l \in Klasses : type_id'[l] = (IF l = k THEN next_type ELSE type_id[l])
  BY <1>3
<1>5. type_id' \in [Klasses -> Nat]
  BY <1>2, <1>3
<1> QED BY <1>2, <1>4, <1>5 DEF UNKNOWN

(* A step of thread t that leaves the table alone. *)
LEMMA QuietStep ==
  ASSUME IInv, NEW t \in Threads, Moves(t, call'[t]), Quiet,
         UNCHANGED <<type_id, next_type>> \/ \E k : SetIdentifier(k),
         sites_lock' = sites_lock \/ {sites_lock, sites_lock'} \subseteq {NULL, t},
         CallOK(t, call[t])',
         \A d \in code' : d.id \in DOMAIN info /\ d.trace \in CallSites
  PROVE  IInv'
<1> TableInv /\ KlassInv /\ KeysDiffer /\ CallInv /\ RecordInv
  BY DEF IInv
<1>1. TableInv' /\ KeysDiffer' /\ RecordInv'
  BY TableKept DEF Quiet
<1>2. KlassInv' /\ \A k \in Klasses : type_id[k] # UNKNOWN => type_id'[k] # UNKNOWN
  <2>1. /\ type_id \in [Klasses -> Nat] /\ next_type \in Nat \ {0}
        /\ program'.sites \subseteq CallSites
    BY DEF KlassInv, Quiet
  <2>2. CASE UNCHANGED <<type_id, next_type>>
    BY <2>1, <2>2 DEF KlassInv
  <2>3. ASSUME NEW k, SetIdentifier(k)
        PROVE  KlassInv' /\ \A l \in Klasses : type_id[l] # UNKNOWN => type_id'[l] # UNKNOWN
    BY <2>1, <2>3, IdentifiersKept DEF KlassInv
  <2> QED BY <2>2, <2>3
<1>3. CallInv'
  BY <1>2, OthersKept DEF Moves, Quiet
<1> QED BY <1>1, <1>2, <1>3 DEF IInv

(* The searches and the checks of a thread that has the lock. *)
LEMMA ResolveStep ==
  ASSUME IInv, ~fatal, NEW t \in Threads, Find(t) \/ Check(t)
  PROVE  IInv'
<1> TableInv /\ KlassInv /\ KeysDiffer /\ CallInv /\ RecordInv
  BY DEF IInv
<1>1. CallOK(t, call[t])
  BY DEF CallInv
<1>2. ASSUME Find(t) PROVE IInv'
  <2> DEFINE found == Candidates(call[t].sites, TypeOf(call[t].klass))
  <2>1. /\ call[t].at = "resolve" /\ call[t].op = "find" /\ Inside(call[t])
        /\ UNCHANGED <<klasses, dictionary, symbols, locks, code, heap>>
    BY <1>2 DEF Find, Inside
  <2>2. CASE \E id \in found : CheckSite(t, id)
    <3>1. PICK id \in found : CheckSite(t, id)
      BY <2>2
    <3>2. id \in DOMAIN info
      BY <3>1, CandidatesExist
    <3> QED BY <2>1, <3>1, <3>2, CheckSiteStep
  <2>3. CASE NewSite(t) /\ (found = {} \/ call[t].relax)
    BY <2>1, <2>3, NewSiteStep
  <2>4. (\E id \in found : CheckSite(t, id)) \/ (NewSite(t) /\ (found = {} \/ call[t].relax))
    BY <1>2 DEF Find, Accepted
  <2> QED BY <2>2, <2>3, <2>4
<1>3. ASSUME Check(t) PROVE IInv'
  <2>1. call[t].id \in DOMAIN info /\ Inside(call[t])
    BY <1>1, <1>3 DEF Check, CallOK, Identified, Inside
  <2> QED BY <1>3, <2>1, CheckSiteStep DEF Check
<1> QED BY <1>2, <1>3

(* The other steps of a request that have to do with the table's lock. *)
LEMMA LockStep ==
  ASSUME IInv, ~fatal, NEW t \in Threads, Lock(t) \/ Alternate(t) \/ Return(t) \/ Fire(t)
  PROVE  IInv'
<1> TableInv /\ KlassInv /\ KeysDiffer /\ CallInv /\ RecordInv
  BY DEF IInv
<1> DEFINE c == call[t]
<1>1. CallOK(t, c) /\ call = [u \in Threads |-> call[u]]
  BY DEF CallInv
<1>2. \A d \in code : d.id \in DOMAIN info /\ d.trace \in CallSites
  BY DEF CallInv
<1>3. Shape(Idle) /\ ~Inside(Idle) /\ ~Identified(Idle)
  BY DEF Shape, Idle, Inside, Identified
<1>4. ASSUME Lock(t) PROVE IInv'
  <2> DEFINE d == [c EXCEPT !.at = "type"]
  <2>1. Moves(t, d)
    BY <1>1, <1>4 DEF Lock, Goto, Moves
  <2>2. /\ sites_lock = NULL /\ sites_lock' = t /\ c.at = "lock"
        /\ Quiet /\ UNCHANGED <<type_id, next_type, code>>
    BY <1>4 DEF Lock, Quiet, klasses, table, symbols, heap
  <2>3. /\ Shape(call'[t]) /\ call'[t].at = "type"
        /\ \A f \in {"op", "klass", "relax", "for", "trace", "sites", "id"} :
             call'[t][f] = c[f]
    BY <1>1, <2>1 DEF CallOK, Shape, Moves
  <2>4. c.op # "get"
    BY <1>1, <2>2 DEF CallOK
  <2>5. CallOK(t, call[t])'
    BY <1>1, <2>2, <2>3, <2>4 DEF CallOK, Inside, Identified, Quiet
  <2> QED BY <1>2, <2>1, <2>2, <2>5, QuietStep DEF Moves
<1>5. ASSUME Alternate(t) PROVE IInv'
  <2> DEFINE at == IF NeedsCollection THEN "collect" ELSE "resolve"
             d == IF info[c.id].type = TypeOf(c.klass) THEN [c EXCEPT !.at = "return"]
                  ELSE [c EXCEPT !.op = "find", !.sites = info[c.id].sites, !.relax = TRUE,
                          !.at = at]
  <2>1. Moves(t, d)
    BY <1>1, <1>5, ZenonT(60) DEF Alternate, Moves
  <2>2. /\ c.at = "resolve" /\ c.op = "alternate"
        /\ Quiet /\ UNCHANGED <<type_id, next_type, code, sites_lock>>
    BY <1>5 DEF Alternate, Quiet, klasses, table, symbols, heap, locks
  <2>3. c.id \in DOMAIN info /\ info[c.id].sites \in Trace /\ sites_lock = t /\ Known(c)
    BY <1>1, <2>2 DEF CallOK, Identified, TableInv, Inside
  <2>4. CASE info[c.id].type = TypeOf(c.klass)
    <3>1. /\ Shape(call'[t]) /\ call'[t].at = "return"
          /\ \A f \in {"op", "klass", "relax", "for", "trace", "sites", "id"} :
               call'[t][f] = c[f]
      BY <1>1, <2>1, <2>4 DEF CallOK, Shape, Moves
    <3>2. CallOK(t, call[t])'
      BY <1>1, <2>2, <2>3, <3>1 DEF CallOK, Inside, Identified, Quiet
    <3> QED BY <1>2, <2>1, <2>2, <3>2, QuietStep DEF Moves
  <2>5. CASE info[c.id].type # TypeOf(c.klass)
    <3>1. /\ Shape(call'[t]) /\ call'[t].at = at /\ call'[t].op = "find"
          /\ call'[t].sites = info[c.id].sites
          /\ \A f \in {"klass", "for", "trace", "id"} : call'[t][f] = c[f]
      <4>1. ASSUME NEW r, NEW x, NEW y,
                   call'[t] = [c EXCEPT !.op = "find", !.sites = x, !.relax = r, !.at = y]
            PROVE  /\ Shape(call'[t]) /\ call'[t].at = y /\ call'[t].op = "find"
                   /\ call'[t].sites = x
                   /\ \A f \in {"klass", "for", "trace", "id"} : call'[t][f] = c[f]
        BY <1>1, <4>1, ZenonT(60) DEF CallOK, Shape
      <4>2. call'[t] = [c EXCEPT !.op = "find", !.sites = info[c.id].sites,
                                 !.relax = TRUE, !.at = at]
        BY <2>1, <2>5 DEF Moves
      <4> HIDE DEF c, at
      <4> QED BY <4>1, <4>2, Zenon
    <3>2. CallOK(t, call[t])'
      BY <1>1, <2>2, <2>3, <3>1 DEF CallOK, Inside, Identified, Known, Quiet
    <3> QED BY <1>2, <2>1, <2>2, <3>2, QuietStep DEF Moves
  <2> QED BY <2>4, <2>5
<1>6. ASSUME Return(t) PROVE IInv'
  <2>1. /\ c.at = "return" /\ sites_lock' = NULL
        /\ Quiet /\ UNCHANGED <<type_id, next_type>>
    BY <1>6 DEF Return, Quiet, klasses, table, symbols, heap
  <2>2. c.id \in DOMAIN info /\ sites_lock \in {NULL, t} /\ t # NULL
    BY <1>1, <2>1, SitesAssumption DEF CallOK, Identified, Inside, Threads
  <2>3. CASE c.for \in {"c1", "c2"} /\ call' = [call EXCEPT ![t] = Idle]
             /\ code' = code \cup
                  {[by |-> c.for, trace |-> c.trace, klass |-> c.klass, id |-> c.id]}
    <3>0. Moves(t, Idle)
      BY <1>1, <2>3 DEF Moves
    <3>1. CallOK(t, call[t])'
      BY <1>3, <2>1, <2>2, <3>0 DEF CallOK, Idle, Moves
    <3>2. \A d \in code' : d.id \in DOMAIN info /\ d.trace \in CallSites
      BY <1>1, <1>2, <2>2, <2>3 DEF CallOK
    <3> QED BY <2>1, <2>2, <3>0, <3>1, <3>2, QuietStep DEF Moves
  <2>4. CASE c.for = "fire" /\ Goto(t, "fire") /\ UNCHANGED code
    <3> DEFINE d == [c EXCEPT !.at = "fire"]
    <3>1. Moves(t, d)
      BY <1>1, <2>4 DEF Goto, Moves
    <3>2. /\ Shape(call'[t]) /\ call'[t].at = "fire"
          /\ \A f \in {"op", "klass", "relax", "for", "trace", "sites", "id"} :
               call'[t][f] = c[f]
      BY <1>1, <3>1 DEF CallOK, Shape, Moves
    <3>3. CallOK(t, call[t])'
      BY <1>1, <2>1, <2>2, <3>2 DEF CallOK, Inside, Identified, Quiet
    <3>4. Moves(t, call'[t]) /\ {sites_lock, sites_lock'} \subseteq {NULL, t}
      BY <2>1, <2>2, <3>1 DEF Moves
    <3>5. \A e \in code' : e.id \in DOMAIN info /\ e.trace \in CallSites
      BY <1>2, <2>4
    <3> HIDE DEF c, d
    <3> QED BY <2>1, <3>3, <3>4, <3>5, QuietStep
  <2>5. CASE /\ call' = [call EXCEPT ![t].op = "check", ![t].for = "fire", ![t].at = "lock"]
             /\ UNCHANGED code
    <3> DEFINE d == [c EXCEPT !.op = "check", !.for = "fire", !.at = "lock"]
    <3>1. Moves(t, d)
      BY <1>1, <2>5, Zenon DEF Moves
    <3>2. /\ Shape(call'[t]) /\ call'[t].at = "lock" /\ call'[t].op = "check"
          /\ call'[t].for = "fire"
          /\ \A f \in {"klass", "relax", "trace", "sites", "id"} : call'[t][f] = c[f]
      BY <1>1, <3>1, ZenonT(60) DEF CallOK, Shape, Moves
    <3>3. CallOK(t, call[t])'
      BY <1>1, <2>1, <2>2, <3>2 DEF CallOK, Inside, Identified, Quiet
    <3>4. Moves(t, call'[t]) /\ {sites_lock, sites_lock'} \subseteq {NULL, t}
      BY <2>1, <2>2, <3>1 DEF Moves
    <3>5. \A e \in code' : e.id \in DOMAIN info /\ e.trace \in CallSites
      BY <1>2, <2>5
    <3> HIDE DEF c, d
    <3> QED BY <2>1, <3>3, <3>4, <3>5, QuietStep
  <2> QED BY <1>6, <2>3, <2>4, <2>5 DEF Return
<1>7. ASSUME Fire(t) PROVE IInv'
  <2>1. /\ c.at = "fire" /\ call' = [call EXCEPT ![t] = Idle]
        /\ Quiet /\ UNCHANGED <<type_id, next_type, code, sites_lock>>
    BY <1>7 DEF Fire, Quiet, klasses, table, symbols, heap, locks
  <2>2. sites_lock # t /\ Moves(t, Idle)
    BY <1>1, <2>1 DEF CallOK, Inside, Moves
  <2>3. CallOK(t, call[t])'
    BY <1>3, <2>1, <2>2 DEF CallOK, Idle, Moves
  <2> QED BY <1>2, <2>1, <2>2, <2>3, QuietStep, Zenon DEF Moves
<1> QED BY <1>4, <1>5, <1>6, <1>7

(* The record that is written is a new one. *)
LEMMA WriteSiteStep ==
  ASSUME IInv, ~fatal, NEW t \in Threads, WriteSiteSymbol(t)
  PROVE  IInv' /\ \A i \in DOMAIN sites : i \in DOMAIN sites' /\ sites'[i] = sites[i]
<1> TableInv /\ KlassInv /\ KeysDiffer /\ CallInv /\ RecordInv
  BY DEF IInv
<1> DEFINE c == call[t]
<1>1. CallOK(t, c) /\ call = [u \in Threads |-> call[u]]
  BY DEF CallInv
<1>2. /\ c.at = "write"
      /\ UNCHANGED <<info, index, next_small, next_big, dictionary, fatal, program>>
      /\ UNCHANGED <<type_id, next_type, code, sites_lock>>
      /\ sites' = Put(sites, c.id, [names |-> Names(info[c.id].sites), type |-> info[c.id].type])
  BY DEF WriteSiteSymbol, klasses, table, heap, locks
<1>3. /\ sites_lock = t /\ c.id \in DOMAIN info \ DOMAIN sites
      /\ info[c.id].type # UNKNOWN /\ c.op # "get"
  BY <1>1, <1>2 DEF CallOK, Inside, Identified
<1>4. /\ sites' = [i \in DOMAIN sites' |-> sites'[i]]
      /\ DOMAIN sites' = DOMAIN sites \cup {c.id}
      /\ \A i \in DOMAIN sites : sites'[i] = sites[i]
  <2>1. PICK r : sites' = Put(sites, c.id, r)
    BY <1>2
  <2> QED BY <1>3, <2>1 DEF Put
<1>5. RecordInv' /\ KlassInv' /\ TableInv' /\ KeysDiffer'
  <2>1. RecordInv'
    BY <1>2, <1>3, <1>4, Zenon DEF RecordInv
  <2>2. KlassInv'
    BY <1>2, ZenonT(60) DEF KlassInv
  <2>3. TableInv'
    BY <1>2 DEF TableInv, InfoShape
  <2>4. KeysDiffer'
    BY <1>2, ZenonT(60) DEF KeysDiffer, Equal
  <2> QED BY <2>1, <2>2, <2>3, <2>4
<1>6. Moves(t, [c EXCEPT !.at = "return"])
  BY <1>1 DEF WriteSiteSymbol, Goto, Moves
<1>7. /\ Shape(call'[t]) /\ call'[t].at = "return"
      /\ \A f \in {"op", "klass", "relax", "for", "trace", "sites", "id"} : call'[t][f] = c[f]
  BY <1>1, <1>6 DEF CallOK, Shape, Moves
<1>8. CallOK(t, call[t])'
  BY <1>1, <1>2, <1>3, <1>7 DEF CallOK, Inside, Identified
<1>9. CallInv'
  BY <1>2, <1>3, <1>6, <1>8, OthersKept DEF Moves, CallInv
<1> QED BY <1>4, <1>5, <1>9 DEF IInv

(* A class has its identifier. *)
LEMMA TypedStep ==
  ASSUME IInv, NEW t \in Threads, Typed(t), Quiet, Known(call[t]),
         UNCHANGED <<type_id, next_type, code, sites_lock>>,
         call[t].at \in {"type", "types", "symbol"}
  PROVE  IInv'
<1> TableInv /\ KlassInv /\ KeysDiffer /\ CallInv /\ RecordInv
  BY DEF IInv
<1> DEFINE c == call[t]
<1>1. CallOK(t, c) /\ call = [u \in Threads |-> call[u]]
  BY DEF CallInv
<1>2. \A d \in code' : d.id \in DOMAIN info /\ d.trace \in CallSites
  BY DEF CallInv
<1>3. CASE c.op = "get"
  <2>1. Moves(t, Idle)
    BY <1>1, <1>3 DEF Typed, Moves
  <2>2. Shape(Idle) /\ ~Inside(Idle) /\ ~Identified(Idle)
    BY ZenonT(60) DEF Shape, Idle, Inside, Identified
  <2>3. sites_lock # t
    BY <1>1, <1>3 DEF CallOK, Inside
  <2>4. CallOK(t, call[t])'
    BY <2>1, <2>2, <2>3 DEF CallOK, Idle, Moves
  <2> QED BY <1>2, <2>1, <2>4, QuietStep DEF Moves
<1>4. CASE c.op # "get"
  <2>1. Moves(t, [c EXCEPT !.at = "resolve", !.stack = <<>>])
    BY <1>1, <1>4 DEF Typed, Moves
  <2>2. /\ Shape(call'[t]) /\ call'[t].at = "resolve"
        /\ \A f \in {"op", "klass", "relax", "for", "trace", "sites", "id"} :
             call'[t][f] = c[f]
    BY <1>1, <2>1, ZenonT(60) DEF CallOK, Shape, Moves
  <2>3. CallOK(t, call[t])'
    BY <1>1, <1>4, <2>2 DEF CallOK, Inside, Identified, Known, Quiet
  <2> QED BY <1>2, <2>1, <2>3, QuietStep DEF Moves
<1> QED BY <1>3, <1>4

(* The steps of AllocatedTypes and of its writer. *)
LEMMA TypeStep ==
  ASSUME IInv, ~fatal, NEW t \in Threads,
         ToAllocatedType(t) \/ AssignType(t) \/ WriteSuper(t) \/ WriteTypeSymbol(t)
  PROVE  IInv'
<1> TableInv /\ KlassInv /\ KeysDiffer /\ CallInv /\ RecordInv
  BY DEF IInv
<1> DEFINE c == call[t]
<1>1. CallOK(t, c) /\ call = [u \in Threads |-> call[u]] /\ KlassInv
  BY DEF CallInv
<1>2. Quiet /\ UNCHANGED <<code, sites_lock>>
  <2>1. CASE ToAllocatedType(t)
    BY <2>1 DEF ToAllocatedType, Quiet, klasses, table, symbols, heap, locks
  <2>2. CASE AssignType(t)
    BY <2>2 DEF AssignType, Quiet, klasses, table, symbols, heap, locks
  <2>3. CASE WriteSuper(t)
    BY <2>3 DEF WriteSuper, Quiet, klasses, table, symbols, heap, locks
  <2>4. CASE WriteTypeSymbol(t)
    BY <2>4 DEF WriteTypeSymbol, Quiet, klasses, table, symbols, heap, locks
  <2> QED BY <2>1, <2>2, <2>3, <2>4
<1>3. \A d \in code' : d.id \in DOMAIN info /\ d.trace \in CallSites
  BY <1>2 DEF CallInv
<1>4. CASE Typed(t) /\ UNCHANGED <<type_id, next_type>> /\ Known(c)
           /\ c.at \in {"type", "types", "symbol"}
  BY <1>2, <1>4, TypedStep
<1>5. ASSUME NEW a, NEW k, call' = [call EXCEPT ![t].at = a, ![t].stack = k],
             c.at \in {"type", "types", "symbol"}, a \in {"types", "symbol"},
             UNCHANGED <<type_id, next_type>> \/ \E l : SetIdentifier(l),
             a = "symbol" /\ c.klass \in Klasses => type_id'[c.klass] # UNKNOWN
      PROVE  IInv'
  <2>1. Moves(t, [c EXCEPT !.at = a, !.stack = k])
    BY <1>1, <1>5 DEF Moves
  <2>2. /\ Shape(call'[t]) /\ call'[t].at = a
        /\ \A f \in {"op", "klass", "relax", "for", "trace", "sites", "id"} :
             call'[t][f] = c[f]
    BY <1>1, <2>1, ZenonT(60) DEF CallOK, Shape, Moves
  <2>3. CallOK(t, call[t])'
    BY <1>1, <1>2, <1>5, <2>2, ZenonT(60) DEF CallOK, Inside, Identified, Known, Quiet
  <2> QED BY <1>2, <1>3, <1>5, <2>1, <2>3, QuietStep, Zenon DEF Moves
<1>6. call' = [call EXCEPT ![t].at = "types"] =>
        call' = [call EXCEPT ![t].at = "types", ![t].stack = c.stack]
  BY <1>1, Zenon DEF CallOK, Shape
<1>7. ASSUME NEW k, c.at = "symbol", call' = [call EXCEPT ![t].stack = k]
      PROVE  call' = [call EXCEPT ![t].at = "symbol", ![t].stack = k]
  BY <1>1, <1>7, ZenonT(60) DEF CallOK, Shape
<1>8. ASSUME ToAllocatedType(t) PROVE IInv'
  <2>1. c.at = "type" /\ UNCHANGED <<type_id, next_type>>
    BY <1>8 DEF ToAllocatedType, klasses
  <2>2. CASE TypeOf(c.klass) = UNKNOWN /\ c.klass # NULL
    BY <1>5, <1>6, <1>8, <2>1, <2>2 DEF ToAllocatedType, Goto
  <2>3. CASE ~(TypeOf(c.klass) = UNKNOWN /\ c.klass # NULL)
    <3>1. Known(c)
      BY <2>3, SitesAssumption DEF Known, TypeOf
    <3> QED BY <1>4, <1>8, <2>1, <2>3, <3>1 DEF ToAllocatedType
  <2> QED BY <2>2, <2>3
<1>9. ASSUME AssignType(t) PROVE IInv'
  BY <1>1, <1>4, <1>5, <1>9, Zenon DEF AssignType, SetIdentifier, KlassInv, Known, klasses, UNKNOWN
<1>10. ASSUME WriteSuper(t) PROVE IInv'
  BY <1>1, <1>5, <1>7, <1>10, Zenon DEF WriteSuper, SetIdentifier, KlassInv, Known, UNKNOWN, CallOK
<1>11. ASSUME WriteTypeSymbol(t) PROVE IInv'
  BY <1>1, <1>4, <1>5, <1>7, <1>11, ZenonT(60) DEF WriteTypeSymbol, klasses, Known, CallOK
<1> QED BY <1>8, <1>9, <1>10, <1>11

(* A call begins: a search, a check or an exchange waits for the lock, a    *)
(* class or an event does not need it.                                      *)
LEMMA StartStep ==
  ASSUME IInv, NEW t \in Threads, call[t].at = "idle", Moves(t, call'[t]), Quiet,
         UNCHANGED <<type_id, next_type, code, sites_lock>>,
         Shape(call'[t]), call'[t].klass \in Klasses \cup {NULL},
         call'[t].op = "find" => call'[t].sites \in Trace,
         call'[t].relax \/ call'[t].op = "alternate" => call'[t].klass \in Klasses,
         call'[t].for \in {"c1", "c2"} => call'[t].trace \in CallSites,
         \/ call'[t].at \in {"collect", "lock"} /\ call'[t].op # "get"
         \/ call'[t].at = "type" /\ call'[t].op = "get"
         \/ call'[t].at = "fire",
         Identified(call'[t]) => call'[t].id \in DOMAIN info
  PROVE  IInv'
<1> TableInv /\ KlassInv /\ KeysDiffer /\ CallInv /\ RecordInv
  BY DEF IInv
<1>1. CallOK(t, call[t])
  BY DEF CallInv
<1>2. sites_lock # t
  BY <1>1 DEF CallOK, Inside
<1>3. CallOK(t, call[t])'
  BY <1>2, ZenonT(60) DEF CallOK, Inside, Identified, Quiet
<1>4. \A d \in code' : d.id \in DOMAIN info /\ d.trace \in CallSites
  BY DEF CallInv
<1> QED BY <1>3, <1>4, QuietStep DEF Moves

LEMMA StartFacts ==
  ASSUME IInv, ~fatal, NEW t \in Threads, NEW c, Start(t, c)
  PROVE  /\ call[t].at = "idle" /\ Moves(t, c) /\ call'[t] = c /\ Quiet
         /\ UNCHANGED <<type_id, next_type, code, sites_lock>>
<1> TableInv /\ KlassInv /\ KeysDiffer /\ CallInv /\ RecordInv
  BY DEF IInv
<1>1. call = [u \in Threads |-> call[u]]
  BY DEF CallInv
<1> QED BY <1>1 DEF Start, Moves, Quiet, klasses, table, symbols, locks, heap

(* The fields of a new call. *)
LEMMA IdleCall == Shape(Idle) /\ ~Idle.relax /\ Idle.op = "none" /\ Idle.for = "none"
BY DEF Shape, Idle

LEMMA StartFindStep ==
  ASSUME IInv, ~fatal, NEW t \in Threads, NEW for, NEW s \in CallSites,
         NEW k \in Klasses \cup {NULL}, NEW relax, NEW deviant, relax => k \in Klasses,
         StartFind(t, for, s, k, relax, deviant)
  PROVE  IInv'
<1> DEFINE a == IF NeedsCollection THEN "collect" ELSE "lock"
<1>0. PICK c : c = [Idle EXCEPT !.op = "find", !.for = for, !.trace = s, !.sites = s,
                     !.klass = k, !.relax = relax, !.deviant = deviant, !.at = a]
  OBVIOUS
<1>1. Start(t, c)
  BY <1>0, Zenon DEF StartFind
<1>2. a \in {"collect", "lock"} /\ s \in Trace
  BY SitesAssumption DEF Trace
<1> HIDE DEF a
<1>3. /\ Shape(c) /\ c.at = a /\ c.op = "find" /\ c.klass = k /\ c.sites = s
      /\ c.relax = relax /\ c.trace = s
  BY <1>0, IdleCall, Zenon DEF Shape
<1>4. /\ call[t].at = "idle" /\ Moves(t, c) /\ call'[t] = c /\ Quiet
      /\ UNCHANGED <<type_id, next_type, code, sites_lock>>
  BY <1>1, StartFacts
<1>5. ~Identified(c)
  BY <1>2, <1>3 DEF Identified
<1> QED BY <1>2, <1>3, <1>4, <1>5, StartStep

LEMMA StartRunStep ==
  ASSUME IInv, ~fatal, NEW t \in Threads, NEW d \in code, NEW k \in Klasses, NEW c,
         Start(t, c), Shape(c), c.klass = k, c.id = d.id, ~c.relax,
         c.for \in {"fire", "slow", "none"},
         c.op \in {"check", "alternate", "none"}, c.at \in {"lock", "fire"}
  PROVE  IInv'
<1> TableInv /\ KlassInv /\ KeysDiffer /\ CallInv /\ RecordInv
  BY DEF IInv
<1>1. d.id \in DOMAIN info
  BY DEF CallInv
<1>2. /\ call[t].at = "idle" /\ Moves(t, c) /\ call'[t] = c /\ Quiet
      /\ UNCHANGED <<type_id, next_type, code, sites_lock>>
  BY StartFacts
<1> QED BY <1>1, <1>2, StartStep

LEMMA BeginStep ==
  ASSUME IInv, ~fatal, NEW t \in Threads,
         \/ Interpreter(t) \/ C2Unknown(t) \/ RunC1(t) \/ RunC2(t) \/ GetType(t)
         \/ CompileC1(t) \/ CompileC2(t)
  PROVE  IInv'
<1> TableInv /\ KlassInv /\ KeysDiffer /\ CallInv /\ RecordInv
  BY DEF IInv
<1>1. /\ program.sites \subseteq CallSites
      /\ \A s \in CallSites : Allocates[s] \subseteq Klasses
      /\ \A d \in code : d.trace \in CallSites
  BY SitesAssumption DEF KlassInv, CallInv
<1>2. ASSUME NEW s \in program.sites, NEW k \in Allocates[s] \cup {NULL}, NEW for, NEW relax,
             NEW deviant, relax => k \in Klasses, StartFind(t, for, s, k, relax, deviant)
      PROVE  IInv'
  BY <1>1, <1>2, StartFindStep
<1>3. CASE Interpreter(t) \/ C2Unknown(t) \/ CompileC1(t) \/ CompileC2(t)
  BY <1>1, <1>2, <1>3, ZenonT(60) DEF Interpreter, C2Unknown, CompileC1, CompileC2
<1>4. ASSUME NEW d \in code, NEW k \in Allocates[d.trace],
             Start(t, [Idle EXCEPT !.trace = d.trace, !.klass = k, !.id = d.id, !.at = "fire"])
      PROVE  IInv'
  <2>1. PICK c : c = [Idle EXCEPT !.trace = d.trace, !.klass = k, !.id = d.id, !.at = "fire"]
    OBVIOUS
  <2>2. /\ Shape(c) /\ c.at = "fire" /\ c.op = Idle.op /\ c.for = Idle.for /\ c.klass = k
        /\ c.id = d.id /\ c.relax = Idle.relax
    BY <2>1, IdleCall, Zenon DEF Shape
  <2>3. ~c.relax
    BY <2>2, IdleCall
  <2>4. Start(t, c) /\ k \in Klasses
    BY <1>1, <1>4, <2>1
  <2> QED BY <2>2, <2>3, <2>4, IdleCall, StartRunStep
<1>5. ASSUME NEW d \in code, NEW k \in Allocates[d.trace],
             Start(t, [Idle EXCEPT !.trace = d.trace, !.klass = k, !.id = d.id, !.at = "fire",
                                   !.deviant = TRUE])
      PROVE  IInv'
  <2>1. PICK c : c = [Idle EXCEPT !.trace = d.trace, !.klass = k, !.id = d.id, !.at = "fire",
                                  !.deviant = TRUE]
    OBVIOUS
  <2>2. /\ Shape(c) /\ c.at = "fire" /\ c.op = Idle.op /\ c.for = Idle.for /\ c.klass = k
        /\ c.id = d.id /\ c.relax = Idle.relax
    BY <2>1, IdleCall, ZenonT(60) DEF Shape
  <2>3. ~c.relax
    BY <2>2, IdleCall
  <2>4. Start(t, c) /\ k \in Klasses
    BY <1>1, <1>5, <2>1
  <2> QED BY <2>2, <2>3, <2>4, IdleCall, StartRunStep
<1>6. CASE RunC1(t)
  <2>1. PICK d \in code : \E k \in Allocates[d.trace] :
          \/ Start(t, [Idle EXCEPT !.op = "check", !.for = "fire", !.trace = d.trace,
                         !.klass = k, !.id = d.id, !.at = "lock"])
          \/ Start(t, [Idle EXCEPT !.trace = d.trace, !.klass = k, !.id = d.id, !.at = "fire"])
    BY <1>6, Zenon DEF RunC1
  <2>2. PICK k \in Allocates[d.trace] :
          \/ Start(t, [Idle EXCEPT !.op = "check", !.for = "fire", !.trace = d.trace,
                         !.klass = k, !.id = d.id, !.at = "lock"])
          \/ Start(t, [Idle EXCEPT !.trace = d.trace, !.klass = k, !.id = d.id, !.at = "fire"])
    BY <2>1, Zenon
  <2>3. CASE Start(t, [Idle EXCEPT !.op = "check", !.for = "fire", !.trace = d.trace,
                         !.klass = k, !.id = d.id, !.at = "lock"])
    <3>1. PICK c : c = [Idle EXCEPT !.op = "check", !.for = "fire", !.trace = d.trace,
                          !.klass = k, !.id = d.id, !.at = "lock"]
      OBVIOUS
    <3>2. /\ Shape(c) /\ c.at = "lock" /\ c.op = "check" /\ c.for = "fire" /\ c.klass = k
          /\ c.id = d.id /\ c.relax = Idle.relax
      BY <3>1, IdleCall, Zenon DEF Shape
    <3>3. ~c.relax
      BY <3>2, IdleCall
    <3>4. Start(t, c) /\ k \in Klasses
      BY <1>1, <2>3, <3>1
    <3> QED BY <3>2, <3>3, <3>4, StartRunStep
  <2>4. CASE Start(t, [Idle EXCEPT !.trace = d.trace, !.klass = k, !.id = d.id, !.at = "fire"])
    BY <1>4, <2>4, Zenon
  <2> QED BY <2>2, <2>3, <2>4
<1>7. CASE RunC2(t)
  <2>1. PICK d \in code : \E k \in Allocates[d.trace] : \E for \in {"fire", "slow"} :
          \/ Start(t, [Idle EXCEPT !.op = "alternate", !.for = for, !.trace = d.trace,
                         !.klass = k, !.id = d.id, !.at = "lock"])
          \/ Start(t, [Idle EXCEPT !.trace = d.trace, !.klass = k, !.id = d.id, !.at = "fire"])
          \/ Start(t, [Idle EXCEPT !.trace = d.trace, !.klass = k, !.id = d.id, !.at = "fire",
                         !.deviant = TRUE])
    BY <1>7, Zenon DEF RunC2
  <2>2. PICK k \in Allocates[d.trace], for \in {"fire", "slow"} :
          \/ Start(t, [Idle EXCEPT !.op = "alternate", !.for = for, !.trace = d.trace,
                         !.klass = k, !.id = d.id, !.at = "lock"])
          \/ Start(t, [Idle EXCEPT !.trace = d.trace, !.klass = k, !.id = d.id, !.at = "fire"])
          \/ Start(t, [Idle EXCEPT !.trace = d.trace, !.klass = k, !.id = d.id, !.at = "fire",
                         !.deviant = TRUE])
    BY <2>1, Zenon
  <2>3. CASE Start(t, [Idle EXCEPT !.op = "alternate", !.for = for, !.trace = d.trace,
                         !.klass = k, !.id = d.id, !.at = "lock"])
    <3>1. PICK c : c = [Idle EXCEPT !.op = "alternate", !.for = for, !.trace = d.trace,
                          !.klass = k, !.id = d.id, !.at = "lock"]
      OBVIOUS
    <3>2. /\ Shape(c) /\ c.at = "lock" /\ c.op = "alternate" /\ c.for = for /\ c.klass = k
          /\ c.id = d.id /\ c.relax = Idle.relax
      BY <3>1, IdleCall, ZenonT(60) DEF Shape
    <3>3. ~c.relax
      BY <3>2, IdleCall
    <3>4. Start(t, c) /\ k \in Klasses
      BY <1>1, <2>3, <3>1
    <3> QED BY <3>2, <3>3, <3>4, StartRunStep
  <2>4. CASE Start(t, [Idle EXCEPT !.trace = d.trace, !.klass = k, !.id = d.id, !.at = "fire"])
    BY <1>4, <2>4, Zenon
  <2>5. CASE Start(t, [Idle EXCEPT !.trace = d.trace, !.klass = k, !.id = d.id, !.at = "fire",
                                   !.deviant = TRUE])
    BY <1>5, <2>5, Zenon
  <2> QED BY <2>2, <2>3, <2>4, <2>5
<1>8. CASE GetType(t)
  <2>1. PICK k \in Klasses : Start(t, [Idle EXCEPT !.op = "get", !.klass = k, !.at = "type"])
    BY <1>8, Zenon DEF GetType
  <2>5. PICK c : c = [Idle EXCEPT !.op = "get", !.klass = k, !.at = "type"]
    OBVIOUS
  <2>2. /\ Shape(c) /\ c.at = "type" /\ c.op = "get" /\ c.for = Idle.for /\ c.klass = k
        /\ c.relax = Idle.relax
    BY <2>5, IdleCall, ZenonT(60) DEF Shape
  <2>3. /\ call[t].at = "idle" /\ Moves(t, c) /\ call'[t] = c /\ Quiet
        /\ UNCHANGED <<type_id, next_type, code, sites_lock>>
    BY <2>1, <2>5, StartFacts
  <2>4. ~Identified(c)
    BY <2>2 DEF Identified
  <2> QED BY <2>2, <2>3, <2>4, IdleCall, StartStep
<1> QED BY <1>3, <1>6, <1>7, <1>8

-----------------------------------------------------------------------------
LEMMA RunOutStep ==
  ASSUME IInv, NEW t \in Threads, TypesRunOut(t)
  PROVE  IInv'
<1> TableInv /\ KlassInv /\ KeysDiffer /\ CallInv /\ RecordInv
  BY DEF IInv
<1>1. /\ UNCHANGED <<type_id, next_type, info, index, next_small, next_big, dictionary>>
      /\ UNCHANGED <<sites, sites_lock, call, code, program>> /\ fatal'
  BY DEF TypesRunOut, klasses, table, symbols, locks, heap
<1>2. TableInv' /\ KlassInv'
  BY <1>1 DEF TableInv, InfoShape, KlassInv
<1>3. KeysDiffer' /\ RecordInv'
  BY <1>1 DEF KeysDiffer, Equal, RecordInv
<1>4. CallInv'
  BY <1>1 DEF CallInv, CallOK, Known
<1> QED BY <1>2, <1>3, <1>4 DEF IInv

LEMMA DieStep ==
  ASSUME IInv, Die
  PROVE  IInv'
<1> TableInv /\ KlassInv /\ KeysDiffer /\ CallInv /\ RecordInv
  BY DEF IInv
<1>1. /\ UNCHANGED <<type_id, next_type, info, index, next_small, next_big, dictionary>>
      /\ UNCHANGED <<sites, sites_lock, call, code, program, fatal>>
  BY DEF Die, klasses, table, symbols, locks
<1>2. TableInv' /\ KlassInv'
  BY <1>1 DEF TableInv, InfoShape, KlassInv
<1>3. KeysDiffer' /\ RecordInv'
  BY <1>1 DEF KeysDiffer, Equal, RecordInv
<1>4. CallInv'
  BY <1>1 DEF CallInv, CallOK, Known
<1> QED BY <1>2, <1>3, <1>4 DEF IInv

LEMMA CollectStep ==
  ASSUME IInv, Collect
  PROVE  IInv'
<1> TableInv /\ KlassInv /\ KeysDiffer /\ CallInv /\ RecordInv
  BY DEF IInv
<1>1. /\ UNCHANGED <<type_id, next_type, info, index, next_small, next_big>>
      /\ UNCHANGED <<sites, sites_lock, program, fatal>>
      /\ code' \subseteq code
  BY DEF Collect, klasses, symbols, locks
<1>2. \A n \in DOMAIN dictionary' : dictionary'[n] \in DOMAIN info
  <2>1. \A n \in DOMAIN dictionary : dictionary[n] \in DOMAIN info
    BY DEF TableInv
  <2>2. ASSUME SaveUnloaded PROVE \A n \in DOMAIN dictionary' : dictionary'[n] \in DOMAIN info
    <3>1. CASE ~ReuseUnloadedAllocationSites
      BY <2>1, <2>2, <3>1 DEF SaveUnloaded
    <3>2. CASE ReuseUnloadedAllocationSites
      <4>1. PICK last \in [{Names(info[i].sites) : i \in Saved} -> Saved] :
              dictionary' = [n \in DOMAIN last \cup DOMAIN dictionary |->
                              IF n \in DOMAIN last THEN last[n] ELSE dictionary[n]]
        BY <2>2, <3>2, Zenon DEF SaveUnloaded
      <4>2. \A n \in DOMAIN last : last[n] \in DOMAIN info
        BY DEF Saved
      <4> QED BY <2>1, <4>1, <4>2
    <3> QED BY <3>1, <3>2
  <2> QED BY <2>1, <2>2 DEF Collect
<1>3. TableInv' /\ KlassInv'
  BY <1>1, <1>2 DEF TableInv, InfoShape, KlassInv
<1>4. KeysDiffer' /\ RecordInv'
  BY <1>1 DEF KeysDiffer, Equal, RecordInv
<1>5. ASSUME NEW t \in Threads
      PROVE  CallOK(t, call[t])'
  <2>1. CallOK(t, call[t])
    BY DEF CallInv
  <2>2. CASE call[t].at # "collect"
    <3>1. call'[t] = call[t]
      BY <2>2 DEF Collect
    <3> QED BY <1>1, <2>1, <3>1 DEF CallOK, Known
  <2>3. CASE call[t].at = "collect"
    <3>1. call'[t] = [call[t] EXCEPT !.at = IF sites_lock = t THEN "resolve" ELSE "lock"]
      BY <2>3 DEF Collect
    <3>2. /\ Shape(call'[t]) /\ call'[t].at = IF sites_lock = t THEN "resolve" ELSE "lock"
          /\ \A f \in {"op", "klass", "relax", "for", "trace", "sites", "id"} :
               call'[t][f] = call[t][f]
      BY <2>1, <3>1 DEF CallOK, Shape
    <3> QED BY <1>1, <2>1, <2>3, <3>2 DEF CallOK, Inside, Identified, Known
  <2> QED BY <2>2, <2>3
<1>6. CallInv'
  <2>1. call' = [t \in Threads |-> call'[t]]
    BY DEF Collect
  <2>2. \A c \in code' : c.id \in DOMAIN info' /\ c.trace \in CallSites
    BY <1>1 DEF CallInv
  <2> QED BY <1>5, <2>1, <2>2 DEF CallInv
<1> QED BY <1>3, <1>4, <1>6 DEF IInv

LEMMA InitStep == Init => IInv
<1> SUFFICES ASSUME Init PROVE IInv
  OBVIOUS
<1>1. TableInv
  BY SitesAssumption DEF Init, TableInv, FIRST
<1>2. KlassInv
  BY SitesAssumption DEF Init, KlassInv, FirstType, UNKNOWN
<1>3. KeysDiffer /\ RecordInv
  BY DEF Init, KeysDiffer, RecordInv
<1>4. ASSUME NEW t \in Threads PROVE CallOK(t, call[t])
  <2>1. call[t] = Idle /\ sites_lock # t
    BY SitesAssumption DEF Init
  <2>2. Idle.at = "idle" /\ Idle.klass = NULL
    BY DEF Idle
  <2> QED BY <2>1, <2>2, IdleCall DEF CallOK, Inside, Identified
<1>5. CallInv
  BY <1>4 DEF Init, CallInv
<1> QED BY <1>1, <1>2, <1>3, <1>5 DEF IInv

-----------------------------------------------------------------------------
(* Every step keeps the invariant and the records. *)
LEMMA Invariance ==
  ASSUME IInv, [Next]_vars
  PROVE  IInv' /\ \A i \in DOMAIN sites : i \in DOMAIN sites' /\ sites'[i] = sites[i]
<1> TableInv /\ KlassInv /\ KeysDiffer /\ CallInv /\ RecordInv
  BY DEF IInv
<1>1. CASE UNCHANGED vars
  <2>1. /\ UNCHANGED <<type_id, next_type, info, index, next_small, next_big, dictionary>>
        /\ UNCHANGED <<sites, sites_lock, call, code, program, fatal>>
    BY <1>1 DEF vars, klasses, table, symbols, locks, heap
  <2>2. TableInv' /\ KlassInv'
    BY <2>1 DEF TableInv, InfoShape, KlassInv
  <2>3. KeysDiffer' /\ RecordInv'
    BY <2>1 DEF KeysDiffer, Equal, RecordInv
  <2>4. CallInv'
    BY <2>1 DEF CallInv, CallOK, Known
  <2> QED BY <2>1, <2>2, <2>3, <2>4 DEF IInv
<1>2. CASE Next
  <2>0. ~fatal
    BY <1>2 DEF Next
  <2>1. ASSUME NEW t \in Threads, WriteSiteSymbol(t)
        PROVE  IInv' /\ \A i \in DOMAIN sites : i \in DOMAIN sites' /\ sites'[i] = sites[i]
    BY <2>0, <2>1, WriteSiteStep
  <2>2. ASSUME NEW t \in Threads,
               ToAllocatedType(t) \/ AssignType(t) \/ WriteSuper(t) \/ WriteTypeSymbol(t)
        PROVE  IInv' /\ UNCHANGED sites
    BY <2>0, <2>2, TypeStep, Zenon
      DEF ToAllocatedType, AssignType, WriteSuper, WriteTypeSymbol, symbols
  <2>3. ASSUME NEW t \in Threads, Find(t) \/ Check(t)
        PROVE  IInv' /\ UNCHANGED sites
    BY <2>0, <2>3, ResolveStep DEF Find, Check, symbols
  <2>4. ASSUME NEW t \in Threads, Lock(t) \/ Alternate(t) \/ Return(t) \/ Fire(t)
        PROVE  IInv' /\ UNCHANGED sites
    BY <2>0, <2>4, LockStep, Zenon DEF Lock, Alternate, Return, Fire, symbols
  <2>5. ASSUME NEW t \in Threads,
               \/ Interpreter(t) \/ C2Unknown(t) \/ RunC1(t) \/ RunC2(t) \/ GetType(t)
               \/ CompileC1(t) \/ CompileC2(t)
        PROVE  IInv' /\ UNCHANGED sites
    <3>1. IInv'
      BY <2>0, <2>5, BeginStep
    <3>2. ASSUME NEW c, Start(t, c) PROVE UNCHANGED sites
      BY <3>2 DEF Start, symbols
    <3>3. UNCHANGED sites
      BY <2>5, <3>2, Zenon
        DEF Interpreter, C2Unknown, RunC1, RunC2, GetType, CompileC1, CompileC2, StartFind
    <3> QED BY <3>1, <3>3
  <2>6. ASSUME Die \/ Collect PROVE IInv' /\ UNCHANGED sites
    BY <2>6, DieStep, CollectStep, Zenon DEF Die, Collect, symbols
  <2>7. ASSUME NEW t \in Threads, TypesRunOut(t) PROVE IInv' /\ UNCHANGED sites
    BY <2>7, RunOutStep DEF TypesRunOut, symbols
  <2>8. JavaThreads \subseteq Threads /\ CompilerThreads \subseteq Threads
    BY DEF Threads
  <2> QED BY <1>2, <2>1, <2>2, <2>3, <2>4, <2>5, <2>6, <2>7, <2>8 DEF Next, Steps
<1> QED BY <1>1, <1>2

(* The table of AllocationSites.cpp never has two equal keys, for any       *)
(* threads, classes, stack traces, ranges and options.                      *)
THEOREM KeysStayDifferent == Spec => []KeysDiffer
<1>1. IInv /\ [Next]_vars => IInv'
  BY Invariance
<1>2. IInv => KeysDiffer
  BY DEF IInv
<1> QED BY <1>1, <1>2, InitStep, PTL DEF Spec

(* The record of a site in the symbols file is never replaced by another,   *)
(* whichever threads find, check, exchange, reuse or number sites.          *)
THEOREM RecordsNeverChange == Spec => RecordsStable
<1>1. IInv /\ [Next]_vars => IInv'
  BY Invariance
<1>2. IInv /\ [Next]_vars =>
        [\A id \in DOMAIN sites : id \in DOMAIN sites' /\ sites'[id] = sites[id]]_vars
  BY Invariance
<1> QED BY <1>1, <1>2, InitStep, PTL DEF Spec, RecordsStable

=============================================================================
