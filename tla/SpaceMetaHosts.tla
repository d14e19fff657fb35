--------------------------- MODULE SpaceMetaHosts ---------------------------
(***************************************************************************)
(* SpaceMeta: the partitions on the servers, which creations put there and *)
(* remove again when they fail, and which an enabled space has.            *)
(***************************************************************************)
EXTENDS SpaceMetaProofs

Of(i) == {p \in DOMAIN home : home[p] = i}

\* a partition is registered and on its servers
At(p, S) == p \in partKey /\ S # {} /\ \A s \in S : p \in ps[s]

-----------------------------------------------------------------------------
(* What creations put on the servers.                                      *)

\* the servers have partitions of the space only where a creation puts them; the
\* ones it creates are on their servers, or still to be created, or an error was
\* met, and the ones it removes are still to be removed
Builds(c) ==
    /\ ~space[op[c].sid].enabled
    /\ op[c].sp.parts = op[c].new /\ DOMAIN op[c].new = Of(op[c].sid)
    /\ \A p \in DOMAIN op[c].new : op[c].new[p] # {}
    /\ \A s \in Servers : \A p \in ps[s] : home[p] = op[c].sid => s \in op[c].new[p]
    /\ op[c].pc = "build" /\ ~op[c].bad =>
          \A p \in DOMAIN op[c].new : \A s \in op[c].new[p] :
              p \in ps[s] \/ <<p, s>> \in op[c].todo
    /\ op[c].pc = "undo" =>
          /\ op[c].todo \subseteq Sweep(op[c].new)
          /\ \A s \in Servers : \A p \in ps[s] : home[p] = op[c].sid => <<p, s>> \in op[c].todo
    /\ op[c].pc = "write" => \A p \in DOMAIN op[c].new : At(p, op[c].new[p])

\* creations only, without CleanTask: each space has its partitions to itself
BuildInv ==
    /\ \A i \in SpaceId : Exists(i) => DOMAIN space[i].parts = Of(i)
    /\ \A i \in SpaceId : Exists(i) /\ space[i].enabled =>
          \A p \in DOMAIN space[i].parts : At(p, space[i].parts[p])
    /\ \A s \in Servers : \A p \in ps[s] : Exists(home[p])
    /\ \A c \in Clients : InSection(c) => Builds(c)

\* What is registered or created besides does not matter.
LEMMA BuildStays ==
    ASSUME BuildInv, UNCHANGED <<space, home, ps>>, partKey \subseteq partKey',
           \A d \in Clients : InSection(d)' => (op'[d] = op[d] \/ Builds(d)')
    PROVE  BuildInv'
<1>1. \A p, S : At(p, S) => At(p, S)'
  BY DEF At
<1>2. ASSUME NEW d \in Clients, InSection(d)' PROVE Builds(d)'
  BY <1>1, <1>2, SMTT(30) DEF BuildInv, Builds, InSection, Of, Sweep, Pairs
<1>3. \A i : (Exists(i)' <=> Exists(i)) /\ Of(i)' = Of(i)
  BY DEF Exists, Of
<1> QED
  BY <1>1, <1>2, <1>3, Zenon DEF BuildInv

\* The space that a creation puts has no partition yet.
LEMMA PutBuilds ==
    ASSUME Requests, Ids, Stored, BuildInv, NEW c \in Clients, CreatePut(c),
           \A d \in Clients \ {c} : ~InSection(d)
    PROVE  BuildInv'
<1> DEFINE P == NewPids(env.partitions)
           i == made + 1
<1>1. env.partitions \in Nat \ {0} /\ env.pids \in 0 .. MaxPids /\ made \in Nat
  BY SpaceMetaAssumption DEF Ids, Setting
<1>2. /\ P \cap DOMAIN home = {} /\ P \in SUBSET Pid /\ i \in SpaceId
      /\ \A p \in DOMAIN home : home[p] # i
  <2>1. P \subseteq 1 .. env.pids /\ i <= MaxSpaces
    BY DEF CreatePut
  <2>2. 1 .. env.pids \subseteq Pid /\ i \in SpaceId
    BY <1>1, <2>1, SpaceMetaAssumption DEF Pid, SpaceId
  <2>3. \A p \in DOMAIN home : home[p] # i
    BY <1>1, IdsAre
  <2> QED
    BY <1>1, <2>1, <2>2, <2>3, NewPidsNew
<1>3. /\ Others(c) /\ op'[c].pc = "build" /\ op'[c].sid = i
      /\ op'[c].new \in Placement(P) /\ op'[c].todo = Pairs(op'[c].new)
      /\ op'[c].sp.parts = op'[c].new
  BY PutShape
<1>4. /\ home' = [p \in DOMAIN home \cup P |-> IF p \in P THEN i ELSE home[p]]
      /\ UNCHANGED <<ps, partKey>>
  BY DEF CreatePut
<1> DEFINE bare == [p \in P |-> {}]
           sp == [name |-> op[c].name, enabled |-> FALSE, version |-> 1, parts |-> bare]
<1>5. space' = [space EXCEPT ![i] = sp]
  BY DEF CreatePut
<1>6. /\ space'[i].enabled = FALSE /\ DOMAIN space'[i].parts = P
      /\ \A j \in SpaceId : j # i => space'[j] = space[j]
  BY <1>2, <1>5 DEF Ids
<1> HIDE DEF P, i, bare, sp
<1>7. /\ \A p \in DOMAIN home : home'[p] = home[p] /\ home[p] # i
      /\ DOMAIN home' = DOMAIN home \cup P /\ \A p \in P : home'[p] = i
  BY <1>2, <1>4
<1>8. /\ {p \in DOMAIN home' : home'[p] = i} = P
      /\ \A j : j # i => {p \in DOMAIN home' : home'[p] = j} = Of(j)
  BY <1>7 DEF Of
<1>9. op'[c].new \in Parts /\ DOMAIN op'[c].new = P /\ \A p \in P : op'[c].new[p] # {}
  BY <1>2, <1>3, PlacementType
<1>10. \A j \in SpaceId : j # i => Exists(j)' = Exists(j)
  BY <1>6 DEF Exists
<1>11. \A j \in SpaceId : Exists(j)' => DOMAIN space'[j].parts = {p \in DOMAIN home' : home'[p] = j}
  BY <1>6, <1>8, <1>10 DEF BuildInv
<1>12. ASSUME NEW j \in SpaceId, Exists(j)', space'[j].enabled
       PROVE  \A p \in DOMAIN space'[j].parts : At(p, space[j].parts[p])'
  <2>1. j # i /\ space'[j] = space[j] /\ Exists(j)
    BY <1>6, <1>10, <1>12
  <2> QED
    BY <1>4, <1>12, <2>1 DEF BuildInv, At
<1>13. \A s \in Servers : \A p \in ps'[s] : p \in DOMAIN home /\ home'[p] = home[p] /\ home[p] # i
  BY <1>4, <1>7 DEF Stored
<1>14. \A s \in Servers : \A p \in ps'[s] : Exists(home[p])'
  <2> TAKE s \in Servers
  <2> TAKE p \in ps'[s]
  <2>1. Exists(home[p]) /\ home[p] \in SpaceId /\ home'[p] = home[p] /\ home[p] # i
    BY <1>4, <1>13, IdsAre, Zenon DEF BuildInv
  <2>2. space'[home[p]] = space[home[p]]
    BY <1>6, <2>1
  <2> QED
    BY <2>1, <2>2 DEF Exists
<1>15. Builds(c)'
  <2>1. DOMAIN op'[c].new = {p \in DOMAIN home' : home'[p] = op'[c].sid}
    BY <1>3, <1>8, <1>9, Zenon
  <2>2. \A p \in DOMAIN op'[c].new : \A s \in op'[c].new[p] : <<p, s>> \in op'[c].todo
    <3>1. op'[c].new \in [DOMAIN op'[c].new -> SUBSET Servers]
      BY <1>9, PartsType
    <3> QED
      BY <1>3, <3>1, Zenon DEF Pairs
  <2>3. \A s \in Servers : \A p \in ps'[s] : home'[p] # op'[c].sid
    BY <1>3, <1>13
  <2>4. ~space'[op'[c].sid].enabled
    BY <1>3, <1>6
  <2> QED
    BY <1>3, <1>9, <2>1, <2>2, <2>3, <2>4, Zenon DEF Builds, Of
<1>16. \A d \in Clients \ {c} : ~InSection(d)'
  BY <1>3 DEF Others, InSection
<1>17. \A d \in Clients : InSection(d)' => Builds(d)'
  BY <1>15, <1>16
<1> QED
  BY <1>11, <1>12, <1>14, <1>17, Zenon DEF BuildInv, Of

\* A partition is created, or an error is met.
LEMMA CreateBuilds ==
    ASSUME Requests, Ids, Stored, BuildInv, CreateInv, NEW c \in Clients, CreatePartition(c),
           \A d \in Clients \ {c} : ~InSection(d), op[c].kind = "create"
    PROVE  BuildInv'
<1>1. op[c] \in Request /\ op \in [Clients -> Request] /\ Fit(op[c])
  BY DEF Requests
<1>2. op[c].pc = "build" /\ InSection(c) /\ Builds(c) /\ Exists(op[c].sid)
  BY DEF CreatePartition, InSection, BuildInv, CreateInv
<1>3. UNCHANGED <<space, home, partKey>> /\ Keeps(c) /\ op'[c].pc = "build" /\ Others(c)
  BY <1>2, TodoShape DEF CreatePartition
<1>4. PICK t \in op[c].todo :
         \/ /\ ps' = [ps EXCEPT ![t[2]] = @ \cup {t[1]}]
            /\ op' = [op EXCEPT ![c].todo = op[c].todo \ {t}]
         \/ /\ op' = [op EXCEPT ![c].todo = {u \in op[c].todo : u[1] # t[1]}, ![c].bad = TRUE]
            /\ UNCHANGED ps \/ ps' = [ps EXCEPT ![t[2]] = @ \cup {t[1]}]
  BY <1>1 DEF CreatePartition
<1>5. /\ t \in Pairs(op[c].new) /\ t[1] \in DOMAIN home /\ t[1] \in DOMAIN op[c].new
      /\ t[2] \in Servers /\ t[2] \in op[c].new[t[1]] /\ t = <<t[1], t[2]>>
  BY <1>1, <1>2 DEF Fit, Pairs
<1>6. \/ /\ ps' = [ps EXCEPT ![t[2]] = @ \cup {t[1]}]
         /\ op'[c].todo = op[c].todo \ {t} /\ op'[c].bad = op[c].bad
      \/ op'[c].bad = TRUE /\ (UNCHANGED ps \/ ps' = [ps EXCEPT ![t[2]] = @ \cup {t[1]}])
  BY <1>1, <1>4 DEF Request
<1>7. /\ \A s \in Servers : ps[s] \subseteq ps'[s]
      /\ \A s \in Servers : \A p \in ps'[s] : p \in ps[s] \/ (p = t[1] /\ s = t[2])
      /\ op'[c].bad \/ (op'[c].todo = op[c].todo \ {t} /\ t[1] \in ps'[t[2]]
                        /\ op'[c].bad = op[c].bad)
  BY <1>5, <1>6 DEF Stored
<1>8. home[t[1]] = op[c].sid
  BY <1>2, <1>5 DEF Builds, Of
<1>9. \A i : Of(i)' = Of(i) /\ Exists(i)' = Exists(i)
  BY <1>3, Zenon DEF Of, Exists
<1>10. Builds(c)'
  <2>1. \A s \in Servers : \A p \in ps'[s] : home'[p] = op'[c].sid => s \in op'[c].new[p]
    BY <1>2, <1>3, <1>5, <1>7 DEF Builds, Keeps
  <2>2. ~op'[c].bad => \A p \in DOMAIN op'[c].new : \A s \in op'[c].new[p] :
              p \in ps'[s] \/ <<p, s>> \in op'[c].todo
    <3> SUFFICES ASSUME ~op'[c].bad, NEW p \in DOMAIN op[c].new, NEW s \in op[c].new[p],
                        <<p, s>> \notin op'[c].todo
                 PROVE  p \in ps'[s]
      BY <1>3, Zenon DEF Keeps
    <3>1. op[c].new \in Parts
      BY <1>1, Zenon DEF Request
    <3>2. s \in Servers
      BY <3>1, PartsType
    <3>3. p \in ps[s] \/ <<p, s>> = t
      BY <1>2, <1>7, Zenon DEF Builds
    <3> QED
      BY <1>5, <1>7, <3>2, <3>3
  <2>3. /\ ~space'[op'[c].sid].enabled /\ op'[c].sp.parts = op'[c].new
        /\ DOMAIN op'[c].new = Of(op[c].sid)' /\ \A p \in DOMAIN op'[c].new : op'[c].new[p] # {}
    BY <1>2, <1>3, Zenon DEF Builds, Keeps, Of
  <2> QED
    BY <1>3, <2>1, <2>2, <2>3, Zenon DEF Builds
<1>11. \A d \in Clients \ {c} : ~InSection(d)'
  BY <1>3 DEF Others, InSection
<1>12. \A s \in Servers : \A p \in ps'[s] : Exists(home[p])'
  BY <1>2, <1>3, <1>7, <1>8 DEF BuildInv, Exists
<1>13. ASSUME NEW i \in SpaceId, Exists(i)', space'[i].enabled
       PROVE  \A p \in DOMAIN space'[i].parts : At(p, space[i].parts[p])'
  <2>1. \A p \in DOMAIN space[i].parts : space[i].parts[p] \subseteq Servers
    <3>1. space[i].parts \in Parts
      BY <1>3, <1>9, <1>13, ExistsMade, SpaceRecordIs
    <3> QED
      BY <3>1, PartsType
  <2>2. \A p \in DOMAIN space[i].parts : At(p, space[i].parts[p])
    BY <1>3, <1>9, <1>13, Zenon DEF BuildInv
  <2> QED
    BY <1>3, <1>7, <2>1, <2>2 DEF At
<1> QED
  BY <1>3, <1>9, <1>10, <1>11, <1>12, <1>13, Zenon DEF BuildInv

\* The partitions of a creation that fails are removed, first from the servers
\* and then their keys.
LEMMA UndoBuilds ==
    ASSUME Requests, Ids, Stored, BuildInv, CreateInv, NEW c \in Clients,
           UndoPartition(c) \/ UndoKey(c), "rpc" \notin env.faults,
           \A d \in Clients \ {c} : ~InSection(d), op[c].kind = "create"
    PROVE  BuildInv'
<1>1. op[c] \in Request /\ op \in [Clients -> Request] /\ Fit(op[c])
  BY DEF Requests
<1>2. op[c].pc = "undo" /\ InSection(c) /\ Builds(c) /\ Exists(op[c].sid) /\ op[c].sid \in SpaceId
  BY <1>1, IdsAre, Zenon DEF UndoPartition, UndoKey, InSection, BuildInv, CreateInv, Fit, Bound
<1>3. UNCHANGED <<space, home>> /\ Keeps(c) /\ op'[c].pc = "undo" /\ Others(c)
  BY <1>2, TodoShape DEF UndoPartition, UndoKey
<1>4. op[c].new \in Parts /\ op[c].todo \subseteq Sweep(op[c].new)
  BY <1>1, <1>2, Zenon DEF Builds, Request
<1>5. PICK p \in DOMAIN op[c].new, s \in Servers \cup {"key"} :
          /\ op'[c].todo = op[c].todo \ {<<p, s>>}
          /\ \/ /\ s \in Servers /\ ps' = [ps EXCEPT ![s] = @ \ {p}] /\ UNCHANGED partKey
             \/ s = "key" /\ partKey' = partKey \ {p} /\ UNCHANGED ps
  <2>1. CASE UndoPartition(c)
    <3>1. PICK t \in NextReplicas(c) :
              ps' = [ps EXCEPT ![t[2]] = @ \ {t[1]}] /\ op' = [op EXCEPT ![c].todo = op[c].todo \ {t}]
      BY <1>1, <2>1, Zenon DEF UndoPartition, DeletePartition
    <3>2. t \in Sweep(op[c].new) /\ t[2] # "key" /\ t[1] \in DOMAIN op[c].new
      BY <1>4, <3>1, SweepType DEF NextReplicas
    <3>3. t[2] \in Servers /\ t = <<t[1], t[2]>>
      BY <3>2 DEF Sweep, Pairs
    <3>4. op'[c].todo = op[c].todo \ {t}
      BY <1>1, <3>1 DEF Request
    <3>5. UNCHANGED partKey
      BY <2>1 DEF UndoPartition
    <3> QED
      BY <3>1, <3>2, <3>3, <3>4, <3>5, Zenon
  <2>2. CASE UndoKey(c)
    <3>1. \A t \in op[c].todo : t[1] \in Nat /\ t[1] \in DOMAIN op[c].new
      BY <1>4, SweepType, PartsType DEF Pid
    <3>2. NextPart(c) \in DOMAIN op[c].new
      BY <2>2, <3>1, NextPartIn DEF UndoKey
    <3>3. /\ op' = [op EXCEPT ![c].todo = op[c].todo \ {<<NextPart(c), "key">>}]
          /\ partKey' = partKey \ {NextPart(c)} /\ UNCHANGED ps
      BY <1>1, <2>2 DEF UndoKey
    <3>4. op'[c].todo = op[c].todo \ {<<NextPart(c), "key">>}
      BY <1>1, <3>3 DEF Request
    <3> QED
      BY <3>2, <3>3, <3>4
  <2> QED
    BY <2>1, <2>2, Zenon
<1>6. /\ \A r \in Servers : \A q \in ps'[r] : q \in ps[r] /\ <<q, r>> # <<p, s>>
      /\ \A r \in Servers : \A q \in ps[r] : q # p => q \in ps'[r]
      /\ \A q \in partKey : q # p => q \in partKey'
  BY <1>5, SpaceMetaAssumption DEF Stored
<1>7. home[p] = op[c].sid /\ p \in DOMAIN home
  BY <1>2, Zenon DEF Builds, Of
<1>8. \A i : Of(i)' = Of(i) /\ Exists(i)' = Exists(i)
  BY <1>3, Zenon DEF Of, Exists
<1>9. Builds(c)'
  <2>1. \A r \in Servers : \A q \in ps'[r] : home'[q] = op'[c].sid =>
            r \in op'[c].new[q] /\ <<q, r>> \in op'[c].todo
    BY <1>2, <1>3, <1>5, <1>6, Zenon DEF Builds, Keeps
  <2>2. op'[c].todo \subseteq Sweep(op[c].new)'
    BY <1>3, <1>4, <1>5 DEF Keeps, Sweep, Pairs
  <2>3. /\ ~space'[op'[c].sid].enabled /\ op'[c].sp.parts = op'[c].new
        /\ DOMAIN op'[c].new = Of(op[c].sid)' /\ \A q \in DOMAIN op'[c].new : op'[c].new[q] # {}
    BY <1>2, <1>3, Zenon DEF Builds, Keeps, Of
  <2> QED
    BY <1>3, <2>1, <2>2, <2>3, Zenon DEF Builds
<1>10. \A d \in Clients \ {c} : ~InSection(d)'
  BY <1>3 DEF Others, InSection
<1>11. \A r \in Servers : \A q \in ps'[r] : Exists(home[q])'
  BY <1>3, <1>6, Zenon DEF BuildInv, Exists
<1>12. ASSUME NEW i \in SpaceId, Exists(i)', space'[i].enabled
       PROVE  \A q \in DOMAIN space'[i].parts : At(q, space[i].parts[q])'
  <2>1. \A q \in DOMAIN space[i].parts : space[i].parts[q] \subseteq Servers
    <3>1. space[i].parts \in Parts
      BY <1>3, <1>8, <1>12, ExistsMade, SpaceRecordIs, Zenon
    <3> QED
      BY <3>1, PartsType
  <2>2. \A q \in DOMAIN space[i].parts : At(q, space[i].parts[q])
    BY <1>3, <1>8, <1>12, Zenon DEF BuildInv
  <2>3. i # op[c].sid /\ p \notin DOMAIN space[i].parts
    BY <1>2, <1>3, <1>7, <1>8, <1>12, SMTT(30) DEF Builds, BuildInv, Of
  <2> QED
    BY <1>3, <1>6, <2>1, <2>2, <2>3 DEF At
<1> QED
  BY <1>3, <1>8, <1>9, <1>10, <1>11, <1>12, Zenon DEF BuildInv

\* A creation ends.
LEMMA EndBuilds ==
    ASSUME Requests, Ids, Stored, BuildInv, CreateInv, NEW c \in Clients,
           UndoSpace(c) \/ CreateEnable(c),
           \A d \in Clients \ {c} : ~InSection(d), op[c].kind = "create"
    PROVE  BuildInv'
<1>1. op[c] \in Request /\ op \in [Clients -> Request] /\ Fit(op[c])
  BY DEF Requests
<1>2. /\ InSection(c) /\ Builds(c) /\ Exists(op[c].sid) /\ op[c].sid \in SpaceId
      /\ op[c].sp \in SpaceRecord
  BY <1>1, IdsAre, Zenon DEF UndoSpace, CreateEnable, InSection, BuildInv, CreateInv, Fit, Bound
<1>3. \A d \in Clients : ~InSection(d)'
  BY PlainShape, Zenon DEF Others, InSection, Goes, Ends
<1>4. UNCHANGED <<home, ps, partKey>>
  BY DEF UndoSpace, CreateEnable
<1>5. \A i : Of(i)' = Of(i)
  BY <1>4 DEF Of
<1>6. \A i \in SpaceId : i # op[c].sid => space'[i] = space[i]
  BY DEF UndoSpace, CreateEnable, UpdateSpaceData, Ids
<1>7. CASE UndoSpace(c)
  <2>1. space'[op[c].sid] = NoSpace
    BY <1>2, <1>7, Zenon DEF UndoSpace, Ids
  <2>2. \A i \in SpaceId : Exists(i)' => i # op[c].sid /\ Exists(i) /\ space'[i] = space[i]
    BY <1>6, <2>1 DEF Exists, NoSpace
  <2>3. \A s \in Servers : \A p \in ps[s] : home[p] # op[c].sid /\ home[p] \in SpaceId
    BY <1>2, <1>7, IdsAre, Zenon DEF UndoSpace, Builds, Stored
  <2>4. \A s \in Servers : \A p \in ps'[s] : Exists(home[p])'
    BY <1>4, <1>6, <2>3, Zenon DEF BuildInv, Exists
  <2>5. ASSUME NEW i \in SpaceId, Exists(i)', space'[i].enabled
        PROVE  \A p \in DOMAIN space'[i].parts : At(p, space[i].parts[p])'
    BY <1>4, <2>2, <2>5 DEF BuildInv, At
  <2> QED
    BY <1>3, <1>5, <2>2, <2>4, <2>5, Zenon DEF BuildInv
<1>8. CASE CreateEnable(c)
  <2> DEFINE e == [op[c].sp EXCEPT !.enabled = TRUE]
             f == [e EXCEPT !.version = @ + 1]
  <2>1. e.parts = op[c].sp.parts /\ e \in SpaceRecord
    BY <1>2, SpaceRecordIs, Zenon
  <2>2. space' = [space EXCEPT ![op[c].sid] = f]
    BY <1>8 DEF CreateEnable, UpdateSpaceData
  <2> HIDE DEF e
  <2>3. f.parts = e.parts /\ f.version > 0
    BY <2>1, SpaceRecordIs
  <2> HIDE DEF f
  <2>4. space'[op[c].sid] = f /\ f.parts = op[c].new
    BY <1>2, <2>1, <2>2, <2>3, Zenon DEF Ids, Builds
  <2>5. \A i \in SpaceId : Exists(i)' = Exists(i)
    BY <1>2, <1>6, <2>3, <2>4 DEF Exists
  <2>6. \A p \in DOMAIN op[c].new : At(p, op[c].new[p])
    BY <1>2, <1>8 DEF Builds, CreateEnable
  <2>7. ASSUME NEW i \in SpaceId, Exists(i)', space'[i].enabled
        PROVE  \A p \in DOMAIN space'[i].parts : At(p, space[i].parts[p])'
    <3>1. CASE i = op[c].sid
      BY <1>4, <2>4, <2>6, <3>1 DEF At
    <3>2. CASE i # op[c].sid
      BY <1>4, <1>6, <2>5, <2>7, <3>2 DEF BuildInv, At
    <3> QED
      BY <3>1, <3>2
  <2>8. \A s \in Servers : \A p \in ps'[s] : Exists(home[p])'
    <3>1. \A s \in Servers : \A p \in ps[s] : home[p] \in SpaceId
      BY IdsAre DEF Stored
    <3> QED
      BY <1>4, <2>5, <3>1 DEF BuildInv, Exists
  <2>9. \A i \in SpaceId : Exists(i)' => DOMAIN space'[i].parts = Of(i)'
    BY <1>2, <1>5, <1>6, <2>4, <2>5, Zenon DEF BuildInv, Builds
  <2> QED
    BY <1>3, <2>7, <2>8, <2>9, Zenon DEF BuildInv
<1> QED
  BY <1>7, <1>8

\* Every step keeps what creations have built.
LEMMA BuildStep ==
    ASSUME Base, Only({"create"}, {"create"}), CreateInv, BuildInv, [Next]_vars
    PROVE  BuildInv'
<1>1. TInv /\ Requests /\ Ids /\ Creates /\ ~env.cleaning /\ Stored
  BY StoredIs DEF Base, TInv, Only, Creates
<1>2. ASSUME NEW c \in Clients, Begin(c) PROVE BuildInv'
  <2>1. UNCHANGED <<space, home, ps, partKey>> /\ Others(c) /\ ~InSection(c)'
    BY <1>1, <1>2, BeginKeeps, BeginShape, Zenon DEF InSection
  <2> QED
    BY <2>1, BuildStays DEF Others
<1>3. CASE System \/ UNCHANGED vars
  <2>1. UNCHANGED <<space, home, ps, op>> /\ partKey \subseteq partKey'
    BY <1>1, <1>3, NoCleaning DEF vars
  <2> QED
    BY <2>1, BuildStays
<1>4. ASSUME NEW c \in Clients, Step(c) PROVE BuildInv'
  <2>1. /\ op[c] \in Request /\ Fit(op[c]) /\ op[c].kind = "create"
        /\ op \in [Clients -> Request] /\ "rpc" \notin env.faults
    BY <1>1, <1>4, CreateSteps, Zenon DEF Requests
  <2>2. InSection(c) => /\ op[c].sid \in SpaceId /\ op[c].sp \in SpaceRecord /\ Exists(op[c].sid)
                        /\ Builds(c) /\ \A d \in Clients \ {c} : ~InSection(d)
    <3>1. InSection(c) => op[c].pc \in Creating
      BY Zenon DEF InSection, Creating
    <3> QED
      BY <1>1, <2>1, <3>1, IdsAre, SectionAlone, Zenon DEF InSection, Fit, Bound, CreateInv, BuildInv
  <2>3. Others(c)
    BY <1>1, <1>4, HasStep, Zenon DEF Base, Locks, Has
  <2>4. CASE CreateLock(c) \/ CreateExists(c) \/ CreateCheck(c) \/ CreateConf(c)
    <3>1. ~InSection(c)'
      BY <1>1, <2>4, PlainShape, Zenon DEF InSection, Goes, Ends
    <3>2. UNCHANGED <<space, home, ps, partKey>>
      BY <2>4 DEF CreateLock, CreateExists, CreateCheck, CreateConf
    <3> QED
      BY <2>3, <3>1, <3>2, BuildStays DEF Others
  <2>5. CASE Ready(c)
    <3>1. /\ Goes(c, "write") /\ InSection(c) /\ op[c].pc = "build" /\ op[c].todo = {}
          /\ ~op[c].bad /\ DOMAIN op[c].new \subseteq partKey
          /\ UNCHANGED <<space, home, ps, partKey>>
      BY <1>1, <2>5, PlainShape, Zenon DEF InSection, Ready
    <3>2. \A p \in DOMAIN op[c].new : At(p, op[c].new[p])'
      BY <2>2, <3>1, Zenon DEF At, Builds, Goes, Keeps
    <3>3. Builds(c)'
      BY <2>2, <3>1, <3>2, Zenon DEF Builds, Goes, Keeps, Of
    <3> QED
      BY <2>3, <3>1, <3>3, BuildStays, Zenon DEF Others
  <2>6. CASE NotReady(c)
    <3>1. /\ Keeps(c) /\ op'[c].pc = "undo" /\ op'[c].todo = Sweep(op[c].new) /\ InSection(c)
          /\ UNCHANGED <<space, home, ps, partKey>>
      BY <1>1, <2>1, <2>6, TodoShape DEF InSection, NotReady
    <3>2. \A s \in Servers : \A p \in ps[s] : home[p] = op[c].sid => <<p, s>> \in Sweep(op[c].new)
      <4> SUFFICES ASSUME NEW s \in Servers, NEW p \in ps[s], home[p] = op[c].sid
                   PROVE  <<p, s>> \in Pairs(op[c].new)
        BY DEF Sweep
      <4>1. p \in DOMAIN op[c].new /\ s \in op[c].new[p]
        BY <1>1, <2>2, <3>1, Zenon DEF Builds, Of, Stored
      <4> QED
        BY <4>1 DEF Pairs
    <3>3. Builds(c)'
      BY <2>2, <3>1, <3>2, Zenon DEF Builds, Keeps, Of
    <3> QED
      BY <2>3, <3>1, <3>3, BuildStays, Zenon DEF Others
  <2>7. CASE CreatePut(c)
    <3>1. \A d \in Clients \ {c} : ~InSection(d)
      BY <1>1, <2>1, <2>7, SectionAlone DEF CreatePut, Creating
    <3> QED
      BY <1>1, <2>7, <3>1, PutBuilds
  <2>8. CASE CreatePartition(c)
    BY <1>1, <2>1, <2>2, <2>8, CreateBuilds DEF CreatePartition, InSection
  <2>9. CASE UndoPartition(c) \/ UndoKey(c)
    BY <1>1, <2>1, <2>2, <2>9, UndoBuilds DEF UndoPartition, UndoKey, InSection
  <2>10. CASE UndoSpace(c) \/ CreateEnable(c)
    BY <1>1, <2>1, <2>2, <2>10, EndBuilds DEF UndoSpace, CreateEnable, InSection
  <2> QED
    BY <1>1, <1>4, <2>4, <2>5, <2>6, <2>7, <2>8, <2>9, <2>10, CreateSteps, Zenon
<1> QED
  BY <1>2, <1>3, <1>4 DEF Next

\* It holds at first.
LEMMA BuildInit == Init => BuildInv
<1> SUFFICES ASSUME Init PROVE BuildInv
  OBVIOUS
<1>1. PICK S \in Parts :
              /\ \A i \in SpaceId : Exists(i) =>
                    /\ i = 1 /\ space[i].name = env.first /\ space[i].parts = S
                    /\ DOMAIN S # {}
              /\ DOMAIN S # {} => Exists(1)
              /\ \A p \in DOMAIN S : S[p] # {}
              /\ home = [p \in DOMAIN S |-> 1] /\ partKey = DOMAIN S
              /\ ps = [s \in Servers |-> {p \in DOMAIN S : s \in S[p]}]
  BY InitIs
<1>2. \A c \in Clients : ~InSection(c)
  BY SMTT(30) DEF Init, InSection, Idle
<1>3. \A p \in DOMAIN S : S[p] \subseteq Servers
  BY PartsType
<1>4. Of(1) = DOMAIN S
  BY <1>1, Zenon DEF Of
<1>5. \A p \in DOMAIN S : At(p, S[p])
  BY <1>1, <1>3 DEF At
<1>6. \A s \in Servers : \A p \in ps[s] : Exists(home[p])
  BY <1>1
<1> QED
  BY <1>1, <1>2, <1>4, <1>5, <1>6, Zenon DEF BuildInv

BuildAll ==
    Base /\ (Creates => CreateInv) /\ (Only({"create"}, {"create"}) => BuildInv)

\* It always holds.
LEMMA BuildAlways == Spec => []BuildAll
<1>1. Init => BuildAll
  BY BaseInit, CreateInit, BuildInit DEF BuildAll
<1>2. BuildAll /\ [Next]_vars => BuildAll'
  BY BaseStep, CreateStep, BuildStep, EnvStays DEF BuildAll, Creates, Only
<1> QED
  BY <1>1, <1>2, PTL DEF Spec

\* A creation that fails leaves no partition behind: when none is under way, what
\* is on a server belongs to a space.
THEOREM CreationsCleanUp == Spec => []NothingLeft
<1>1. BuildAll => NothingLeft
  <2> SUFFICES ASSUME BuildAll, Only({"create"}, {"create"}),
                      NEW s \in Servers, NEW p \in ps[s]
               PROVE  p \in DOMAIN space[home[p]].parts
    BY DEF NothingLeft
  <2>1. BuildInv /\ Ids /\ Stored
    BY StoredIs DEF BuildAll, Base, TInv
  <2>2. Exists(home[p]) /\ p \in DOMAIN home /\ home[p] \in SpaceId
    BY <2>1, IdsAre DEF BuildInv, Stored
  <2> QED
    BY <2>1, <2>2 DEF BuildInv, Of
<1> QED
  BY <1>1, BuildAlways, PTL

-----------------------------------------------------------------------------
(* The partitions of an enabled space.                                     *)

Served == Only({"expand", "config", "delete"}, {})

\* a partition that is being created
Coming(c, p) ==
    /\ op[c].pc = "build" /\ p \in DOMAIN op[c].new
    /\ op[c].sp.parts[p] = op[c].new[p] /\ op[c].new[p] # {}
    /\ \A s \in op[c].new[p] : p \in ps[s] \/ <<p, s>> \in op[c].todo

Serves(c) ==
    Writing(c) => \A p \in DOMAIN op[c].sp.parts : At(p, op[c].sp.parts[p]) \/ Coming(c, p)

ServeInv ==
    /\ Exists(1) => \A p \in DOMAIN space[1].parts : At(p, space[1].parts[p])
    /\ \A c \in Clients : Serves(c)

\* Servers and keys are only added.
LEMMA ServesStay ==
    ASSUME Requests, Ids, ServeInv, UNCHANGED space, partKey \subseteq partKey',
           \A s \in Servers : ps[s] \subseteq ps'[s],
           \A d \in Clients : op'[d] = op[d] \/ Serves(d)'
    PROVE  ServeInv'
<1>1. \A p : \A S \in SUBSET Servers : At(p, S) => At(p, S)'
  BY DEF At
<1>2. ASSUME NEW d \in Clients, op'[d] = op[d], Writing(d) PROVE Serves(d)'
  <2>1. op[d].sp.parts \in Parts /\ op[d].new \in Parts
    BY <1>2, SpaceRecordIs DEF Requests, Request, Fit, Bound, Writing
  <2>2. /\ \A p \in DOMAIN op[d].sp.parts : op[d].sp.parts[p] \subseteq Servers
        /\ \A p \in DOMAIN op[d].new : op[d].new[p] \subseteq Servers
    BY <2>1, PartsType
  <2>3. ASSUME NEW p \in DOMAIN op[d].sp.parts
        PROVE  At(p, op[d].sp.parts[p])' \/ Coming(d, p)'
    <3>1. CASE At(p, op[d].sp.parts[p])
      BY <1>1, <1>2, <2>2, <3>1
    <3>2. CASE Coming(d, p)
      BY <1>2, <2>2, <3>2 DEF Coming
    <3> QED
      BY <1>2, <3>1, <3>2 DEF ServeInv, Serves
  <2> QED
    BY <1>2, <2>3 DEF Serves
<1>3. ASSUME NEW d \in Clients PROVE Serves(d)'
  BY <1>2 DEF Serves, Writing
<1>4. Exists(1) => \A p \in DOMAIN space[1].parts : space[1].parts[p] \subseteq Servers
  <2>1. 1 \in SpaceId
    BY SpaceMetaAssumption DEF SpaceId
  <2>2. Exists(1) => space[1].parts \in Parts
    BY <2>1, ExistsMade, SpaceRecordIs
  <2> QED
    BY <2>2, PartsType
<1> QED
  BY <1>1, <1>3, <1>4 DEF ServeInv, Exists

\* Every step keeps the partitions of the space on their servers.
LEMMA ServeStep ==
    ASSUME Base, Served, UpdateInv, ServeInv, [Next]_vars
    PROVE  ServeInv'
<1>1. /\ TInv /\ Requests /\ Ids /\ ~env.cleaning /\ Updated /\ Stored /\ 1 \in SpaceId
      /\ env.faults = {}
  BY StoredIs, SpaceMetaAssumption DEF Base, TInv, Served, Updated, Only, SpaceId
<1>2. ASSUME NEW c \in Clients, Begin(c) PROVE ServeInv'
  <2>1. UNCHANGED <<space, ps, partKey>> /\ Others(c) /\ Serves(c)'
    BY <1>1, <1>2, BeginKeeps, BeginShape DEF Serves, Writing
  <2> QED
    BY <1>1, <2>1, ServesStay DEF Others
<1>3. CASE System \/ UNCHANGED vars
  <2>1. UNCHANGED <<space, ps, op>> /\ partKey \subseteq partKey'
    BY <1>1, <1>3, NoCleaning DEF vars
  <2> QED
    BY <1>1, <2>1, ServesStay
<1>4. ASSUME NEW c \in Clients, Step(c) PROVE ServeInv'
  <2>1. /\ Others(c) /\ op[c] \in Request /\ Fit(op[c]) /\ Knows(c) /\ Serves(c)
        /\ op[c].kind \in {"expand", "config", "delete"}
    BY <1>1, <1>4, HasStep, UpdateSteps, Zenon
    DEF Base, Locks, Has, Requests, Fit, UpdateInv, ServeInv, Served, Only
  <2>2. CASE DeleteReplica(c) \/ DeletePartitionKey(c)
    <3>1. op[c].pc = "sweep" /\ ~Exists(1) /\ UNCHANGED space
      BY <2>1, <2>2 DEF DeleteReplica, DeletePartitionKey, Knows
    <3>2. \A d \in Clients : ~Writing(d)
      BY <3>1 DEF UpdateInv, Knows
    <3>3. ~Writing(c)'
      BY <1>1, <2>2, <3>1, TodoShape DEF Writing, Ends
    <3>4. \A d \in Clients : ~Writing(d)'
      BY <2>1, <3>2, <3>3 DEF Writing, Others
    <3> QED
      BY <3>1, <3>4, Zenon DEF ServeInv, Serves, Exists
  <2>3. CASE DeleteKey(c)
    <3>1. CASE UNCHANGED space
      <4>1. ~Writing(c)' /\ UNCHANGED <<ps, partKey>>
        BY <1>1, <2>3, TodoShape DEF Writing, Ends, DeleteKey
      <4> QED
        BY <1>1, <2>1, <3>1, <4>1, ServesStay DEF Serves, Others
    <3>2. CASE ~UNCHANGED space
      <4>1. space'[1] = NoSpace /\ op[c].pc = "key"
        BY <1>1, <1>4, <2>3, <3>2, UpdateSpaces DEF UpdateWrite, DeleteKey
      <4>2. \A d \in Clients \ {c} : ~Writing(d)
        BY <1>1, <4>1, OneUpdates
      <4>3. ~Writing(c)'
        BY <1>1, <2>3, TodoShape DEF Writing, Ends
      <4>4. \A d \in Clients : ~Writing(d)'
        BY <2>1, <4>2, <4>3 DEF Writing, Others
      <4> QED
        BY <4>1, <4>4, SMTT(30) DEF ServeInv, Serves, Exists, NoSpace
    <3> QED
      BY <3>1, <3>2
  <2>4. CASE UpdateWrite(c)
    <3>1. /\ Writing(c) /\ op[c].pc = "write" /\ space'[1].parts = op[c].sp.parts
      BY <1>1, <1>4, <2>4, UpdateSpaces, Zenon DEF UpdateWrite, DeleteKey
    <3>2. \A p \in DOMAIN op[c].sp.parts : At(p, op[c].sp.parts[p])
      BY <2>1, <3>1 DEF Serves, Coming
    <3>3. \A d \in Clients \ {c} : ~Writing(d)
      BY <1>1, <3>1, OneUpdates
    <3>4. \A d \in Clients : ~Writing(d)'
      BY <1>1, <2>1, <2>4, <3>3, PlainShape, Zenon DEF Writing, Others, Ends
    <3>5. UNCHANGED <<ps, partKey>>
      BY <2>4 DEF UpdateWrite
    <3> QED
      BY <3>1, <3>2, <3>4, <3>5 DEF ServeInv, Serves, At
  <2>5. CASE CreatePartition(c)
    <3>1. PICK t \in op[c].todo :
            /\ ps' = [ps EXCEPT ![t[2]] = @ \cup {t[1]}]
            /\ op' = [op EXCEPT ![c].todo = op[c].todo \ {t}]
      BY <1>1, <2>5 DEF CreatePartition
    <3>2. t \in Pairs(op[c].new)
      BY <2>1, <2>5 DEF CreatePartition, Fit
    <3>3. t[2] \in Servers /\ t = <<t[1], t[2]>>
      BY <3>2 DEF Pairs
    <3>4. t[1] \in ps'[t[2]] /\ \A s \in Servers : ps[s] \subseteq ps'[s]
      BY <1>1, <3>1, <3>3 DEF Stored
    <3>5. op'[c].todo = op[c].todo \ {t}
      BY <1>1, <2>1, <3>1 DEF Requests, Request
    <3>6. /\ Keeps(c) /\ op'[c].pc = op[c].pc /\ op[c].pc = "build"
          /\ UNCHANGED <<space, partKey>>
      BY <1>1, <2>5, TodoShape DEF CreatePartition
    <3>7. /\ \A p \in DOMAIN op[c].sp.parts : op[c].sp.parts[p] \subseteq Servers
          /\ \A p \in DOMAIN op[c].new : op[c].new[p] \subseteq Servers
      <4>1. op[c].sp.parts \in Parts /\ op[c].new \in Parts
        BY <2>1, <3>6, SpaceRecordIs DEF Request, Fit, Bound
      <4> QED
        BY <4>1, PartsType
    <3>8. Serves(c)'
      <4> SUFFICES ASSUME NEW p \in DOMAIN op[c].sp.parts
                   PROVE  At(p, op[c].sp.parts[p])' \/ Coming(c, p)'
        BY <3>6 DEF Serves, Keeps
      <4>1. CASE At(p, op[c].sp.parts[p])
        BY <3>4, <3>6, <3>7, <4>1 DEF At, Keeps
      <4>2. CASE Coming(c, p)
        <5>1. \A s \in op[c].new[p] : p \in ps'[s] \/ <<p, s>> \in op'[c].todo
          <6> TAKE s \in op[c].new[p]
          <6>3. s \in Servers
            BY <3>7, <4>2 DEF Coming
          <6>1. CASE <<p, s>> = t
            BY <3>3, <3>4, <6>1
          <6>2. CASE <<p, s>> # t
            BY <3>4, <3>5, <4>2, <6>2, <6>3 DEF Coming
          <6> QED
            BY <6>1, <6>2
        <5> QED
          BY <3>6, <4>2, <5>1 DEF Coming, Keeps
      <4> QED
        BY <2>1, <3>6, <4>1, <4>2 DEF Serves, Writing
    <3> QED
      BY <1>1, <2>1, <3>4, <3>6, <3>8, ServesStay, Zenon DEF Others
  <2>6. CASE Ready(c)
    <3>1. /\ Goes(c, "write") /\ op[c].pc = "build" /\ op[c].todo = {}
          /\ DOMAIN op[c].new \subseteq partKey /\ UNCHANGED <<space, ps, partKey>>
      BY <1>1, <2>6, PlainShape, Zenon DEF Ready
    <3>2. \A p \in DOMAIN op[c].sp.parts : At(p, op[c].sp.parts[p])
      BY <2>1, <3>1 DEF Serves, Writing, Coming, At
    <3>3. Serves(c)'
      BY <3>1, <3>2 DEF Serves, Goes, Keeps, At
    <3> QED
      BY <1>1, <2>1, <3>1, <3>3, ServesStay DEF Others
  <2>7. CASE Notify(c)
    <3>1. op[c].pc = "notify" /\ UNCHANGED <<space, ps, partKey>>
      BY <2>7, Zenon DEF Notify
    <3>2. \A p \in DOMAIN op[c].sp.parts : At(p, op[c].sp.parts[p])
      BY <2>1, <3>1, Zenon DEF Serves, Writing, Coming
    <3>3. Goes(c, "write") \/ Ends(c)
      BY <1>1, <2>7, PlainShape, Zenon
    <3>4. Serves(c)'
      BY <3>1, <3>2, <3>3, Zenon DEF Serves, Goes, Keeps, At, Ends, Writing
    <3> QED
      BY <1>1, <2>1, <3>1, <3>4, ServesStay DEF Others
  <2>8. CASE ExpandQuery(c)
    <3> DEFINE P == NewPids(1)
    <3>1. UNCHANGED <<space, ps, partKey>>
      BY <2>8 DEF ExpandQuery
    <3>2. PICK i \in SpaceId :
           /\ Exists(i) /\ op'[c].pc = "build" /\ op'[c].new \in Placement(P)
           /\ op'[c].todo = Pairs(op'[c].new)
           /\ DOMAIN op'[c].sp.parts = DOMAIN space[i].parts \cup P
           /\ \A p \in DOMAIN op'[c].sp.parts :
                 op'[c].sp.parts[p] = IF p \in P THEN op'[c].new[p] ELSE space[i].parts[p]
      BY <1>1, <2>8, ExpandShape
    <3>3. i = 1
      BY <3>2 DEF UpdateInv
    <3>4. P \in SUBSET Pid
      <4>1. P \subseteq 1 .. env.pids /\ env.pids \in 0 .. MaxPids
        BY <1>1, <2>8, SpaceMetaAssumption DEF ExpandQuery, Ids, Setting
      <4> QED
        BY <4>1, SpaceMetaAssumption DEF Pid
    <3>5. /\ op'[c].new \in Parts /\ DOMAIN op'[c].new = P
          /\ \A p \in P : op'[c].new[p] \subseteq Servers /\ op'[c].new[p] # {}
      BY <3>2, <3>4, PlacementType
    <3> HIDE DEF P
    <3>6. ASSUME NEW p \in DOMAIN op'[c].sp.parts
          PROVE  At(p, op[c].sp.parts[p])' \/ Coming(c, p)'
      <4>1. CASE p \in P
        <5>1. \A s \in op'[c].new[p] : <<p, s>> \in op'[c].todo
          BY <3>2, <3>5, <4>1 DEF Pairs
        <5> QED
          BY <3>2, <3>5, <4>1, <5>1 DEF Coming
      <4>2. CASE p \notin P
        <5>1. At(p, space[1].parts[p])
          BY <3>2, <3>3, <3>6, <4>2 DEF ServeInv
        <5> QED
          BY <3>1, <3>2, <3>3, <4>2, <5>1 DEF At
      <4> QED
        BY <4>1, <4>2
    <3>7. Serves(c)'
      BY <3>6 DEF Serves
    <3> QED
      BY <1>1, <2>1, <3>1, <3>7, ServesStay DEF Others
  <2>9. CASE ConfigQuery(c)
    <3>1. UNCHANGED <<space, ps, partKey>>
      BY <2>9 DEF ConfigQuery
    <3>2. PICK i \in SpaceId : Exists(i) /\ op'[c].sp.parts = space[i].parts
      BY <1>1, <2>9, ConfigShape
    <3>3. Serves(c)'
      BY <3>1, <3>2 DEF UpdateInv, ServeInv, Serves, At
    <3> QED
      BY <1>1, <2>1, <3>1, <3>3, ServesStay DEF Others
  <2>10. CASE \/ NotReady(c) \/ DeleteLock(c) \/ DeleteConf(c) \/ UpdateLock(c)
              \/ UpdateNone(c)
    <3>1. UNCHANGED <<space, ps, partKey>>
      BY <2>10 DEF NotReady, DeleteLock, DeleteConf, UpdateLock, UpdateNone
    <3>2. Serves(c)'
      BY <1>1, <2>1, <2>10, PlainShape, TodoShape, Zenon DEF Serves, Writing, Ends, Goes
    <3> QED
      BY <1>1, <2>1, <3>1, <3>2, ServesStay DEF Others
  <2>11. CASE MemberCreate(c) \/ MemberRaft(c) \/ MemberRaftFails(c) \/ MemberQuery(c)
    <3>1. op[c].kind \in {"add", "remove"}
      BY <2>1, <2>11 DEF MemberCreate, MemberRaft, MemberRaftFails, MemberQuery, Fit, Legal
    <3> QED
      BY <2>1, <3>1
  <2> QED
    BY <1>1, <1>4, <2>2, <2>3, <2>4, <2>5, <2>6, <2>7, <2>8, <2>9, <2>10, <2>11, UpdateSteps
<1> QED
  BY <1>2, <1>3, <1>4 DEF Next

\* They are there at first.
LEMMA ServeInit == Init => ServeInv
<1> SUFFICES ASSUME Init PROVE ServeInv
  OBVIOUS
<1>1. PICK S \in Parts :
              /\ \A i \in SpaceId : Exists(i) => space[i].parts = S
              /\ \A p \in DOMAIN S : S[p] # {}
              /\ partKey = DOMAIN S
              /\ ps = [s \in Servers |-> {p \in DOMAIN S : s \in S[p]}]
  BY InitIs
<1>2. \A p \in DOMAIN S : S[p] \subseteq Servers
  BY PartsType
<1>3. \A p \in DOMAIN S : At(p, S[p])
  BY <1>1, <1>2 DEF At
<1>4. 1 \in SpaceId
  BY SpaceMetaAssumption DEF SpaceId
<1>5. \A c \in Clients : ~Writing(c)
  BY DEF Init, Writing, Idle
<1> QED
  BY <1>1, <1>3, <1>4, <1>5 DEF ServeInv, Serves

ServeAll == UpdateAll /\ (Served => ServeInv)

\* The partitions of an enabled space are registered and on the servers of its
\* metadata: CreateSpace and expandPartitions wait for the leaders before they
\* write them, and a deletion removes them after the space.
THEOREM EnabledServed == Spec => []EnabledHosted
<1>1. Init => ServeAll
  BY BaseInit, UpdateInit, ServeInit DEF ServeAll, UpdateAll
<1>2. ServeAll /\ [Next]_vars => ServeAll'
  <2> SUFFICES ASSUME ServeAll, [Next]_vars PROVE ServeAll'
    OBVIOUS
  <2>1. Served => Updated
    BY DEF Served, Updated, Only
  <2>2. UpdateAll'
    BY BaseStep, UpdateStep, EnvStays DEF ServeAll, UpdateAll, Updated, Only
  <2>3. Served' <=> Served
    BY EnvStays DEF Served, Only
  <2>4. Served => ServeInv'
    BY <2>1, ServeStep DEF ServeAll, UpdateAll
  <2> QED
    BY <2>2, <2>3, <2>4 DEF ServeAll
<1>3. BuildAll /\ ServeAll => EnabledHosted
  <2> SUFFICES ASSUME BuildAll, ServeAll, Only({"create"}, {"create"}) \/ Served,
                      NEW i \in SpaceId, Exists(i), space[i].enabled,
                      NEW p \in DOMAIN space[i].parts
               PROVE  At(p, space[i].parts[p])
    BY DEF EnabledHosted, At, Served
  <2>1. CASE Only({"create"}, {"create"})
    BY <2>1 DEF BuildAll, BuildInv
  <2>2. CASE Served
    <3>1. Updated
      BY <2>2 DEF Served, Updated, Only
    <3>2. i = 1
      BY <3>1 DEF ServeAll, UpdateAll, UpdateInv
    <3> QED
      BY <2>2, <3>2 DEF ServeAll, ServeInv
  <2> QED
    BY <2>1, <2>2
<1> QED
  BY <1>1, <1>2, <1>3, BuildAlways, PTL DEF Spec

=============================================================================
