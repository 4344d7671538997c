--------------------------- MODULE LocalVaultProofs ---------------------------
(***************************************************************************)
(* No write overwrites another unseen, for any number of processes,        *)
(* environments, names and rows.  A process keeps a version and the value  *)
(* it found with it; the invariant is that as long as the row still has    *)
(* that version it still has that value, since only a removal changes a    *)
(* row without a new version, and a removal leaves the value.              *)
(***************************************************************************)
EXTENDS LocalVault, FiniteSetTheorems, TLAPS

RowType == [env : Environments, name : Names, value : Values,
            version : Nat \ {0}, deleted : BOOLEAN]

EntryType == [id : Nat \ {0}, version : Nat \ {0}, value : Values, saw : Values]

Choosing == [at : {"next"}, env : Environments, todo : SUBSET Item]

Planning == [at : {"plan"}, env : Environments, from : SUBSET Item]

Writing == [at : {"deleted", "write"}, env : Environments, todo : SUBSET Item,
            item : Item, base : [id : Nat, version : Nat], saw : Values]

Removing == [at : {"remove"}, id : Nat \ {0}]

Numbered == \E n \in Nat : Ids = 1 .. n

VaultTypes ==
    /\ Numbered
    /\ rows \in [Ids -> RowType]
    /\ history \subseteq EntryType
    /\ process \in [Processes ->
                       {Idle} \cup Choosing \cup Planning \cup Writing \cup Removing]

(* Every version a row has had is in the history, once, and nothing else.   *)
Recorded ==
    /\ \A h \in history : h.id \in Ids /\ h.version <= rows[h.id].version
    /\ \A id \in Ids : \A v \in 1 .. rows[id].version :
          \E h \in history : h.id = id /\ h.version = v
    /\ \A g, h \in history :
          g.id = h.id /\ g.version = h.version => g.value = h.value
    /\ \A h \in history :
          h.version = rows[h.id].version => h.value = rows[h.id].value

(* The content a version replaced is the one its writer had found.          *)
Chained ==
    \A g, h \in history :
        g.id = h.id /\ h.version = g.version + 1 => g.value = h.saw

(* A version found and not superseded still has the value found with it.    *)
FoundHolds ==
    \A p \in Processes :
        process[p] \in Writing /\ process[p].base # NoBase =>
            /\ process[p].base.id \in Ids
            /\ process[p].base.version <= rows[process[p].base.id].version
            /\ process[p].base.version = rows[process[p].base.id].version =>
                  process[p].saw = rows[process[p].base.id].value

RemovesKnown ==
    \A p \in Processes : process[p] \in Removing => process[p].id \in Ids

VaultInv ==
    VaultTypes /\ Recorded /\ Chained /\ FoundHolds /\ RemovesKnown

-----------------------------------------------------------------------------

LEMMA InvImplies == VaultInv => NothingOverwritten
<1> SUFFICES ASSUME VaultInv
             PROVE  NothingOverwritten
  OBVIOUS
<1>1. ASSUME NEW h \in history, h.version > 1
      PROVE  {g.value : g \in {g \in history : /\ g.id = h.id
                                               /\ g.version = h.version - 1}}
             = {h.saw}
  <2>1. h \in EntryType /\ h.id \in Ids /\ rows[h.id].version \in Nat
        /\ h.version \in Nat /\ h.version <= rows[h.id].version
    BY DEF VaultInv, VaultTypes, Recorded, EntryType, RowType
  <2>2. h.version - 1 \in 1 .. rows[h.id].version
    BY <1>1, <2>1
  <2>3. PICK f \in history : f.id = h.id /\ f.version = h.version - 1
    BY <2>1, <2>2 DEF VaultInv, Recorded
  <2>4. \A g \in history : g.id = h.id /\ g.version = h.version - 1 => g.value = h.saw
    <3>1. ASSUME NEW g \in history, g.id = h.id, g.version = h.version - 1
          PROVE  g.value = h.saw
      <4>1. h.version = g.version + 1
        BY <2>1, <3>1
      <4> QED BY <3>1, <4>1 DEF VaultInv, Chained
    <3> QED BY <3>1
  <2> QED BY <2>3, <2>4
<1>2. ASSUME NEW id \in Ids
      PROVE  {h.value : h \in {h \in history : /\ h.id = id
                                               /\ h.version >= rows[id].version}}
             = {rows[id].value}
  <2>1. rows[id].version \in Nat \ {0}
    BY DEF VaultInv, VaultTypes, RowType
  <2>2. PICK f \in history : f.id = id /\ f.version = rows[id].version
    BY <2>1 DEF VaultInv, Recorded
  <2>3. \A h \in history :
           h.id = id /\ h.version >= rows[id].version => h.value = rows[id].value
    <3>1. ASSUME NEW h \in history, h.id = id, h.version >= rows[id].version
          PROVE  h.value = rows[id].value
      <4>1. h.version \in Nat /\ h.version <= rows[id].version
        BY <3>1 DEF VaultInv, VaultTypes, Recorded, EntryType
      <4>2. h.version = rows[id].version
        BY <2>1, <3>1, <4>1
      <4> QED BY <3>1, <4>2 DEF VaultInv, Recorded
    <3> QED BY <3>1
  <2> QED BY <2>1, <2>2, <2>3
<1> QED BY <1>1, <1>2 DEF NothingOverwritten

(* Steps that write nothing: what matters is what the process found.        *)
LEMMA ReadStep ==
  ASSUME VaultInv, NEW p \in Processes,
         NEW state \in {Idle} \cup Choosing \cup Planning \cup Writing \cup Removing,
         process' = [process EXCEPT ![p] = state], UNCHANGED <<rows, history>>,
         state \in Writing /\ state.base # NoBase =>
             /\ state.base.id \in Ids
             /\ state.base.version = rows[state.base.id].version
             /\ state.saw = rows[state.base.id].value,
         state \in Removing => state.id \in Ids
  PROVE  VaultInv'
<1>1. VaultTypes'
  BY DEF VaultInv, VaultTypes, Numbered, Ids
<1>2. Recorded' /\ Chained'
  BY DEF VaultInv, Recorded, Chained, Ids
<1>3. process'[p] = state /\ \A q \in Processes \ {p} : process'[q] = process[q]
  BY DEF VaultInv, VaultTypes
<1>4. FoundHolds'
  <2> SUFFICES ASSUME NEW q \in Processes, process'[q] \in Writing,
                      process'[q].base # NoBase
               PROVE  /\ process'[q].base.id \in Ids
                      /\ process'[q].base.version <= rows[process'[q].base.id].version
                      /\ process'[q].base.version = rows[process'[q].base.id].version =>
                            process'[q].saw = rows[process'[q].base.id].value
    BY DEF FoundHolds, Ids
  <2>1. CASE q = p
    <3>1. \A id \in Ids : rows[id].version \in Nat
      BY DEF VaultInv, VaultTypes, RowType
    <3> QED BY <1>3, <2>1, <3>1
  <2>2. CASE q # p
    BY <1>3, <2>2 DEF VaultInv, FoundHolds
  <2> QED BY <2>1, <2>2
<1>5. RemovesKnown'
  BY <1>3 DEF VaultInv, RemovesKnown, Ids
<1> QED BY <1>1, <1>2, <1>4, <1>5 DEF VaultInv

(* Everything that starts, looks something up, or stops.                    *)
LEMMA LooksStep ==
  ASSUME VaultInv, NEW p \in Processes,
         \/ Start(p) \/ PlanCopy(p) \/ (\E item \in Item : FindLive(p, item))
         \/ FindDeleted(p) \/ Done(p) \/ Stop(p)
  PROVE  VaultInv'
<1> DEFINE States == {Idle} \cup Choosing \cup Planning \cup Writing \cup Removing
<1>1. /\ process \in [Processes -> States]
      /\ \A id \in Ids : rows[id] \in RowType
      /\ \A h \in history : h \in EntryType
      /\ Ids \subseteq Nat \ {0}
  BY DEF VaultInv, VaultTypes, Numbered
<1>2. \A env : Entries(env) \subseteq Item
  BY <1>1 DEF Entries, Item, RowType
<1>3. ASSUME NEW env \in Environments, NEW todo \in SUBSET Item,
             process' = [process EXCEPT ![p] = Setting(env, todo)],
             UNCHANGED <<rows, history>>
      PROVE  VaultInv'
  <2>1. Setting(env, todo) \in Choosing
    BY DEF Setting, Choosing
  <2>2. Setting(env, todo) \notin Writing /\ Setting(env, todo) \notin Removing
    BY DEF Setting, Writing, Removing
  <2> QED BY <1>3, <2>1, <2>2, ReadStep
<1>5. ASSUME NEW env \in Environments, NEW todo \in SUBSET Item, StartSet(p, env, todo)
      PROVE  VaultInv'
  BY <1>3, <1>5 DEF StartSet, Begin
<1>6. ASSUME NEW env \in Environments, NEW name \in Names, StartRollback(p, env, name)
      PROVE  VaultInv'
  <2>1. PICK h \in history :
           /\ process' = [process EXCEPT ![p] =
                            Setting(env, {[name |-> name, value |-> h.value]})]
           /\ UNCHANGED <<rows, history>>
    BY <1>6 DEF StartRollback, Begin
  <2>2. {[name |-> name, value |-> h.value]} \in SUBSET Item
    BY <1>1 DEF Item, EntryType
  <2> QED BY <1>3, <2>1, <2>2
<1>7. ASSUME NEW env \in Environments, NEW name \in Names, StartRemove(p, env, name)
      PROVE  VaultInv'
  <2>1. PICK id \in LiveNamed(env, name) :
           /\ process' = [process EXCEPT ![p] = [at |-> "remove", id |-> id]]
           /\ UNCHANGED <<rows, history>>
    BY <1>7 DEF StartRemove, Begin
  <2>2. id \in Ids /\ id \in Nat \ {0}
    BY <1>1 DEF LiveNamed, Named
  <2>3. [at |-> "remove", id |-> id] \in Removing
    BY <2>2 DEF Removing
  <2>4. [at |-> "remove", id |-> id] \notin Writing
    BY DEF Writing
  <2> QED BY <2>1, <2>2, <2>3, <2>4, ReadStep
<1>8. ASSUME NEW src \in Environments, NEW dst \in Environments, StartCopy(p, src, dst)
      PROVE  VaultInv'
  <2> DEFINE state == [at |-> "plan", env |-> dst, from |-> Entries(src)]
  <2>1. process' = [process EXCEPT ![p] = state] /\ UNCHANGED <<rows, history>>
    BY <1>8 DEF StartCopy, Begin
  <2>2. state \in Planning
    BY <1>2 DEF Planning
  <2>3. state \notin Writing /\ state \notin Removing
    BY DEF Writing, Removing
  <2> QED BY <2>1, <2>2, <2>3, ReadStep
<1>9. CASE PlanCopy(p)
  <2>1. process[p] \in Planning
    BY <1>1, <1>9 DEF PlanCopy, Idle, Choosing, Writing, Removing
  <2>2. /\ process[p].env \in Environments
        /\ process[p].from \ Entries(process[p].env) \in SUBSET Item
    BY <2>1 DEF Planning
  <2> QED BY <1>3, <1>9, <2>2 DEF PlanCopy, Become
<1>10. ASSUME NEW item \in Item, NEW at \in {"deleted", "write"}, NEW id \in Ids \cup {0},
              NEW env \in Environments, NEW todo \in SUBSET Item,
              process[p].env = env, process[p].todo = todo,
              Found(p, item, at, id), UNCHANGED <<rows, history>>
       PROVE  VaultInv'
  <2> DEFINE base == IF id = 0 THEN NoBase ELSE Base(id)
             saw == IF id = 0 THEN item.value ELSE rows[id].value
             state == [at |-> at, env |-> env, todo |-> todo, item |-> item,
                       base |-> base, saw |-> saw]
  <2>1. process' = [process EXCEPT ![p] = state]
    BY <1>10 DEF Found, Become
  <2>2. id # 0 => id \in Ids /\ rows[id] \in RowType /\ id \in Nat \ {0}
    BY <1>1
  <2>3. base \in [id : Nat, version : Nat]
    BY <2>2 DEF NoBase, Base, RowType
  <2>4. saw \in Values
    BY <2>2 DEF Item, RowType
  <2>5. base # NoBase => /\ base.id \in Ids
                         /\ base.version = rows[base.id].version
                         /\ saw = rows[base.id].value
    BY <2>2 DEF Base
  <2> HIDE DEF base, saw
  <2>6. state \in Writing /\ state \notin Removing
    BY <2>3, <2>4 DEF Writing, Removing
  <2>7. state.base = base /\ state.saw = saw
    OBVIOUS
  <2> HIDE DEF state
  <2> QED BY <1>10, <2>1, <2>5, <2>6, <2>7, ReadStep
<1>11. ASSUME NEW item \in Item, FindLive(p, item)
       PROVE  VaultInv'
  <2>1. process[p] \in Choosing
    BY <1>1, <1>11 DEF FindLive, Idle, Planning, Writing, Removing
  <2>2. process[p].env \in Environments /\ process[p].todo \in SUBSET Item
    BY <2>1 DEF Choosing
  <2>3. /\ UNCHANGED <<rows, history>>
        /\ \/ \E id \in LiveNamed(process[p].env, item.name) : Found(p, item, "write", id)
           \/ Found(p, item, "deleted", 0)
    BY <1>11 DEF FindLive
  <2> QED BY <1>10, <2>2, <2>3 DEF LiveNamed, Named
<1>12. CASE FindDeleted(p)
  <2>1. process[p] \in Writing
    BY <1>1, <1>12 DEF FindDeleted, Idle, Planning, Choosing, Removing
  <2>2. /\ process[p].env \in Environments /\ process[p].todo \in SUBSET Item
        /\ process[p].item \in Item
    BY <2>1 DEF Writing
  <2>3. /\ UNCHANGED <<rows, history>>
        /\ \/ \E id \in Resurrectable(process[p].env, process[p].item.name) :
                 Found(p, process[p].item, "write", id)
           \/ Found(p, process[p].item, "write", 0)
    BY <1>12 DEF FindDeleted
  <2> QED BY <1>10, <2>2, <2>3 DEF Resurrectable, DeletedNamed, Named
<1>13. CASE Done(p) \/ Stop(p)
  <2>1. process' = [process EXCEPT ![p] = Idle] /\ UNCHANGED <<rows, history>>
    BY <1>13 DEF Done, Stop, Become
  <2>2. Idle \notin Writing /\ Idle \notin Removing
    BY DEF Idle, Writing, Removing
  <2> QED BY <2>1, <2>2, ReadStep
<1> QED
  BY <1>5, <1>6, <1>7, <1>8, <1>9, <1>11, <1>12, <1>13 DEF Start

(* A row at version v of id, written by p: the rest of the invariant.       *)
LEMMA WriteStep ==
  ASSUME VaultInv, NEW p \in Processes, NEW id \in Nat \ {0}, NEW v \in Nat \ {0},
         NEW row \in RowType, NEW saw \in Values, row.version = v,
         Numbered', Ids' = Ids \cup {id},
         rows' \in [Ids' -> RowType], rows'[id] = row,
         \A i \in Ids \ {id} : rows'[i] = rows[i],
         id \in Ids => v = rows[id].version + 1 /\ saw = rows[id].value,
         id \notin Ids => v = 1,
         history' = history \cup {[id |-> id, version |-> v,
                                   value |-> row.value, saw |-> saw]},
         NEW state \in {Idle} \cup Choosing,
         process' = [process EXCEPT ![p] = state]
  PROVE  VaultInv'
<1> DEFINE e == [id |-> id, version |-> v, value |-> row.value, saw |-> saw]
<1>1. /\ e \in EntryType /\ e.id = id /\ e.version = v /\ e.value = row.value
      /\ e.saw = saw
  BY DEF EntryType, RowType
<1>2. history' = history \cup {e}
  OBVIOUS
<1> HIDE DEF e
<1>3. ASSUME NEW h \in history
      PROVE  /\ h \in EntryType /\ h.version \in Nat \ {0} /\ h.id \in Ids
             /\ rows[h.id].version \in Nat \ {0}
             /\ h.version <= rows[h.id].version
  BY DEF VaultInv, VaultTypes, Recorded, EntryType, RowType
<1>4. ASSUME NEW h \in history, h.id = id
      PROVE  h.version < v /\ rows[id].version < v
  BY <1>3, <1>4
<1>5. /\ process'[p] = state
      /\ \A q \in Processes \ {p} : process'[q] = process[q]
      /\ state \notin Writing /\ state \notin Removing
  BY DEF VaultInv, VaultTypes, Idle, Choosing, Writing, Removing
<1>6. VaultTypes'
  BY <1>1, <1>2 DEF VaultInv, VaultTypes
<1>7. Recorded'
  <2>1. ASSUME NEW h \in history'
        PROVE  /\ h.id \in Ids' /\ h.version <= rows'[h.id].version
               /\ h.version = rows'[h.id].version => h.value = rows'[h.id].value
    <3>1. CASE h = e
      BY <1>1, <3>1
    <3>2. CASE h \in history /\ h.id = id
      BY <1>3, <1>4, <3>2
    <3>3. CASE h \in history /\ h.id # id
      BY <1>3, <3>3 DEF VaultInv, Recorded
    <3> QED BY <1>2, <2>1, <3>1, <3>2, <3>3
  <2>2. ASSUME NEW i \in Ids', NEW w \in 1 .. rows'[i].version
        PROVE  \E h \in history' : h.id = i /\ h.version = w
    <3>1. CASE i # id
      BY <1>2, <2>2, <3>1 DEF VaultInv, Recorded
    <3>2. CASE i = id /\ w = v
      BY <1>1, <1>2, <3>2
    <3>3. CASE i = id /\ w # v
      <4>1. w \in 1 .. v
        BY <3>3
      <4>2. id \in Ids /\ rows[id].version \in Nat /\ v = rows[id].version + 1
        BY <3>3, <4>1 DEF VaultInv, VaultTypes, RowType
      <4>3. w \in 1 .. rows[id].version
        BY <3>3, <4>1, <4>2
      <4> QED BY <1>2, <3>3, <4>2, <4>3 DEF VaultInv, Recorded
    <3> QED BY <3>1, <3>2, <3>3
  <2>3. ASSUME NEW g \in history', NEW h \in history', g.id = h.id,
               g.version = h.version
        PROVE  g.value = h.value
    <3>1. CASE g \in history /\ h \in history
      BY <2>3, <3>1 DEF VaultInv, Recorded
    <3>2. ASSUME NEW f \in history, f.id = e.id
          PROVE  f.version # e.version
      BY <1>1, <1>3, <1>4, <3>2
    <3> QED BY <1>2, <2>3, <3>1, <3>2
  <2> QED BY <2>1, <2>2, <2>3 DEF Recorded
<1>8. Chained'
  <2> SUFFICES ASSUME NEW g \in history', NEW h \in history', g.id = h.id,
                      h.version = g.version + 1
               PROVE  g.value = h.saw
    BY DEF Chained
  <2>1. CASE g \in history /\ h \in history
    BY <2>1 DEF VaultInv, Chained
  <2>2. CASE g \in history /\ h = e
    <3>1. g.id = id /\ g.version < v /\ v = g.version + 1 /\ id \in Ids
      BY <1>1, <1>3, <1>4, <2>2
    <3>2. v = rows[id].version + 1 /\ rows[id].version \in Nat /\ g.version \in Nat
      BY <1>3, <2>2, <3>1
    <3>3. g.version = rows[g.id].version
      BY <3>1, <3>2
    <3>4. g.value = rows[id].value
      BY <2>2, <3>1, <3>3 DEF VaultInv, Recorded
    <3> QED BY <1>1, <2>2, <3>1, <3>4
  <2>3. CASE g = e /\ h \in history
    <3>1. h.id = id /\ h.version = v + 1 /\ h.version < v
      BY <1>1, <1>4, <2>3
    <3> QED BY <3>1
  <2>4. CASE g = e /\ h = e
    BY <1>1, <2>4
  <2> QED BY <1>2, <2>1, <2>2, <2>3, <2>4
<1>9. FoundHolds'
  <2> SUFFICES ASSUME NEW q \in Processes, process'[q] \in Writing,
                      process'[q].base # NoBase
               PROVE  /\ process'[q].base.id \in Ids'
                      /\ process'[q].base.version <= rows'[process'[q].base.id].version
                      /\ process'[q].base.version = rows'[process'[q].base.id].version =>
                            process'[q].saw = rows'[process'[q].base.id].value
    BY DEF FoundHolds
  <2>1. /\ q # p /\ process'[q] = process[q]
        /\ process[q].base.id \in Ids
        /\ process[q].base.version <= rows[process[q].base.id].version
        /\ process[q].base.version = rows[process[q].base.id].version =>
               process[q].saw = rows[process[q].base.id].value
    BY <1>5 DEF VaultInv, FoundHolds
  <2>2. process[q].base.version \in Nat /\ rows[process[q].base.id].version \in Nat
    BY <2>1 DEF VaultInv, VaultTypes, Writing, RowType
  <2>3. CASE process[q].base.id = id
    BY <2>1, <2>2, <2>3
  <2>4. CASE process[q].base.id # id
    BY <2>1, <2>4
  <2> QED BY <2>3, <2>4
<1>10. RemovesKnown'
  BY <1>5 DEF VaultInv, RemovesKnown
<1> QED BY <1>6, <1>7, <1>8, <1>9, <1>10 DEF VaultInv

LEMMA WritesStep ==
  ASSUME VaultInv, NEW p \in Processes, InsertSecret(p) \/ UpdateSecret(p)
  PROVE  VaultInv'
<1> DEFINE item == process[p].item
<1>1. process[p] \in Writing
  BY DEF VaultInv, VaultTypes, InsertSecret, UpdateSecret, Idle, Choosing, Planning, Removing
<1>2. /\ process[p].env \in Environments /\ process[p].todo \in SUBSET Item
      /\ item \in Item /\ process[p].base \in [id : Nat, version : Nat]
      /\ process[p].saw \in Values /\ item.name \in Names /\ item.value \in Values
  BY <1>1 DEF Writing, Item
<1> DEFINE state == Setting(process[p].env, process[p].todo \ {item})
<1>3. state \in Choosing /\ process' = [process EXCEPT ![p] = state]
  BY <1>2 DEF Setting, Choosing, InsertSecret, UpdateSecret, Written, Become
<1> HIDE DEF state
<1>4. PICK n \in Nat : Ids = 1 .. n
  BY DEF VaultInv, VaultTypes, Numbered
<1>5. CASE InsertSecret(p)
  <2> DEFINE id == n + 1
             row == [env |-> process[p].env, name |-> item.name, value |-> item.value,
                     version |-> 1, deleted |-> FALSE]
  <2>1. Cardinality(Ids) = n
    BY <1>4, FS_Interval
  <2>2. /\ rows' = [i \in 1 .. id |-> IF i < id THEN rows[i] ELSE row]
        /\ history' = history \cup {[id |-> id, version |-> 1, value |-> item.value,
                                     saw |-> item.value]}
    BY <1>5, <2>1 DEF InsertSecret, Snapshot
  <2>3. row \in RowType /\ row.version = 1 /\ row.value = item.value
    BY <1>2 DEF RowType
  <2> HIDE DEF row, item
  <2>4. Ids' = 1 .. id /\ Ids' = Ids \cup {id} /\ id \notin Ids /\ id \in Nat \ {0}
    BY <1>4, <2>2 DEF Ids
  <2>5. Numbered'
    BY <2>4 DEF Numbered
  <2>6. rows'[id] = row /\ \A i \in Ids \ {id} : rows'[i] = rows[i]
    BY <1>4, <2>2, <2>4
  <2>7. rows' \in [Ids' -> RowType]
    BY <1>4, <2>2, <2>3, <2>4 DEF VaultInv, VaultTypes
  <2>8. /\ history' = history \cup {[id |-> id, version |-> 1,
                                     value |-> row.value, saw |-> item.value]}
        /\ 1 \in Nat \ {0}
    BY <2>2, <2>3
  <2> HIDE DEF id
  <2> QED BY <1>2, <1>3, <2>3, <2>4, <2>5, <2>6, <2>7, <2>8, WriteStep
<1>6. CASE UpdateSecret(p)
  <2> DEFINE id == process[p].base.id
             v == rows[id].version + 1
             row == [rows[id] EXCEPT !.value = item.value, !.version = v,
                                     !.deleted = FALSE]
  <2>1. /\ process[p].base # NoBase /\ rows[id].version = process[p].base.version
        /\ rows' = [rows EXCEPT ![id].value = item.value, ![id].version = v,
                                ![id].deleted = FALSE]
        /\ history' = history \cup {[id |-> id, version |-> v, value |-> item.value,
                                     saw |-> process[p].saw]}
    BY <1>6 DEF UpdateSecret, Current, Snapshot
  <2>2. id \in Ids /\ process[p].saw = rows[id].value
    BY <1>1, <2>1 DEF VaultInv, FoundHolds
  <2>3. rows \in [Ids -> RowType] /\ rows[id] \in RowType /\ id \in Nat \ {0}
    BY <1>4, <2>2 DEF VaultInv, VaultTypes
  <2>4. v \in Nat \ {0}
    BY <2>3 DEF RowType
  <2>5. row \in RowType /\ row.version = v /\ row.value = item.value
    BY <1>2, <2>3, <2>4 DEF RowType
  <2>6. rows' = [rows EXCEPT ![id] = row]
    BY <2>1, <2>2, <2>3
  <2>7. Ids' = Ids /\ Ids' = Ids \cup {id}
    BY <2>2, <2>6 DEF Ids
  <2> HIDE DEF row, v, id, item
  <2>8. /\ rows' \in [Ids' -> RowType] /\ rows'[id] = row
        /\ \A i \in Ids \ {id} : rows'[i] = rows[i]
    BY <2>2, <2>3, <2>5, <2>6, <2>7
  <2>9. Numbered'
    BY <1>4, <2>7 DEF Numbered
  <2>10. v = rows[id].version + 1
    BY DEF v
  <2> QED
    BY <1>2, <1>3, <2>1, <2>2, <2>3, <2>4, <2>5, <2>7, <2>8, <2>9, <2>10, WriteStep
<1> QED BY <1>5, <1>6

LEMMA RemoveStep ==
  ASSUME VaultInv, NEW p \in Processes, DeleteSecret(p)
  PROVE  VaultInv'
<1> DEFINE id == process[p].id
<1>1. process[p] \in Removing
  BY DEF VaultInv, VaultTypes, DeleteSecret, Idle, Choosing, Planning, Writing
<1>2. /\ id \in Ids /\ rows[id] \in RowType
      /\ rows \in [Ids -> RowType]
  BY <1>1 DEF VaultInv, VaultTypes, RemovesKnown
<1>3. /\ rows' = [rows EXCEPT ![id].deleted = TRUE]
      /\ history' = history
      /\ process' = [process EXCEPT ![p] = Idle]
  BY DEF DeleteSecret, Become
<1> HIDE DEF id
<1>4. [rows[id] EXCEPT !.deleted = TRUE] \in RowType
  BY <1>2 DEF RowType
<1>5. /\ Ids' = Ids /\ rows' \in [Ids -> RowType]
      /\ \A i \in Ids : /\ rows'[i].version = rows[i].version
                        /\ rows'[i].value = rows[i].value
  BY <1>2, <1>3, <1>4 DEF Ids, RowType
<1>6. /\ process'[p] = Idle /\ \A q \in Processes \ {p} : process'[q] = process[q]
      /\ Idle \notin Writing /\ Idle \notin Removing
  BY <1>3 DEF VaultInv, VaultTypes, Idle, Writing, Removing
<1>7. VaultTypes'
  BY <1>3, <1>5 DEF VaultInv, VaultTypes, Numbered
<1>8. Recorded'
  <2>1. \A h \in history : h.id \in Ids
    BY DEF VaultInv, Recorded
  <2> QED BY <1>3, <1>5, <2>1 DEF VaultInv, Recorded
<1>9. Chained'
  BY <1>3 DEF VaultInv, Chained
<1>10. FoundHolds'
  <2> SUFFICES ASSUME NEW q \in Processes, process'[q] \in Writing,
                      process'[q].base # NoBase
               PROVE  /\ process'[q].base.id \in Ids'
                      /\ process'[q].base.version <= rows'[process'[q].base.id].version
                      /\ process'[q].base.version = rows'[process'[q].base.id].version =>
                            process'[q].saw = rows'[process'[q].base.id].value
    BY DEF FoundHolds
  <2>1. process'[q] = process[q]
    BY <1>6
  <2> QED BY <1>5, <2>1 DEF VaultInv, FoundHolds
<1>11. RemovesKnown'
  BY <1>5, <1>6 DEF VaultInv, RemovesKnown
<1> QED BY <1>7, <1>8, <1>9, <1>10, <1>11 DEF VaultInv

LEMMA VaultInit == Init => VaultInv
<1> SUFFICES ASSUME Init
             PROVE  VaultInv
  OBVIOUS
<1>1. rows = << >> /\ Ids = {} /\ Ids = 1 .. 0 /\ history = {}
  BY DEF Init, Ids
<1>2. \A p \in Processes : /\ process[p] = Idle /\ Idle \notin Writing
                           /\ Idle \notin Removing
  BY DEF Init, Idle, Writing, Removing
<1>3. Numbered
  BY <1>1 DEF Numbered
<1>4. rows \in [Ids -> RowType]
  BY <1>1
<1>5. VaultTypes
  BY <1>1, <1>3, <1>4 DEF Init, VaultTypes
<1> QED
  BY <1>1, <1>2, <1>5 DEF VaultInv, Recorded, Chained, FoundHolds, RemovesKnown

LEMMA VaultStep == VaultInv /\ [Next]_vars => VaultInv'
<1>1. ASSUME VaultInv, NEW p \in Processes, Start(p) \/ Step(p)
      PROVE  VaultInv'
  BY <1>1, LooksStep, WritesStep, RemoveStep DEF Step
<1>2. ASSUME VaultInv, UNCHANGED vars
      PROVE  VaultInv'
  BY <1>2 DEF vars, VaultInv, VaultTypes, Numbered, Ids, Recorded, Chained, FoundHolds,
              RemovesKnown
<1> QED BY <1>1, <1>2 DEF Next

(* Nobody's write is overwritten unseen: a version found at one step and    *)
(* compared again at the write is enough, whatever sets, imports, copies,   *)
(* rollbacks, removals and stops come in between.                           *)
THEOREM NoLostUpdate == Spec => []NothingOverwritten
<1> QED BY VaultInit, VaultStep, InvImplies, PTL DEF Spec
-----------------------------------------------------------------------------
(* One secret per name *)

(* Undisturbed, what a process found missing is still missing.              *)
Undisturbed ==
    /\ \A p, q \in Processes : process[p] # Idle /\ process[q] # Idle => p = q
    /\ \A i, j \in Ids :
          rows[i].env = rows[j].env /\ rows[i].name = rows[j].name => i = j
    /\ \A p \in Processes :
          process[p].at = "deleted" =>
              LiveNamed(process[p].env, process[p].item.name) = {}
    /\ \A p \in Processes :
          process[p].at = "write" /\ process[p].base = NoBase =>
              Named(process[p].env, process[p].item.name) = {}

AloneInv == VaultInv /\ (~overlapped => Undisturbed)

(* A step of p that leaves names and environments of the rows alone.        *)
LEMMA AloneStep ==
  ASSUME AloneInv, NEW p \in Processes, NEW state,
         process' = [process EXCEPT ![p] = state],
         ~overlapped' => ~overlapped /\ \A q \in Processes \ {p} : process[q] = Idle,
         Ids' = Ids,
         \A i \in Ids : rows'[i].env = rows[i].env /\ rows'[i].name = rows[i].name,
         ~overlapped' =>
             /\ state.at = "deleted" => LiveNamed(state.env, state.item.name)' = {}
             /\ state.at = "write" /\ state.base = NoBase =>
                    Named(state.env, state.item.name)' = {}
  PROVE  ~overlapped' => Undisturbed'
<1> SUFFICES ASSUME ~overlapped'
             PROVE  Undisturbed'
  OBVIOUS
<1>1. /\ process'[p] = state
      /\ \A q \in Processes \ {p} : process'[q] = Idle
  BY DEF AloneInv, VaultInv, VaultTypes
<1>2. \A q \in Processes \ {p} : process'[q].at \notin {"deleted", "write"}
  BY <1>1 DEF Idle
<1>3. \A i, j \in Ids' :
         rows'[i].env = rows'[j].env /\ rows'[i].name = rows'[j].name => i = j
  BY DEF AloneInv, Undisturbed
<1>4. \A q, r \in Processes : process'[q] # Idle /\ process'[r] # Idle => q = r
  BY <1>1
<1>5. \A q \in Processes :
         process'[q].at = "deleted" =>
             LiveNamed(process[q].env, process[q].item.name)' = {}
  BY <1>1, <1>2 DEF LiveNamed, Named, Live, Ids
<1>6. \A q \in Processes :
         process'[q].at = "write" /\ process'[q].base = NoBase =>
             Named(process[q].env, process[q].item.name)' = {}
  BY <1>1, <1>2 DEF Named, Ids
<1> QED BY <1>3, <1>4, <1>5, <1>6 DEF Undisturbed
LEMMA NamesStep == AloneInv /\ [Next]_vars => AloneInv'
<1> SUFFICES ASSUME AloneInv, [Next]_vars
             PROVE  ~overlapped' => Undisturbed'
  BY VaultStep DEF AloneInv
<1>1. /\ process \in [Processes ->
                         {Idle} \cup Choosing \cup Planning \cup Writing \cup Removing]
      /\ \A id \in Ids : id \in Nat \ {0}
  BY DEF AloneInv, VaultInv, VaultTypes, Numbered
<1>2. ASSUME NEW p \in Processes, NEW state, Begin(p, state), UNCHANGED rows,
             state.at \notin {"deleted", "write"}
      PROVE  ~overlapped' => Undisturbed'
  <2>1. /\ process' = [process EXCEPT ![p] = state] /\ Ids' = Ids
        /\ ~overlapped' => ~overlapped /\ \A q \in Processes \ {p} : process[q] = Idle
    BY <1>2 DEF Begin, Ids
  <2> QED BY <1>2, <2>1, AloneStep
<1>3. ASSUME NEW p \in Processes, process[p] # Idle, UNCHANGED overlapped
      PROVE  ~overlapped' => ~overlapped /\ \A q \in Processes \ {p} : process[q] = Idle
  BY <1>3 DEF AloneInv, Undisturbed
<1>4. ASSUME NEW p \in Processes, process[p] # Idle, NEW state, Become(p, state),
             Ids' = Ids,
             \A i \in Ids : rows'[i].env = rows[i].env /\ rows'[i].name = rows[i].name,
             state.at \notin {"deleted", "write"}
      PROVE  ~overlapped' => Undisturbed'
  <2>1. process' = [process EXCEPT ![p] = state] /\ UNCHANGED overlapped
    BY <1>4 DEF Become
  <2>2. ~overlapped' => ~overlapped /\ \A q \in Processes \ {p} : process[q] = Idle
    BY <1>3, <1>4, <2>1
  <2> QED BY <1>4, <2>1, <2>2, AloneStep
<1>5. ASSUME NEW p \in Processes, Start(p)
      PROVE  ~overlapped' => Undisturbed'
  <2>1. PICK state : Begin(p, state) /\ UNCHANGED rows /\ state.at \in {"next", "plan", "remove"}
    <3>1. PICK env \in Environments :
             \/ \E todo \in SUBSET Item : StartSet(p, env, todo)
             \/ \E name \in Names : StartRollback(p, env, name)
             \/ \E name \in Names : StartRemove(p, env, name)
             \/ \E src \in Environments : StartCopy(p, src, env)
      BY <1>5 DEF Start
    <3>2. ASSUME NEW todo, StartSet(p, env, todo)
          PROVE  \E state : Begin(p, state) /\ UNCHANGED rows /\ state.at \in {"next"}
      BY <3>2 DEF StartSet, Setting
    <3>3. ASSUME NEW name, StartRollback(p, env, name)
          PROVE  \E state : Begin(p, state) /\ UNCHANGED rows /\ state.at \in {"next"}
      BY <3>3 DEF StartRollback, Setting
    <3>4. ASSUME NEW name, StartRemove(p, env, name)
          PROVE  \E state : Begin(p, state) /\ UNCHANGED rows /\ state.at \in {"remove"}
      BY <3>4 DEF StartRemove
    <3>5. ASSUME NEW src, StartCopy(p, src, env)
          PROVE  \E state : Begin(p, state) /\ UNCHANGED rows /\ state.at \in {"plan"}
      BY <3>5 DEF StartCopy
    <3> QED BY <3>1, <3>2, <3>3, <3>4, <3>5
  <2> QED BY <1>2, <2>1
<1>6. ASSUME NEW p \in Processes, PlanCopy(p) \/ Done(p) \/ Stop(p)
      PROVE  ~overlapped' => Undisturbed'
  <2>1. PICK state : Become(p, state) /\ UNCHANGED rows /\ state.at \in {"next", "idle"}
    BY <1>6 DEF PlanCopy, Done, Stop, Setting, Idle
  <2>2. process[p] # Idle
    BY <1>6 DEF PlanCopy, Done, Stop, Idle
  <2> QED BY <1>4, <2>1, <2>2 DEF Ids
<1>7. ASSUME NEW p \in Processes, NEW item \in Item, FindLive(p, item)
      PROVE  ~overlapped' => Undisturbed'
  <2>1. PICK env, todo : env = process[p].env /\ todo = process[p].todo
    OBVIOUS
  <2>2. process[p] # Idle /\ UNCHANGED rows
    BY <1>7 DEF FindLive, Idle
  <2>3. ASSUME NEW id \in LiveNamed(env, item.name), Found(p, item, "write", id)
        PROVE  ~overlapped' => Undisturbed'
    <3>1. PICK state :
             /\ state.at = "write" /\ state.base = Base(id)
             /\ Become(p, state)
      <4>1. id # 0
        BY <1>1 DEF LiveNamed, Named
      <4> QED BY <2>3, <4>1 DEF Found
    <3>2. state.base # NoBase
      <4>1. id # 0
        BY <1>1 DEF LiveNamed, Named
      <4> QED BY <3>1, <4>1 DEF Base, NoBase
    <3>3. process' = [process EXCEPT ![p] = state] /\ UNCHANGED overlapped
      BY <3>1 DEF Become
    <3>4. ~overlapped' => ~overlapped /\ \A q \in Processes \ {p} : process[q] = Idle
      BY <1>3, <2>2, <3>3
    <3> QED BY <2>2, <3>1, <3>2, <3>3, <3>4, AloneStep DEF Ids
  <2>4. ASSUME LiveNamed(env, item.name) = {}, Found(p, item, "deleted", 0)
        PROVE  ~overlapped' => Undisturbed'
    <3>1. PICK state :
             /\ state.at = "deleted" /\ state.env = env /\ state.item = item
             /\ Become(p, state)
      BY <2>1, <2>4 DEF Found
    <3>2. LiveNamed(state.env, state.item.name)' = {}
      BY <2>2, <2>4, <3>1 DEF LiveNamed, Named, Live, Ids
    <3>3. process' = [process EXCEPT ![p] = state] /\ UNCHANGED overlapped
      BY <3>1 DEF Become
    <3>4. ~overlapped' => ~overlapped /\ \A q \in Processes \ {p} : process[q] = Idle
      BY <1>3, <2>2, <3>3
    <3> QED BY <2>2, <3>1, <3>2, <3>3, <3>4, AloneStep DEF Ids
  <2> QED BY <1>7, <2>1, <2>3, <2>4 DEF FindLive
<1>8. ASSUME NEW p \in Processes, FindDeleted(p)
      PROVE  ~overlapped' => Undisturbed'
  <2>1. PICK env, item : env = process[p].env /\ item = process[p].item
    OBVIOUS
  <2>2. process[p] # Idle /\ process[p].at = "deleted" /\ UNCHANGED rows
    BY <1>8 DEF FindDeleted, Idle
  <2>3. PICK id : /\ Found(p, item, "write", id)
                  /\ \/ id \in DeletedNamed(env, item.name)
                     \/ id = 0 /\ DeletedNamed(env, item.name) = {}
    BY <1>8, <2>1 DEF FindDeleted, Resurrectable
  <2>4. PICK state :
           /\ state.at = "write" /\ state.env = env /\ state.item = item
           /\ state.base = IF id = 0 THEN NoBase ELSE Base(id)
           /\ Become(p, state)
    BY <2>1, <2>3 DEF Found
  <2>5. process' = [process EXCEPT ![p] = state] /\ UNCHANGED overlapped
    BY <2>4 DEF Become
  <2>6. ~overlapped' => ~overlapped /\ \A q \in Processes \ {p} : process[q] = Idle
    BY <1>3, <2>2, <2>5
  <2>7. ASSUME ~overlapped', state.base = NoBase
        PROVE  Named(state.env, state.item.name)' = {}
    <3>1. id = 0
      BY <2>4, <2>7 DEF Base, NoBase
    <3>2. DeletedNamed(env, item.name) = {}
      BY <1>1, <2>3, <3>1 DEF DeletedNamed, Named
    <3>3. LiveNamed(env, item.name) = {}
      BY <2>1, <2>2, <2>6, <2>7 DEF AloneInv, Undisturbed
    <3>4. Named(env, item.name) = {}
      BY <3>2, <3>3 DEF DeletedNamed
    <3> QED BY <2>2, <2>4, <3>4 DEF Named, Ids
  <2> QED BY <2>2, <2>4, <2>5, <2>6, <2>7, AloneStep DEF Ids
<1>9. ASSUME NEW p \in Processes, InsertSecret(p)
      PROVE  ~overlapped' => Undisturbed'
  <2> SUFFICES ASSUME ~overlapped'
               PROVE  Undisturbed'
    OBVIOUS
  <2>1. /\ process[p] # Idle /\ process[p].at = "write" /\ process[p].base = NoBase
        /\ Written(p)
    <3>1. process[p].at = "write" /\ process[p].base = NoBase /\ Written(p)
      BY <1>9, Zenon DEF InsertSecret
    <3> QED BY <3>1 DEF Idle
  <2>2. ~overlapped /\ \A q \in Processes \ {p} : process[q] = Idle
    BY <1>3, <2>1 DEF Written, Become
  <2>3. PICK env, name : env = process[p].env /\ name = process[p].item.name
    OBVIOUS
  <2>4. PICK n \in Nat : Ids = 1 .. n
    BY DEF AloneInv, VaultInv, VaultTypes, Numbered
  <2>5. Cardinality(Ids) = n
    BY <2>4, FS_Interval
  <2>6. PICK id \in Nat : id = n + 1
    BY <2>4
  <2>7. /\ Ids' = 1 .. id
        /\ \A i \in Ids : rows'[i] = rows[i]
        /\ rows'[id].env = env /\ rows'[id].name = name
    BY <1>9, <2>3, <2>4, <2>5, <2>6 DEF InsertSecret, Ids
  <2>8. \A i \in Ids : ~(rows[i].env = env /\ rows[i].name = name)
    BY <2>1, <2>2, <2>3 DEF AloneInv, Undisturbed, Named
  <2>9. \A i, j \in Ids' :
           rows'[i].env = rows'[j].env /\ rows'[i].name = rows'[j].name => i = j
    <3>1. \A i \in Ids' : i \in Ids \/ i = id
      BY <2>4, <2>6, <2>7
    <3> QED BY <2>2, <2>7, <2>8, <3>1 DEF AloneInv, Undisturbed
  <2>10. /\ process'[p].at = "next"
         /\ \A q \in Processes \ {p} : process'[q] = Idle
    BY <1>1, <2>1, <2>2 DEF Written, Become, Setting
  <2>11. \A q \in Processes : process'[q].at \notin {"deleted", "write"}
    BY <2>10 DEF Idle
  <2> QED BY <2>9, <2>10, <2>11 DEF Undisturbed
<1>10. ASSUME NEW p \in Processes, UpdateSecret(p)
       PROVE  ~overlapped' => Undisturbed'
  <2>1. process[p] # Idle /\ process[p].base # NoBase /\ Written(p)
        /\ Current(process[p].base) /\ process[p].at = "write"
    <3>1. /\ process[p].base # NoBase /\ Written(p) /\ Current(process[p].base)
          /\ process[p].at = "write"
      BY <1>10, Zenon DEF UpdateSecret
    <3> QED BY <3>1 DEF Idle
  <2>2. process[p] \in Writing /\ process[p].base.id \in Ids
    BY <1>1, <2>1 DEF AloneInv, VaultInv, FoundHolds, Idle, Choosing, Planning, Removing
  <2>3. \A i \in Ids : rows[i] \in RowType
    BY DEF AloneInv, VaultInv, VaultTypes
  <2>4. /\ Ids' = Ids
        /\ \A i \in Ids : rows'[i].env = rows[i].env /\ rows'[i].name = rows[i].name
    BY <1>10, <2>2, <2>3 DEF UpdateSecret, Ids, RowType
  <2>5. PICK state : state.at = "next" /\ Become(p, state)
    BY <2>1 DEF Written, Setting
  <2> QED BY <1>4, <2>1, <2>4, <2>5
<1>11. ASSUME NEW p \in Processes, DeleteSecret(p)
       PROVE  ~overlapped' => Undisturbed'
  <2>1. process[p] # Idle /\ process[p].at = "remove" /\ Become(p, Idle)
    <3>1. process[p].at = "remove" /\ Become(p, Idle)
      BY <1>11, Zenon DEF DeleteSecret
    <3> QED BY <3>1 DEF Idle
  <2>2. process[p] \in Removing /\ process[p].id \in Ids
    BY <1>1, <2>1 DEF AloneInv, VaultInv, RemovesKnown, Idle, Choosing, Planning, Writing
  <2>3. \A i \in Ids : rows[i] \in RowType
    BY DEF AloneInv, VaultInv, VaultTypes
  <2>4. /\ Ids' = Ids
        /\ \A i \in Ids : rows'[i].env = rows[i].env /\ rows'[i].name = rows[i].name
    BY <1>11, <2>2, <2>3 DEF DeleteSecret, Ids, RowType
  <2>5. Idle.at \notin {"deleted", "write"}
    BY DEF Idle
  <2> QED BY <1>4, <2>1, <2>4, <2>5
<1>12. CASE UNCHANGED vars
  BY <1>12 DEF vars, AloneInv, Undisturbed, LiveNamed, Named, Live, Ids
<1> QED
  BY <1>5, <1>6, <1>7, <1>8, <1>9, <1>10, <1>11, <1>12 DEF Next, Step

(* As long as commands run one after the other, a name has one row at most, *)
(* live or deleted, in every environment.                                   *)
THEOREM NamesAreUnique == Spec => []OneSecretPerName
<1>1. Init => AloneInv
  <2>1. Init => Undisturbed
    <3> SUFFICES ASSUME Init
                 PROVE  Undisturbed
      OBVIOUS
    <3>1. Ids = {} /\ \A p \in Processes : process[p] = Idle /\ Idle.at = "idle"
      BY DEF Init, Ids, Idle
    <3> QED BY <3>1 DEF Undisturbed
  <2> QED BY <2>1, VaultInit DEF AloneInv
<1>2. AloneInv => OneSecretPerName
  <2> SUFFICES ASSUME Undisturbed, NEW env \in Environments, NEW name \in Names
               PROVE  Cardinality(Named(env, name)) <= 1
    BY DEF AloneInv, OneSecretPerName, NoDuplicates
  <2>1. CASE Named(env, name) = {}
    BY <2>1, FS_EmptySet
  <2>2. CASE Named(env, name) # {}
    <3>1. PICK i : i \in Named(env, name)
      BY <2>2
    <3>2. Named(env, name) = {i}
      BY <3>1 DEF Undisturbed, Named
    <3> QED BY <3>2, FS_Singleton
  <2> QED BY <2>1, <2>2
<1> QED BY <1>1, <1>2, NamesStep, PTL DEF Spec

=============================================================================
