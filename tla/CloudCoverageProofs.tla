-------------------------- MODULE CloudCoverageProofs --------------------------
(***************************************************************************)
(* The coverage store keeps what CoverageService promises, for any people, *)
(* sources, attempts and answers.  The invariant ties the four tables      *)
(* together: generations number a person's sources, so an attempt's        *)
(* bindings are the sources of its generation however many come later; a   *)
(* revision named after an attempt means that the attempt is completed and *)
(* will not change again; and a head named after an attempt means that no  *)
(* source came after it.                                                   *)
(***************************************************************************)
EXTENDS CloudCoverage, FiniteSetTheorems, WellFoundedInduction, TLAPS

Allocs == {b.alloc : b \in Bindings}

SourceRows ==
    [who : People, src : SourceIds, alloc : Allocs, op : RegOps,
     gen : Nat \ {0}, rev : Nat \ {0}]

AttemptRows ==
    [status : {"none", "pending", "superseded", "completed"},
     epoch : Nat, gen : Nat, expected : Nat, bound : SUBSET SourceIds,
     seen : Batches \cup {<< >>}, rev : Nat]

Published == AllProjections \cup {Unreconciled}

Entries == [op : Names, expected : Nat, proj : Published]

CoverageTypes ==
    /\ sources \subseteq SourceRows
    /\ coord \in [People -> [gen : Nat, epoch : Nat,
                             current : Attempts \cup {NoAttempt}]]
    /\ attempts \in [People -> [Attempts -> AttemptRows]]
    /\ head \in [People -> Nat]
    /\ DOMAIN revisions = People
    /\ \A p \in People : revisions[p] \in [1 .. head[p] -> Entries]

(* Generations number the sources without a gap at the top. *)
LatestGeneration ==
    \A p \in People : coord[p].gen > 0 =>
        \E r \in sources : r.who = p /\ r.gen = coord[p].gen

(* What a completed attempt has published, behind what it started from.     *)
HasReceipt(p, a) ==
    LET row == attempts[p][a] IN
    row.status = "completed" =>
        /\ row.rev = row.expected + 1
        /\ row.rev \in 1 .. head[p]
        /\ revisions[p][row.rev] =
              [op |-> CollectionName(a), expected |-> row.expected,
               proj |-> Combined(row.seen)]

AttemptSound(p, a) ==
    attempts[p][a].status # "none" =>
        /\ attempts[p][a].gen \in 1 .. coord[p].gen
        /\ ValidAttempt(p, a)
        /\ HasReceipt(p, a)

(* A revision named after an attempt is that of a completed one. *)
LedgerSound(p) ==
    \A n \in 1 .. head[p], a \in Attempts :
        revisions[p][n].op = CollectionName(a) =>
            attempts[p][a].status = "completed"

HeadSound(p) ==
    head[p] # 0 =>
        /\ Normal(revisions[p][head[p]].proj.facts)
        /\ \A a \in Attempts :
              revisions[p][head[p]].op = CollectionName(a) =>
                  /\ attempts[p][a].bound = Owned(p)
                  /\ revisions[p][head[p]].proj.status = "complete" =>
                        \A s \in Owned(p) : Answered(attempts[p][a].seen, s)

PersonSound(p) ==
    /\ \A a \in Attempts : AttemptSound(p, a)
    /\ LedgerSound(p)
    /\ HeadSound(p)

CoverageInv ==
    /\ CoverageTypes
    /\ RegistrationsValid
    /\ LatestGeneration
    /\ \A p \in People : PersonSound(p)

-----------------------------------------------------------------------------
(* Operators *)

LEMMA NamesDiffer ==
    ASSUME NEW o \in RegOps, NEW a \in Attempts, NEW d \in DirectOps
    PROVE  /\ RegistrationName(o) \in Names
           /\ CollectionName(a) \in Names
           /\ DirectName(d) \in Names
           /\ RegistrationName(o) # CollectionName(a)
           /\ DirectName(d) # CollectionName(a)
  BY DEF RegistrationName, CollectionName, DirectName, Names

LEMMA NamesAreInjective ==
    ASSUME NEW a \in Attempts, NEW b \in Attempts,
           CollectionName(a) = CollectionName(b)
    PROVE  a = b
  BY DEF CollectionName

(* Superseding touches the status of pending attempts only. *)
LEMMA SupersededRow ==
    ASSUME NEW row \in AttemptRows
    PROVE  /\ Superseded(row) \in AttemptRows
           /\ Superseded(row).epoch = row.epoch
           /\ Superseded(row).gen = row.gen
           /\ Superseded(row).expected = row.expected
           /\ Superseded(row).bound = row.bound
           /\ Superseded(row).seen = row.seen
           /\ Superseded(row).rev = row.rev
           /\ row.status # "pending" => Superseded(row) = row
           /\ row.status = "pending" => Superseded(row).status = "superseded"
  BY DEF Superseded, AttemptRows

(* Answers that stand together make facts that stand together. *)
LEMMA CombinedIsNormal ==
    ASSUME NEW seen \in Batches, NEW bound, Conclusive(seen, bound)
    PROVE  /\ Normal(Combined(seen).facts)
           /\ Combined(seen) \in AllProjections
           /\ Combined(seen).status = "complete" =>
                  \A s \in bound : Answered(seen, s)
<1>1. Combined(seen) \in AllProjections
  BY DEF AllProjections
<1>2. DOMAIN seen = bound
  BY DEF Conclusive
<1>3. CASE \A s \in DOMAIN seen : Answered(seen, s)
  <2>1. Combined(seen) = Complete(FactsSeen(seen))
    BY <1>3 DEF Combined
  <2>2. Normal(FactsSeen(seen))
    <3>1. ASSUME NEW f \in FactsSeen(seen)
          PROVE  WellFormed(f)
      BY <1>2 DEF FactsSeen, Conclusive, Normal
    <3>2. ASSUME NEW f \in FactsSeen(seen), NEW g \in FactsSeen(seen)
          PROVE  /\ f.cov = g.cov => f = g
                 /\ HasRenewal(f) /\ f.renewal = g.renewal
                       => RenewalIdentity(f) = RenewalIdentity(g)
      <4>1. PICK s \in bound : f \in seen[s].facts
        BY <1>2 DEF FactsSeen
      <4>2. PICK t \in bound : g \in seen[t].facts
        BY <1>2 DEF FactsSeen
      <4>3. CASE s = t
        BY <4>1, <4>2, <4>3 DEF Conclusive, Normal
      <4>4. CASE s # t
        BY <4>1, <4>2, <4>4 DEF Conclusive
      <4> QED BY <4>3, <4>4
    <3> QED BY <3>1, <3>2 DEF Normal
  <2> QED BY <1>1, <1>2, <1>3, <2>1, <2>2 DEF Complete
<1>4. CASE ~\A s \in DOMAIN seen : Answered(seen, s)
  <2>1. /\ Combined(seen).facts = {}
        /\ Combined(seen).status = "unavailable"
    BY <1>4 DEF Combined, Unreconciled, Unavailable
  <2>2. Normal({})
    BY DEF Normal
  <2> QED BY <1>1, <2>1, <2>2
<1> QED BY <1>3, <1>4

(* publish appends one entry and leaves the others, and the other people.   *)
LEMMA PublishAppends ==
    ASSUME CoverageTypes, NEW p \in People, NEW expected, NEW name \in Names,
           NEW proj \in Published, Publish(p, expected, name, proj)
    PROVE  /\ expected = head[p]
           /\ head' \in [People -> Nat]
           /\ head'[p] = head[p] + 1
           /\ DOMAIN revisions' = People
           /\ \A q \in People \ {p} :
                 head'[q] = head[q] /\ revisions'[q] = revisions[q]
           /\ \A q \in People : revisions'[q] \in [1 .. head'[q] -> Entries]
           /\ revisions'[p][head[p] + 1] =
                 [op |-> name, expected |-> expected, proj |-> proj]
           /\ \A n \in 1 .. head[p] : revisions'[p][n] = revisions[p][n]
           /\ \A n \in 1 .. head[p] : revisions[p][n].op # name
<1>1. /\ head[p] \in Nat /\ expected = head[p]
      /\ DOMAIN revisions[p] = 1 .. head[p]
      /\ \A n \in 1 .. head[p] : revisions[p][n] \in Entries
  BY DEF CoverageTypes, Publish, HeadIs
<1>2. /\ head' = [head EXCEPT ![p] = head[p] + 1]
      /\ ~Used(p, name)
  BY DEF Publish, NextRevision
<1>3. (1 .. head[p]) \cup {head[p] + 1} = 1 .. (head[p] + 1)
  BY <1>1
<1>4. revisions' = [revisions EXCEPT ![p] =
         [n \in 1 .. (head[p] + 1) |->
             IF n = head[p] + 1
             THEN [op |-> name, expected |-> expected, proj |-> proj]
             ELSE revisions[p][n]]]
  BY <1>1, <1>3 DEF Publish, NextRevision
<1>5. /\ head' \in [People -> Nat] /\ head'[p] = head[p] + 1
      /\ \A q \in People \ {p} : head'[q] = head[q]
  BY <1>1, <1>2 DEF CoverageTypes
<1>6. /\ DOMAIN revisions' = People
      /\ \A q \in People \ {p} : revisions'[q] = revisions[q]
      /\ revisions'[p] = [n \in 1 .. (head[p] + 1) |->
             IF n = head[p] + 1
             THEN [op |-> name, expected |-> expected, proj |-> proj]
             ELSE revisions[p][n]]
  BY <1>4 DEF CoverageTypes
<1>7. [op |-> name, expected |-> expected, proj |-> proj] \in Entries
  BY <1>1 DEF Entries
<1>8. revisions'[p] \in [1 .. head'[p] -> Entries]
  BY <1>1, <1>5, <1>6, <1>7
<1>9. \A q \in People : revisions'[q] \in [1 .. head'[q] -> Entries]
  BY <1>5, <1>6, <1>8 DEF CoverageTypes
<1>10. revisions'[p][head[p] + 1] =
           [op |-> name, expected |-> expected, proj |-> proj]
  BY <1>1, <1>6
<1>11. \A n \in 1 .. head[p] : revisions'[p][n] = revisions[p][n]
  BY <1>1, <1>6
<1>12. \A n \in 1 .. head[p] : revisions[p][n].op # name
  BY <1>1, <1>2 DEF Used
<1> QED BY <1>1, <1>5, <1>6, <1>9, <1>10, <1>11, <1>12

-----------------------------------------------------------------------------
(* What a step leaves alone *)

RowsOf(p) == {r \in sources : r.who = p}

(* A person whose rows did not change is as sound as before. *)
LEMMA BystanderSound ==
    ASSUME NEW q \in People, PersonSound(q),
           attempts'[q] = attempts[q], coord'[q] = coord[q],
           head'[q] = head[q], revisions'[q] = revisions[q],
           RowsOf(q)' = RowsOf(q)
    PROVE  PersonSound(q)'
<1>1. Owned(q)' = Owned(q)
  BY DEF Owned, RowsOf
<1>2. ASSUME NEW row
      PROVE  ValidBindings(q, row)' <=> ValidBindings(q, row)
  <2>1. {r \in sources' : r.who = q /\ r.gen <= row.gen}
            = {r \in sources : r.who = q /\ r.gen <= row.gen}
    BY DEF RowsOf
  <2> QED BY <2>1 DEF ValidBindings
<1>3. ASSUME NEW a \in Attempts
      PROVE  AttemptSound(q, a)'
  <2>1. AttemptSound(q, a)
    BY DEF PersonSound
  <2>2. HasReceipt(q, a) => HasReceipt(q, a)'
    BY DEF HasReceipt
  <2>3. ValidAttempt(q, a) => ValidAttempt(q, a)'
    BY <1>2 DEF ValidAttempt, ValidBindings
  <2> QED BY <2>1, <2>2, <2>3 DEF AttemptSound
<1>4. LedgerSound(q)'
  BY DEF PersonSound, LedgerSound
<1>5. HeadSound(q)'
  BY <1>1 DEF PersonSound, HeadSound
<1> QED BY <1>3, <1>4, <1>5 DEF PersonSound

(* The sources of a generation are there for good. *)
LEMMA BindingsStay ==
    ASSUME NEW p \in People, NEW row, NEW row1,
           ValidBindings(p, row), row1.gen = row.gen, row1.bound = row.bound,
           {r \in sources' : r.who = p /\ r.gen <= row.gen}
               = {r \in sources : r.who = p /\ r.gen <= row.gen}
    PROVE  LET rows == {r \in sources' : r.who = p /\ r.gen <= row1.gen} IN
           /\ row1.bound = {r.src : r \in rows}
           /\ \E r \in rows : r.gen = row1.gen
  BY DEF ValidBindings

-----------------------------------------------------------------------------
(* register_source *)

LEMMA RegisterKeeps ==
    ASSUME CoverageInv, NEW b \in Bindings, NEW o \in RegOps,
           RegisterSource(b, o)
    PROVE  CoverageInv'
<1>0. CoverageTypes /\ RegistrationsValid /\ LatestGeneration
  BY DEF CoverageInv
<1>1. PICK p \in People : p = b.who
  BY BindingsAssumption
<1>p. PersonSound(p)
  BY DEF CoverageInv
<1> DEFINE new == [who |-> p, src |-> b.src, alloc |-> b.alloc, op |-> o,
                   gen |-> coord[p].gen + 1, rev |-> head[p] + 1]
<1>2. /\ coord[p].gen \in Nat /\ head[p] \in Nat
      /\ \A a \in Attempts : attempts[p][a] \in AttemptRows
  BY <1>0, <1>1 DEF CoverageTypes
<1>3. new \in SourceRows
  BY <1>1, <1>2 DEF SourceRows, SourceIds, Allocs
<1>4. /\ sources' = sources \cup {new}
      /\ attempts' = [attempts EXCEPT ![p] = SupersedeAll(attempts[p])]
      /\ coord' = [coord EXCEPT ![p] =
                       [gen |-> coord[p].gen + 1, epoch |-> coord[p].epoch,
                        current |-> NoAttempt]]
      /\ Publish(p, head[p], RegistrationName(o), Unreconciled)
  <2>1. /\ sources' = sources \cup {new}
        /\ Publish(p, head[p], RegistrationName(o), Unreconciled)
    BY <1>1 DEF RegisterSource, NextRevision
  <2>2. attempts' = [attempts EXCEPT ![p] = SupersedeAll(attempts[p])]
    BY <1>1 DEF RegisterSource
  <2>3. coord' = [coord EXCEPT ![p] =
                     [gen |-> coord[p].gen + 1, epoch |-> coord[p].epoch,
                      current |-> NoAttempt]]
    BY <1>1 DEF RegisterSource
  <2> HIDE DEF new
  <2> QED BY <2>1, <2>2, <2>3
<1>5. /\ head' \in [People -> Nat] /\ head'[p] = head[p] + 1
      /\ DOMAIN revisions' = People
      /\ \A q \in People \ {p} :
            head'[q] = head[q] /\ revisions'[q] = revisions[q]
      /\ \A q \in People : revisions'[q] \in [1 .. head'[q] -> Entries]
      /\ revisions'[p][head[p] + 1] =
            [op |-> RegistrationName(o), expected |-> head[p],
             proj |-> Unreconciled]
      /\ \A n \in 1 .. head[p] : revisions'[p][n] = revisions[p][n]
  <2>1. RegistrationName(o) \in Names /\ Unreconciled \in Published
    BY DEF RegistrationName, Names, Published
  <2>2. Publish(p, head[p], RegistrationName(o), Unreconciled)
    BY <1>4
  <2>3. /\ head' \in [People -> Nat] /\ head'[p] = head[p] + 1
        /\ DOMAIN revisions' = People
    BY <1>0, <2>1, <2>2, PublishAppends
  <2>4. \A q \in People \ {p} :
            head'[q] = head[q] /\ revisions'[q] = revisions[q]
    BY <1>0, <2>1, <2>2, PublishAppends
  <2>5. \A q \in People : revisions'[q] \in [1 .. head'[q] -> Entries]
    BY <1>0, <2>1, <2>2, PublishAppends
  <2>6. revisions'[p][head[p] + 1] =
            [op |-> RegistrationName(o), expected |-> head[p],
             proj |-> Unreconciled]
    BY <1>0, <2>1, <2>2, PublishAppends
  <2>7. \A n \in 1 .. head[p] : revisions'[p][n] = revisions[p][n]
    BY <1>0, <2>1, <2>2, PublishAppends
  <2> QED BY <2>3, <2>4, <2>5, <2>6, <2>7
<1>6. /\ coord' \in [People -> [gen : Nat, epoch : Nat,
                               current : Attempts \cup {NoAttempt}]]
      /\ coord'[p].gen = coord[p].gen + 1
      /\ \A q \in People \ {p} : coord'[q] = coord[q]
  <2>1. coord \in [People -> [gen : Nat, epoch : Nat,
                             current : Attempts \cup {NoAttempt}]]
    BY <1>0 DEF CoverageTypes
  <2>2. [gen |-> coord[p].gen + 1, epoch |-> coord[p].epoch,
         current |-> NoAttempt]
            \in [gen : Nat, epoch : Nat, current : Attempts \cup {NoAttempt}]
    BY <1>1, <1>2, <2>1
  <2> QED BY <1>1, <1>4, <2>1, <2>2
<1>7. /\ \A a \in Attempts : attempts'[p][a] = Superseded(attempts[p][a])
      /\ \A q \in People \ {p} : attempts'[q] = attempts[q]
      /\ attempts' \in [People -> [Attempts -> AttemptRows]]
  <2>1. /\ \A a \in Attempts : attempts'[p][a] = Superseded(attempts[p][a])
        /\ \A q \in People \ {p} : attempts'[q] = attempts[q]
    BY <1>0, <1>1, <1>4 DEF CoverageTypes, SupersedeAll
  <2>2. SupersedeAll(attempts[p]) \in [Attempts -> AttemptRows]
    BY <1>2, SupersededRow DEF SupersedeAll
  <2> QED BY <1>0, <1>1, <1>4, <2>1, <2>2 DEF CoverageTypes
<1>8. CoverageTypes'
  <2> HIDE DEF new
  <2> QED BY <1>0, <1>3, <1>4, <1>5, <1>6, <1>7 DEF CoverageTypes
<1>9. /\ \A row \in sources : /\ row.src # b.src /\ row.alloc # b.alloc
                              /\ ~(row.who = p /\ row.op = o)
  BY <1>1 DEF RegisterSource, Unclaimed
<1>10. RegistrationsValid'
  <2>1. ASSUME NEW row \in sources
        PROVE  /\ row.who \in People
               /\ row.rev \in 1 .. head[row.who]
               /\ revisions[row.who][row.rev].op = RegistrationName(row.op)
               /\ row.gen \in 1 .. coord[row.who].gen
               /\ \A other \in sources :
                     \/ other = row
                     \/ /\ other.src # row.src /\ other.alloc # row.alloc
                        /\ other.who = row.who =>
                              other.gen # row.gen /\ other.op # row.op
    BY <1>0 DEF RegistrationsValid, CoverageTypes, SourceRows
  <2>2. ASSUME NEW row \in sources
        PROVE  /\ row.rev \in DOMAIN revisions'[row.who]
               /\ revisions'[row.who][row.rev].op = RegistrationName(row.op)
               /\ row.gen \in 1 .. coord'[row.who].gen
    <3> DEFINE q == row.who
    <3>1. q \in People /\ row.rev \in 1 .. head[q] /\ row.gen \in 1 .. coord[q].gen
      BY <2>1
    <3>2. DOMAIN revisions'[q] = 1 .. head'[q]
      BY <1>5, <3>1
    <3>3. /\ row.rev \in 1 .. head'[q]
          /\ revisions'[q][row.rev] = revisions[q][row.rev]
          /\ row.gen \in 1 .. coord'[q].gen
      <4> HIDE DEF q
      <4>1. CASE q = p
        BY <1>2, <1>5, <1>6, <3>1, <4>1
      <4>2. CASE q # p
        BY <1>5, <1>6, <3>1, <4>2
      <4> QED BY <4>1, <4>2
    <3> QED BY <2>1, <3>2, <3>3
  <2>3. /\ new.rev \in DOMAIN revisions'[new.who]
        /\ revisions'[new.who][new.rev].op = RegistrationName(new.op)
        /\ new.gen \in 1 .. coord'[new.who].gen
    BY <1>1, <1>2, <1>5, <1>6
  <2>4. ASSUME NEW row \in sources
        PROVE  /\ new.src # row.src /\ new.alloc # row.alloc
               /\ new.who = row.who => new.gen # row.gen /\ new.op # row.op
    BY <1>2, <1>9, <2>1
  <2> HIDE DEF new
  <2> QED BY <1>4, <2>1, <2>2, <2>3, <2>4 DEF RegistrationsValid
<1>11. LatestGeneration'
  <2>1. ASSUME NEW q \in People, coord'[q].gen > 0
        PROVE  \E r \in sources' : r.who = q /\ r.gen = coord'[q].gen
    <3>1. CASE q = p
      <4>1. new \in sources' /\ new.who = p /\ new.gen = coord[p].gen + 1
        BY <1>4
      <4> QED BY <1>6, <3>1, <4>1
    <3>2. CASE q # p
      BY <1>0, <1>4, <1>6, <2>1, <3>2 DEF LatestGeneration
    <3> QED BY <3>1, <3>2
  <2> QED BY <2>1 DEF LatestGeneration
<1>12. ASSUME NEW q \in People \ {p}
       PROVE  PersonSound(q)'
  <2>1. RowsOf(q)' = RowsOf(q)
    BY <1>4 DEF RowsOf
  <2>2. PersonSound(q)
    BY DEF CoverageInv
  <2> QED BY <1>5, <1>6, <1>7, <2>1, <2>2, BystanderSound
<1>13. PersonSound(p)'
  <2>1. ASSUME NEW a \in Attempts
        PROVE  AttemptSound(p, a)'
    <3> DEFINE row == attempts[p][a]
    <3> SUFFICES ASSUME attempts'[p][a].status # "none"
                 PROVE  /\ attempts'[p][a].gen \in 1 .. coord'[p].gen
                        /\ ValidAttempt(p, a)'
                        /\ HasReceipt(p, a)'
      BY DEF AttemptSound
    <3>1. /\ row \in AttemptRows
          /\ attempts'[p][a] = Superseded(row)
      BY <1>2, <1>7
    <3>2. /\ attempts'[p][a].gen = row.gen
          /\ attempts'[p][a].expected = row.expected
          /\ attempts'[p][a].bound = row.bound
          /\ attempts'[p][a].seen = row.seen
          /\ attempts'[p][a].rev = row.rev
          /\ attempts'[p][a].status = "completed" <=> row.status = "completed"
          /\ row.status # "none"
      BY <3>1, SupersededRow
    <3>3. /\ row.gen \in 1 .. coord[p].gen
          /\ ValidAttempt(p, a)
          /\ HasReceipt(p, a)
      BY <1>p, <3>2 DEF PersonSound, AttemptSound
    <3>4. {r \in sources' : r.who = p /\ r.gen <= row.gen}
              = {r \in sources : r.who = p /\ r.gen <= row.gen}
      <4>1. ~(new.gen <= row.gen)
        BY <1>2, <3>3
      <4> HIDE DEF new
      <4> QED BY <1>4, <4>1
    <3>5. ValidBindings(p, attempts[p][a])' 
      <4>1. ValidBindings(p, row)
        BY <3>3 DEF ValidAttempt
      <4> QED BY <1>1, <3>2, <3>4, <4>1, BindingsStay DEF ValidBindings
    <3>6. ValidAttempt(p, a)'
      BY <3>2, <3>3, <3>5 DEF ValidAttempt, ValidReceipt, ValidResult
    <3>7. HasReceipt(p, a)'
      BY <1>2, <1>5, <3>2, <3>3 DEF HasReceipt
    <3> QED BY <1>2, <1>6, <3>2, <3>3, <3>6, <3>7
  <2>2. LedgerSound(p)'
    <3> SUFFICES ASSUME NEW n \in 1 .. head'[p], NEW a \in Attempts,
                        revisions'[p][n].op = CollectionName(a)
                 PROVE  attempts'[p][a].status = "completed"
      BY DEF LedgerSound
    <3>1. n # head[p] + 1
      BY <1>5, NamesDiffer DEF RegistrationName, CollectionName
    <3>2. n \in 1 .. head[p]
      BY <1>2, <1>5, <3>1
    <3>3. attempts[p][a].status = "completed"
      BY <1>p, <1>5, <3>2 DEF PersonSound, LedgerSound
    <3> QED BY <1>2, <1>7, <3>3, SupersededRow
  <2>3. HeadSound(p)'
    <3>1. Normal(Unreconciled.facts)
      BY DEF Normal, Unreconciled, Unavailable
    <3>2. \A a \in Attempts : RegistrationName(o) # CollectionName(a)
      BY DEF RegistrationName, CollectionName
    <3> QED BY <1>5, <3>1, <3>2 DEF HeadSound
  <2> QED BY <2>1, <2>2, <2>3 DEF PersonSound
<1> QED BY <1>8, <1>10, <1>11, <1>12, <1>13 DEF CoverageInv

-----------------------------------------------------------------------------
(* begin_collection *)

LEMMA BeginKeeps ==
    ASSUME CoverageInv, NEW p \in People, NEW a \in Attempts,
           BeginCollection(p, a)
    PROVE  CoverageInv'
<1>0. /\ CoverageTypes /\ RegistrationsValid /\ LatestGeneration
      /\ PersonSound(p)
  BY DEF CoverageInv
<1>1. /\ coord[p].gen \in Nat \ {0} /\ coord[p].epoch \in Nat
      /\ head[p] \in Nat
      /\ \A b \in Attempts : attempts[p][b] \in AttemptRows
      /\ attempts[p][a].status = "none"
  BY <1>0 DEF CoverageTypes, BeginCollection
<1>2. /\ sources' = sources /\ head' = head /\ revisions' = revisions
      /\ coord' = [coord EXCEPT ![p] = [gen |-> coord[p].gen,
                                       epoch |-> coord[p].epoch + 1,
                                       current |-> a]]
  BY DEF BeginCollection
<1>3. /\ coord' \in [People -> [gen : Nat, epoch : Nat,
                               current : Attempts \cup {NoAttempt}]]
      /\ coord'[p].gen = coord[p].gen
      /\ \A q \in People \ {p} : coord'[q] = coord[q]
  BY <1>0, <1>1, <1>2 DEF CoverageTypes
<1>4. NewAttempt(p) =
         [status |-> "pending", epoch |-> coord[p].epoch + 1,
          gen |-> coord[p].gen, expected |-> head[p], bound |-> Owned(p),
          seen |-> << >>, rev |-> 0]
  BY DEF NewAttempt
<1>5. NewAttempt(p) \in AttemptRows
  <2>1. Owned(p) \subseteq SourceIds
    BY <1>0 DEF CoverageTypes, Owned, SourceRows
  <2> QED BY <1>1, <1>4, <2>1 DEF AttemptRows
<1>6. /\ attempts'[p][a] = NewAttempt(p)
      /\ \A b \in Attempts \ {a} :
            \/ attempts'[p][b] = attempts[p][b]
            \/ attempts'[p][b] = Superseded(attempts[p][b])
      /\ \A q \in People \ {p} : attempts'[q] = attempts[q]
      /\ attempts' \in [People -> [Attempts -> AttemptRows]]
  <2> DEFINE next == [b \in Attempts |->
                         IF b = a THEN NewAttempt(p)
                         ELSE IF b = coord[p].current
                         THEN Superseded(attempts[p][b])
                         ELSE attempts[p][b]]
  <2>1. attempts' = [attempts EXCEPT ![p] = next]
    BY DEF BeginCollection
  <2>2. next \in [Attempts -> AttemptRows]
    BY <1>1, <1>5, SupersededRow
  <2>3. /\ next[a] = NewAttempt(p)
        /\ \A b \in Attempts \ {a} :
              \/ next[b] = attempts[p][b]
              \/ next[b] = Superseded(attempts[p][b])
    OBVIOUS
  <2> HIDE DEF next
  <2>4. /\ attempts'[p] = next
        /\ \A q \in People \ {p} : attempts'[q] = attempts[q]
        /\ attempts' \in [People -> [Attempts -> AttemptRows]]
    BY <1>0, <2>1, <2>2 DEF CoverageTypes
  <2> QED BY <2>3, <2>4
<1>7. CoverageTypes'
  BY <1>0, <1>2, <1>3, <1>6 DEF CoverageTypes
<1>8. RegistrationsValid'
  <2>1. \A row \in sources : coord'[row.who].gen = coord[row.who].gen
    BY <1>0, <1>3 DEF CoverageTypes, SourceRows
  <2> QED BY <1>0, <1>2, <2>1 DEF RegistrationsValid
<1>9. LatestGeneration'
  BY <1>0, <1>2, <1>3 DEF LatestGeneration
<1>10. ASSUME NEW q \in People \ {p}
       PROVE  PersonSound(q)'
  <2>1. RowsOf(q)' = RowsOf(q)
    BY <1>2 DEF RowsOf
  <2>2. PersonSound(q)
    BY DEF CoverageInv
  <2> QED BY <1>2, <1>3, <1>6, <2>1, <2>2, BystanderSound
<1>11. PersonSound(p)'
  <2>1. AttemptSound(p, a)'
    <3>1. ValidBindings(p, attempts[p][a])'
      <4>1. \A r \in sources : r.who = p => r.gen <= coord[p].gen
        BY <1>0, <1>1 DEF RegistrationsValid
      <4>2. {r \in sources : r.who = p /\ r.gen <= coord[p].gen} = RowsOf(p)
        BY <4>1 DEF RowsOf
      <4>3. Owned(p) = {r.src : r \in RowsOf(p)}
        BY DEF Owned, RowsOf
      <4>4. \E r \in RowsOf(p) : r.gen = coord[p].gen
        BY <1>0, <1>1 DEF LatestGeneration, RowsOf
      <4> QED BY <1>2, <1>4, <1>6, <4>2, <4>3, <4>4 DEF ValidBindings
    <3> QED BY <1>1, <1>3, <1>4, <1>6, <3>1
            DEF AttemptSound, ValidAttempt, ValidReceipt, ValidResult, HasReceipt
  <2>2. ASSUME NEW b \in Attempts \ {a}
        PROVE  AttemptSound(p, b)'
    <3>1. /\ attempts'[p][b].gen = attempts[p][b].gen
          /\ attempts'[p][b].expected = attempts[p][b].expected
          /\ attempts'[p][b].bound = attempts[p][b].bound
          /\ attempts'[p][b].seen = attempts[p][b].seen
          /\ attempts'[p][b].rev = attempts[p][b].rev
          /\ attempts'[p][b].status = "completed" <=>
                attempts[p][b].status = "completed"
          /\ attempts[p][b].status = "none" => attempts'[p][b].status = "none"
      BY <1>1, <1>6, SupersededRow
    <3>2. AttemptSound(p, b)
      BY <1>0 DEF PersonSound
    <3> QED BY <1>2, <1>3, <3>1, <3>2
            DEF AttemptSound, ValidAttempt, ValidBindings, ValidReceipt,
                ValidResult, HasReceipt
  <2>3. ASSUME NEW b \in Attempts, attempts[p][b].status = "completed"
        PROVE  attempts'[p][b] = attempts[p][b]
    BY <1>1, <1>6, <2>3, SupersededRow
  <2>4. LedgerSound(p)'
    BY <1>0, <1>2, <2>3 DEF PersonSound, LedgerSound
  <2>5. HeadSound(p)'
    <3>1. ASSUME NEW b \in Attempts, head[p] # 0,
                 revisions[p][head[p]].op = CollectionName(b)
          PROVE  attempts'[p][b] = attempts[p][b]
      <4>1. attempts[p][b].status = "completed"
        BY <1>0, <1>1, <3>1 DEF PersonSound, LedgerSound
      <4> QED BY <2>3, <4>1
    <3>2. Owned(p)' = Owned(p)
      BY <1>2 DEF Owned
    <3> QED BY <1>0, <1>2, <3>1, <3>2 DEF PersonSound, HeadSound
  <2> QED BY <2>1, <2>2, <2>4, <2>5 DEF PersonSound
<1> QED BY <1>7, <1>8, <1>9, <1>10, <1>11 DEF CoverageInv

-----------------------------------------------------------------------------
(* finish_collection *)

(* The bindings of the latest generation are the person's sources. *)
LEMMA LatestBindings ==
    ASSUME CoverageTypes, RegistrationsValid, NEW p \in People, NEW row,
           ValidBindings(p, row), row.gen = coord[p].gen
    PROVE  row.bound = Owned(p) /\ Owned(p) # {}
<1>1. coord[p].gen \in Nat
  BY DEF CoverageTypes
<1>2. \A r \in sources : r.who = p => r.gen <= coord[p].gen
  BY <1>1 DEF RegistrationsValid
<1>3. {r \in sources : r.who = p /\ r.gen <= row.gen} = RowsOf(p)
  BY <1>2 DEF RowsOf
<1>4. Owned(p) = {r.src : r \in RowsOf(p)}
  BY DEF Owned, RowsOf
<1> QED BY <1>3, <1>4 DEF ValidBindings

LEMMA FinishKeeps ==
    ASSUME CoverageInv, NEW p \in People, NEW a \in Attempts,
           NEW seen \in Batches, FinishCollection(p, a, seen)
    PROVE  CoverageInv'
<1> DEFINE row == attempts[p][a]
<1>0. /\ CoverageTypes /\ RegistrationsValid /\ LatestGeneration
      /\ PersonSound(p)
  BY DEF CoverageInv
<1>1. /\ coord[p].gen \in Nat /\ coord[p].epoch \in Nat /\ head[p] \in Nat
      /\ row \in AttemptRows
      /\ row.status = "pending" /\ row.gen = coord[p].gen
      /\ ValidAttempt(p, a)
      /\ Conclusive(seen, row.bound)
      /\ sources' = sources
      /\ Publish(p, row.expected, CollectionName(a), Combined(seen))
  BY <1>0 DEF CoverageTypes, FinishCollection, Current
<1>2. /\ Combined(seen) \in Published
      /\ Normal(Combined(seen).facts)
      /\ Combined(seen).status = "complete" =>
             \A s \in row.bound : Answered(seen, s)
  BY <1>1, CombinedIsNormal DEF Published
<1>3. CollectionName(a) \in Names
  BY DEF CollectionName, Names
<1>4. /\ head' \in [People -> Nat] /\ head'[p] = head[p] + 1
      /\ DOMAIN revisions' = People /\ row.expected = head[p]
  BY <1>0, <1>1, <1>2, <1>3, PublishAppends
<1>5. \A q \in People \ {p} :
          head'[q] = head[q] /\ revisions'[q] = revisions[q]
  BY <1>0, <1>1, <1>2, <1>3, PublishAppends
<1>6. \A q \in People : revisions'[q] \in [1 .. head'[q] -> Entries]
  BY <1>0, <1>1, <1>2, <1>3, PublishAppends
<1>7. revisions'[p][head[p] + 1] =
          [op |-> CollectionName(a), expected |-> row.expected,
           proj |-> Combined(seen)]
  BY <1>0, <1>1, <1>2, <1>3, PublishAppends
<1>8. \A n \in 1 .. head[p] : revisions'[p][n] = revisions[p][n]
  BY <1>0, <1>1, <1>2, <1>3, PublishAppends
<1>9. /\ coord' \in [People -> [gen : Nat, epoch : Nat,
                               current : Attempts \cup {NoAttempt}]]
      /\ coord'[p].gen = coord[p].gen
      /\ \A q \in People \ {p} : coord'[q] = coord[q]
  BY <1>0 DEF CoverageTypes, FinishCollection
<1>10. /\ attempts'[p][a].status = "completed"
       /\ attempts'[p][a].seen = seen
       /\ attempts'[p][a].rev = head[p] + 1
       /\ attempts'[p][a].expected = row.expected
       /\ attempts'[p][a].bound = row.bound
       /\ attempts'[p][a].gen = row.gen
       /\ \A b \in Attempts \ {a} : attempts'[p][b] = attempts[p][b]
       /\ \A q \in People \ {p} : attempts'[q] = attempts[q]
       /\ attempts' \in [People -> [Attempts -> AttemptRows]]
  <2> DEFINE done == [row EXCEPT !.status = "completed", !.seen = seen,
                                 !.rev = head[p] + 1]
  <2>1. attempts' = [attempts EXCEPT ![p] = [attempts[p] EXCEPT ![a] = done]]
    BY DEF FinishCollection, NextRevision
  <2>2. /\ done.status = "completed" /\ done.seen = seen
        /\ done.rev = head[p] + 1 /\ done.expected = row.expected
        /\ done.bound = row.bound /\ done.gen = row.gen
    BY <1>1 DEF AttemptRows
  <2>3. done \in AttemptRows
    <3>1. PICK n \in Nat : n = head[p] + 1
      BY <1>1
    <3>2. [row EXCEPT !.status = "completed", !.seen = seen, !.rev = n]
              \in AttemptRows
      BY <1>1 DEF AttemptRows
    <3> QED BY <3>1, <3>2
  <2> HIDE DEF done
  <2>4. [attempts[p] EXCEPT ![a] = done] \in [Attempts -> AttemptRows]
    BY <1>0, <2>3 DEF CoverageTypes
  <2>5. attempts' \in [People -> [Attempts -> AttemptRows]]
    BY <1>0, <2>1, <2>4 DEF CoverageTypes
  <2>6. /\ attempts'[p][a] = done
        /\ \A b \in Attempts \ {a} : attempts'[p][b] = attempts[p][b]
        /\ \A q \in People \ {p} : attempts'[q] = attempts[q]
    BY <1>0, <2>1 DEF CoverageTypes
  <2> QED BY <2>2, <2>5, <2>6
<1>11. CoverageTypes'
  BY <1>0, <1>1, <1>4, <1>6, <1>9, <1>10 DEF CoverageTypes
<1>12. RegistrationsValid'
  <2>1. ASSUME NEW r \in sources
        PROVE  /\ r.rev \in DOMAIN revisions'[r.who]
               /\ revisions'[r.who][r.rev] = revisions[r.who][r.rev]
               /\ coord'[r.who].gen = coord[r.who].gen
    <3>1. r.who \in People /\ r.rev \in 1 .. head[r.who]
      BY <1>0 DEF CoverageTypes, RegistrationsValid, SourceRows
    <3>2. CASE r.who = p
      <4>1. r.rev \in 1 .. head'[p] /\ DOMAIN revisions'[p] = 1 .. head'[p]
        BY <1>1, <1>4, <1>6, <3>1, <3>2
      <4> QED BY <1>8, <1>9, <3>1, <3>2, <4>1
    <3>3. CASE r.who # p
      BY <1>0, <1>5, <1>9, <3>1, <3>3 DEF CoverageTypes
    <3> QED BY <3>2, <3>3
  <2> QED BY <1>0, <1>1, <2>1 DEF RegistrationsValid
<1>13. LatestGeneration'
  BY <1>0, <1>1, <1>9 DEF LatestGeneration
<1>14. ASSUME NEW q \in People \ {p}
       PROVE  PersonSound(q)'
  <2>1. RowsOf(q)' = RowsOf(q)
    BY <1>1 DEF RowsOf
  <2>2. PersonSound(q)
    BY DEF CoverageInv
  <2> QED BY <1>5, <1>9, <1>10, <2>1, <2>2, BystanderSound
<1>15. PersonSound(p)'
  <2>1. AttemptSound(p, a)'
    <3>1. ValidBindings(p, attempts[p][a])'
      BY <1>1, <1>10 DEF ValidAttempt, ValidBindings
    <3>2. ValidAttempt(p, a)'
      BY <1>1, <1>10, <3>1 DEF ValidAttempt, ValidReceipt, ValidResult
    <3>3. HasReceipt(p, a)'
      BY <1>1, <1>4, <1>7, <1>10 DEF HasReceipt
    <3>4. row.gen \in 1 .. coord[p].gen
      BY <1>0, <1>1 DEF PersonSound, AttemptSound
    <3> QED BY <1>9, <1>10, <3>2, <3>3, <3>4 DEF AttemptSound
  <2>2. ASSUME NEW b \in Attempts \ {a}
        PROVE  AttemptSound(p, b)'
    <3>1. AttemptSound(p, b) /\ attempts'[p][b] = attempts[p][b]
      BY <1>0, <1>10 DEF PersonSound
    <3>2. HasReceipt(p, b) => HasReceipt(p, b)'
      BY <1>1, <1>4, <1>8, <3>1 DEF HasReceipt
    <3>3. ValidAttempt(p, b) => ValidAttempt(p, b)'
      BY <1>1, <3>1 DEF ValidAttempt, ValidBindings, ValidReceipt, ValidResult
    <3> QED BY <1>9, <3>1, <3>2, <3>3 DEF AttemptSound
  <2>3. LedgerSound(p)'
    <3> SUFFICES ASSUME NEW n \in 1 .. head'[p], NEW b \in Attempts,
                        revisions'[p][n].op = CollectionName(b)
                 PROVE  attempts'[p][b].status = "completed"
      BY DEF LedgerSound
    <3>1. CASE b = a
      BY <1>10, <3>1
    <3>2. CASE b # a
      <4>1. n # head[p] + 1
        BY <1>7, <3>2, NamesAreInjective
      <4>2. n \in 1 .. head[p]
        BY <1>1, <1>4, <4>1
      <4> QED BY <1>0, <1>8, <1>10, <3>2, <4>2 DEF PersonSound, LedgerSound
    <3> QED BY <3>1, <3>2
  <2>4. HeadSound(p)'
    <3>1. row.bound = Owned(p)
      BY <1>0, <1>1, LatestBindings DEF ValidAttempt
    <3>2. Owned(p)' = Owned(p)
      BY <1>1 DEF Owned
    <3>3. revisions'[p][head'[p]] =
             [op |-> CollectionName(a), expected |-> row.expected,
              proj |-> Combined(seen)]
      BY <1>4, <1>7
    <3>4. ASSUME NEW b \in Attempts,
                 revisions'[p][head'[p]].op = CollectionName(b)
          PROVE  b = a
      BY <3>3, <3>4, NamesAreInjective
    <3>5. \A s \in Owned(p) :
              Combined(seen).status = "complete" => Answered(seen, s)
      BY <1>2, <3>1
    <3>6. \A s : Answered(attempts'[p][a].seen, s) <=> Answered(seen, s)
      BY <1>10
    <3>7. /\ revisions'[p][head'[p]].proj = Combined(seen)
          /\ attempts'[p][a].bound = Owned(p)
      BY <1>10, <3>1, <3>3
    <3> HIDE DEF row
    <3> QED BY <1>2, <1>10, <3>2, <3>4, <3>5, <3>7 DEF HeadSound, Answered
  <2> QED BY <2>1, <2>2, <2>3, <2>4 DEF PersonSound
<1> QED BY <1>11, <1>12, <1>13, <1>14, <1>15 DEF CoverageInv

-----------------------------------------------------------------------------
(* Direct publishers *)

LEMMA DirectKeeps ==
    ASSUME CoverageInv, NEW p \in People, NEW d \in DirectOps, NEW expected,
           NEW proj \in Published, Normal(proj.facts),
           Publish(p, expected, DirectName(d), proj),
           UNCHANGED <<sources, coord, attempts>>
    PROVE  CoverageInv'
<1>0. /\ CoverageTypes /\ RegistrationsValid /\ LatestGeneration
      /\ PersonSound(p)
  BY DEF CoverageInv
<1>1. head[p] \in Nat
  BY <1>0 DEF CoverageTypes
<1>2. DirectName(d) \in Names
  BY DEF DirectName, Names
<1>3. /\ head' \in [People -> Nat] /\ head'[p] = head[p] + 1
      /\ DOMAIN revisions' = People
  BY <1>0, <1>2, PublishAppends
<1>4. \A q \in People \ {p} :
          head'[q] = head[q] /\ revisions'[q] = revisions[q]
  BY <1>0, <1>2, PublishAppends
<1>5. \A q \in People : revisions'[q] \in [1 .. head'[q] -> Entries]
  BY <1>0, <1>2, PublishAppends
<1>6. revisions'[p][head[p] + 1] =
          [op |-> DirectName(d), expected |-> expected, proj |-> proj]
  BY <1>0, <1>2, PublishAppends
<1>7. \A n \in 1 .. head[p] : revisions'[p][n] = revisions[p][n]
  BY <1>0, <1>2, PublishAppends
<1>8. CoverageTypes'
  BY <1>0, <1>3, <1>5 DEF CoverageTypes
<1>9. RegistrationsValid'
  <2>1. ASSUME NEW r \in sources
        PROVE  /\ r.rev \in DOMAIN revisions'[r.who]
               /\ revisions'[r.who][r.rev] = revisions[r.who][r.rev]
    <3>1. r.who \in People /\ r.rev \in 1 .. head[r.who]
      BY <1>0 DEF CoverageTypes, RegistrationsValid, SourceRows
    <3>2. CASE r.who = p
      <4>1. r.rev \in 1 .. head'[p] /\ DOMAIN revisions'[p] = 1 .. head'[p]
        BY <1>1, <1>3, <1>5, <3>1, <3>2
      <4> QED BY <1>7, <3>1, <3>2, <4>1
    <3>3. CASE r.who # p
      BY <1>0, <1>4, <3>1, <3>3 DEF CoverageTypes
    <3> QED BY <3>2, <3>3
  <2> QED BY <1>0, <2>1 DEF RegistrationsValid
<1>10. LatestGeneration'
  BY <1>0 DEF LatestGeneration
<1>11. ASSUME NEW q \in People \ {p}
       PROVE  PersonSound(q)'
  <2>1. PersonSound(q) /\ RowsOf(q)' = RowsOf(q)
    BY DEF CoverageInv, RowsOf
  <2> QED BY <1>4, <2>1, BystanderSound
<1>12. PersonSound(p)'
  <2>1. ASSUME NEW b \in Attempts
        PROVE  AttemptSound(p, b)'
    <3>1. AttemptSound(p, b)
      BY <1>0 DEF PersonSound
    <3>2. HasReceipt(p, b) => HasReceipt(p, b)'
      BY <1>1, <1>3, <1>7 DEF HasReceipt
    <3>3. ValidAttempt(p, b) => ValidAttempt(p, b)'
      BY DEF ValidAttempt, ValidBindings, ValidReceipt, ValidResult
    <3> QED BY <3>1, <3>2, <3>3 DEF AttemptSound
  <2>2. \A b \in Attempts : DirectName(d) # CollectionName(b)
    BY DEF DirectName, CollectionName
  <2>3. LedgerSound(p)'
    <3> SUFFICES ASSUME NEW n \in 1 .. head'[p], NEW b \in Attempts,
                        revisions'[p][n].op = CollectionName(b)
                 PROVE  attempts'[p][b].status = "completed"
      BY DEF LedgerSound
    <3>1. n # head[p] + 1
      BY <1>6, <2>2
    <3>2. n \in 1 .. head[p]
      BY <1>1, <1>3, <3>1
    <3> QED BY <1>0, <1>7, <3>2 DEF PersonSound, LedgerSound
  <2>4. HeadSound(p)'
    BY <1>3, <1>6, <2>2 DEF HeadSound
  <2> QED BY <2>1, <2>3, <2>4 DEF PersonSound
<1> QED BY <1>8, <1>9, <1>10, <1>11, <1>12 DEF CoverageInv

-----------------------------------------------------------------------------
(* Every step keeps the invariant *)

LEMMA DirectProjection ==
    ASSUME NEW facts \in DirectReports
    PROVE  Complete(facts) \in AllProjections
  BY DEF AllProjections

LEMMA CoverageInitial == CoverageInit => CoverageInv
<1> SUFFICES ASSUME CoverageInit
             PROVE  CoverageInv
  OBVIOUS
<1>1. NoRow \in AttemptRows /\ NoRow.status = "none"
  BY DEF NoRow, AttemptRows
<1>2. CoverageTypes
  <2>1. \A p \in People : revisions[p] \in [1 .. head[p] -> Entries]
    BY DEF CoverageInit
  <2> QED BY <1>1, <2>1 DEF CoverageInit, CoverageTypes
<1>3. RegistrationsValid /\ LatestGeneration
  BY DEF CoverageInit, RegistrationsValid, LatestGeneration
<1>4. ASSUME NEW p \in People
      PROVE  PersonSound(p)
  <2>1. head[p] = 0 /\ \A a \in Attempts : attempts[p][a].status = "none"
    BY <1>1 DEF CoverageInit
  <2> QED BY <2>1 DEF PersonSound, AttemptSound, LedgerSound, HeadSound
<1> QED BY <1>2, <1>3, <1>4 DEF CoverageInv

LEMMA CoverageUnchanged ==
    CoverageInv /\ UNCHANGED coverageVars => CoverageInv'
<1> SUFFICES ASSUME CoverageInv, UNCHANGED coverageVars
             PROVE  CoverageInv'
  OBVIOUS
<1>1. CoverageTypes' /\ RegistrationsValid' /\ LatestGeneration'
  BY DEF coverageVars, CoverageInv, CoverageTypes, RegistrationsValid,
         LatestGeneration
<1>2. ASSUME NEW q \in People
      PROVE  PersonSound(q)'
  <2>1. PersonSound(q) /\ RowsOf(q)' = RowsOf(q)
    BY DEF coverageVars, CoverageInv, RowsOf
  <2> QED BY <2>1, BystanderSound DEF coverageVars
<1> QED BY <1>1, <1>2 DEF CoverageInv

LEMMA CoverageStep == CoverageInv /\ [CoverageNext]_coverageVars => CoverageInv'
<1> SUFFICES ASSUME CoverageInv, CoverageNext
             PROVE  CoverageInv'
  BY CoverageUnchanged
<1>1. CASE \E b \in Bindings, o \in RegOps :
              RegisterSource(b, o) \/ RegisterAgain(b, o)
  BY <1>1, RegisterKeeps, CoverageUnchanged DEF RegisterAgain
<1>2. CASE \E p \in People, a \in Attempts :
              BeginCollection(p, a) \/ BeginAgain(p, a)
  BY <1>2, BeginKeeps, CoverageUnchanged DEF BeginAgain
<1>3. CASE \E p \in People, a \in Attempts : \E seen \in Batches :
              FinishCollection(p, a, seen) \/ FinishAgain(p, a, seen)
  BY <1>3, FinishKeeps, CoverageUnchanged DEF FinishAgain
<1>4. CASE \E p \in People, d \in DirectOps : \E expected \in 0 .. head[p] :
              \E proj \in {Complete(facts) : facts \in DirectReports} :
                  DirectPublish(p, d, expected, proj)
  <2>1. PICK p \in People, d \in DirectOps : \E expected \in 0 .. head[p] :
              \E proj \in {Complete(facts) : facts \in DirectReports} :
                  DirectPublish(p, d, expected, proj)
    BY <1>4
  <2>2. PICK expected \in 0 .. head[p],
             proj \in {Complete(facts) : facts \in DirectReports} :
             DirectPublish(p, d, expected, proj)
    BY <2>1
  <2>3. proj \in Published
    BY DirectProjection DEF Published
  <2>4. CASE Publish(p, expected, DirectName(d), proj)
    BY <2>2, <2>3, <2>4, DirectKeeps DEF DirectPublish
  <2>5. CASE PublishAgain(p, expected, DirectName(d), proj)
    BY <2>2, <2>5, CoverageUnchanged
       DEF DirectPublish, PublishAgain, coverageVars
  <2> QED BY <2>2, <2>4, <2>5 DEF DirectPublish
<1> QED BY <1>1, <1>2, <1>3, <1>4 DEF CoverageNext

(* The invariant of the coverage store holds in every reachable state.      *)
THEOREM CoverageInvariant == CoverageSpec => []CoverageInv
  BY CoverageInitial, CoverageStep, PTL DEF CoverageSpec

-----------------------------------------------------------------------------
(* What follows *)

(* The tables stay well typed, and a head is the number of its revisions    *)
(* (the tables of the coverage store).                                      *)
THEOREM CoverageTypeCorrect == CoverageSpec => []CoverageTypeOK
<1>1. CoverageInv => CoverageTypeOK
  <2> SUFFICES ASSUME CoverageTypes
               PROVE  CoverageTypeOK
    BY DEF CoverageInv
  <2>1. \A p \in People, a \in Attempts : attempts[p][a] \in AttemptRows
    BY DEF CoverageTypes
  <2>2. \A p \in People : \A a \in Attempts :
          /\ attempts[p][a].status
                \in {"none", "pending", "superseded", "completed"}
          /\ attempts[p][a].bound \subseteq SourceIds
    BY <2>1 DEF AttemptRows
  <2>3. \A p \in People : DOMAIN revisions[p] = 1 .. head[p]
    BY DEF CoverageTypes
  <2> QED BY <2>2, <2>3 DEF CoverageTypes, CoverageTypeOK, SourceRows, Allocs
<1> QED BY <1>1, CoverageInvariant, PTL

(* The corruption checks of `finish_collection`, `begin_collection` and     *)
(* `load` never fire: every stored attempt is bound to the sources of its   *)
(* generation and agrees with the revision it published.                    *)
THEOREM RowsStayValid == CoverageSpec => []StoredRowsValid
<1>1. CoverageInv => StoredRowsValid
  <2> SUFFICES ASSUME CoverageInv
               PROVE  StoredRowsValid
    OBVIOUS
  <2>1. ASSUME NEW p \in People
        PROVE  /\ DOMAIN revisions[p] = 1 .. head[p]
               /\ head[p] # 0 => Readable(p)
               /\ \A a \in Attempts :
                     /\ attempts[p][a].status # "none" => ValidAttempt(p, a)
                     /\ attempts[p][a].status # "none" => HasReceipt(p, a)
    <3>1. /\ head[p] \in Nat /\ DOMAIN revisions[p] = 1 .. head[p]
          /\ PersonSound(p)
      BY DEF CoverageInv, CoverageTypes
    <3>2. head[p] # 0 => Readable(p)
      BY <3>1 DEF PersonSound, HeadSound, Readable
    <3> QED BY <3>1, <3>2 DEF PersonSound, AttemptSound
  <2> QED BY <2>1 DEF StoredRowsValid, HasReceipt
<1> QED BY <1>1, CoverageInvariant, PTL

(* A registration is answered from the revision that withdrew the coverage, *)
(* however often and however late it is repeated (register_source).         *)
THEOREM RegistrationsAreKept == CoverageSpec => []RegistrationsValid
<1>1. CoverageInv => RegistrationsValid
  BY DEF CoverageInv
<1> QED BY <1>1, CoverageInvariant, PTL

(* What a reader loads from a collection speaks for every source of the     *)
(* person: no registration slips in between the bindings of an attempt and  *)
(* its publication (finish_collection).                                     *)
THEOREM HeadSpeaksForSources == CoverageSpec => []HeadCoversSources
<1>1. CoverageInv => HeadCoversSources
  <2> SUFFICES ASSUME CoverageInv, NEW p \in People, NEW a \in Attempts,
                      Readable(p),
                      revisions[p][head[p]].op = CollectionName(a)
               PROVE  /\ attempts[p][a].status = "completed"
                      /\ attempts[p][a].bound = Owned(p)
                      /\ Loaded(p) => \A s \in Owned(p) :
                                         Answered(attempts[p][a].seen, s)
    BY DEF HeadCoversSources
  <2>1. /\ head[p] \in 1 .. head[p] /\ head[p] # 0 /\ PersonSound(p)
    BY DEF CoverageInv, CoverageTypes, Readable
  <2> QED BY <2>1 DEF PersonSound, LedgerSound, HeadSound, Loaded
<1> QED BY <1>1, CoverageInvariant, PTL

-----------------------------------------------------------------------------
(* The store implements CoverageService *)

OwnedBy == [p \in People |-> Owned(p)]

Ledger == [p \in People |-> [n \in DOMAIN revisions[p] |-> Covers1(p, n)]]

(* What was published about bound sources stays: an attempt named by a      *)
(* revision is completed, and a completed one is not bound again.           *)
LEMMA EntriesStay ==
    ASSUME CoverageInv, NEW p \in People, NEW n \in 1 .. head[p],
           revisions'[p][n] = revisions[p][n],
           \A a \in Attempts : attempts[p][a].status = "completed" =>
               attempts'[p][a].bound = attempts[p][a].bound
    PROVE  Covers1(p, n)' = Covers1(p, n)
<1>1. LedgerSound(p)
  BY DEF CoverageInv, PersonSound
<1>2. CASE \E a \in Attempts : revisions[p][n].op = CollectionName(a)
  <2>1. PICK a \in Attempts : revisions[p][n].op = CollectionName(a)
    BY <1>2
  <2>2. revisions[p][n].op[2] = a
    BY <2>1 DEF CollectionName
  <2>3. attempts'[p][a].bound = attempts[p][a].bound
    BY <1>1, <2>1 DEF LedgerSound
  <2> QED BY <1>2, <2>2, <2>3 DEF Covers1
<1>3. CASE ~\E a \in Attempts : revisions[p][n].op = CollectionName(a)
  BY <1>3 DEF Covers1
<1> QED BY <1>2, <1>3

LEMMA LedgerStays ==
    ASSUME CoverageInv, UNCHANGED <<sources, head, revisions>>,
           \A p \in People, a \in Attempts :
               attempts[p][a].status = "completed" =>
                   attempts'[p][a].bound = attempts[p][a].bound
    PROVE  UNCHANGED <<OwnedBy, head, Ledger>>
<1>1. \A p \in People : DOMAIN revisions[p] = 1 .. head[p]
  BY DEF CoverageInv, CoverageTypes
<1>2. \A p \in People : \A n \in DOMAIN revisions[p] :
          Covers1(p, n)' = Covers1(p, n)
  BY <1>1, EntriesStay
<1>3. Ledger' = Ledger
  BY <1>2 DEF Ledger
<1>4. OwnedBy' = OwnedBy
  BY DEF OwnedBy, Owned
<1> QED BY <1>3, <1>4

(* A publication is one entry at the end of the person's ledger. *)
LEMMA LedgerGrows ==
    ASSUME CoverageInv, NEW p \in People, NEW expected, NEW name \in Names,
           NEW proj \in Published, Publish(p, expected, name, proj),
           \A q \in People, a \in Attempts :
               attempts[q][a].status = "completed" =>
                   attempts'[q][a].bound = attempts[q][a].bound,
           NEW covers, NEW last, last = head[p] + 1,
           Covers1(p, last)' = [op |-> name, covers |-> covers, proj |-> proj]
    PROVE  /\ head' = [head EXCEPT ![p] = head[p] + 1]
           /\ \A n \in 1 .. head[p] : Ledger[p][n].op # name
           /\ Ledger' = [Ledger EXCEPT ![p] =
                 [n \in 1 .. (head[p] + 1) |->
                    IF n <= head[p] THEN Ledger[p][n]
                    ELSE [op |-> name, covers |-> covers, proj |-> proj]]]
<1>1. /\ CoverageTypes /\ head[p] \in Nat
      /\ \A q \in People : DOMAIN revisions[q] = 1 .. head[q]
  BY DEF CoverageInv, CoverageTypes
<1>2. head' = [head EXCEPT ![p] = head[p] + 1]
  BY DEF Publish, NextRevision
<1>3. \A n \in 1 .. head[p] : revisions[p][n].op # name
  BY <1>1 DEF Publish, Used
<1>4. \A n \in 1 .. head[p] : Ledger[p][n].op # name
  BY <1>1, <1>3 DEF Ledger, Covers1
<1>5. \A q \in People \ {p} :
          head'[q] = head[q] /\ revisions'[q] = revisions[q]
  BY <1>1, PublishAppends
<1>6. \A n \in 1 .. head[p] : revisions'[p][n] = revisions[p][n]
  BY <1>1, PublishAppends
<1>7. /\ head'[p] = head[p] + 1
      /\ \A q \in People : revisions'[q] \in [1 .. head'[q] -> Entries]
  BY <1>1, PublishAppends
<1>8. DOMAIN revisions'[p] = 1 .. (head[p] + 1)
  BY <1>7
<1>9. \A q \in People \ {p} : Ledger'[q] = Ledger[q]
  <2> SUFFICES ASSUME NEW q \in People \ {p}
               PROVE  Ledger'[q] = Ledger[q]
    OBVIOUS
  <2>1. \A n \in DOMAIN revisions[q] : Covers1(q, n)' = Covers1(q, n)
    BY <1>1, <1>5, EntriesStay
  <2> QED BY <1>5, <2>1 DEF Ledger
<1>10. Ledger'[p] = [n \in 1 .. (head[p] + 1) |->
                      IF n <= head[p] THEN Ledger[p][n]
                      ELSE [op |-> name, covers |-> covers, proj |-> proj]]
  <2>1. \A n \in 1 .. head[p] : Covers1(p, n)' = Ledger[p][n]
    BY <1>1, <1>6, EntriesStay DEF Ledger
  <2>2. Ledger'[p] = [n \in 1 .. (head[p] + 1) |-> Covers1(p, n)']
    BY <1>8 DEF Ledger
  <2>3. \A n \in 1 .. (head[p] + 1) :
           Covers1(p, n)' = IF n <= head[p] THEN Ledger[p][n]
                            ELSE [op |-> name, covers |-> covers, proj |-> proj]
    <3> SUFFICES ASSUME NEW n \in 1 .. (head[p] + 1)
                 PROVE  Covers1(p, n)' = IF n <= head[p] THEN Ledger[p][n]
                            ELSE [op |-> name, covers |-> covers, proj |-> proj]
      OBVIOUS
    <3>1. CASE n <= head[p]
      BY <1>1, <2>1, <3>1
    <3>2. CASE ~(n <= head[p])
      <4>1. n = last
        BY <1>1, <3>2
      <4> QED BY <3>2, <4>1
    <3> QED BY <3>1, <3>2
  <2> QED BY <2>2, <2>3
<1>11. Ledger' = [Ledger EXCEPT ![p] = Ledger'[p]]
  BY <1>9 DEF Ledger
<1> QED BY <1>2, <1>4, <1>10, <1>11

(* No step binds a completed attempt again. *)
LEMMA BoundsStay ==
    ASSUME CoverageInv
    PROVE  /\ \A b \in Bindings, o \in RegOps : RegisterSource(b, o) =>
                 \A q \in People, c \in Attempts :
                     attempts'[q][c].bound = attempts[q][c].bound
           /\ \A p \in People, a \in Attempts : BeginCollection(p, a) =>
                 \A q \in People, c \in Attempts :
                     attempts[q][c].status = "completed" =>
                         attempts'[q][c].bound = attempts[q][c].bound
           /\ \A p \in People, a \in Attempts, seen \in Batches :
                 FinishCollection(p, a, seen) =>
                     \A q \in People, c \in Attempts :
                         attempts'[q][c].bound = attempts[q][c].bound
<1>1. /\ attempts \in [People -> [Attempts -> AttemptRows]]
      /\ \A q \in People, c \in Attempts : attempts[q][c] \in AttemptRows
  BY DEF CoverageInv, CoverageTypes
<1>2. ASSUME NEW b \in Bindings, NEW o \in RegOps, RegisterSource(b, o),
             NEW q \in People, NEW c \in Attempts
      PROVE  attempts'[q][c].bound = attempts[q][c].bound
  <2>1. attempts' = [attempts EXCEPT ![b.who] = SupersedeAll(attempts[b.who])]
    BY <1>2 DEF RegisterSource
  <2>2. \/ attempts'[q][c] = attempts[q][c]
        \/ attempts'[q][c] = Superseded(attempts[q][c])
    BY <1>1, <2>1 DEF SupersedeAll
  <2> QED BY <1>1, <2>2, SupersededRow
<1>3. ASSUME NEW p \in People, NEW a \in Attempts, BeginCollection(p, a),
             NEW q \in People, NEW c \in Attempts,
             attempts[q][c].status = "completed"
      PROVE  attempts'[q][c].bound = attempts[q][c].bound
  <2>1. /\ attempts[p][a].status = "none"
        /\ attempts' = [attempts EXCEPT ![p] =
               [b \in Attempts |->
                   IF b = a THEN NewAttempt(p)
                   ELSE IF b = coord[p].current THEN Superseded(attempts[p][b])
                   ELSE attempts[p][b]]]
    BY <1>3 DEF BeginCollection
  <2>2. \/ attempts'[q][c] = attempts[q][c]
        \/ attempts'[q][c] = Superseded(attempts[q][c])
    BY <1>1, <1>3, <2>1
  <2> QED BY <1>1, <2>2, SupersededRow
<1>4. ASSUME NEW p \in People, NEW a \in Attempts, NEW seen \in Batches,
             FinishCollection(p, a, seen),
             NEW q \in People, NEW c \in Attempts
      PROVE  attempts'[q][c].bound = attempts[q][c].bound
  <2> DEFINE done == [attempts[p][a] EXCEPT !.status = "completed",
                                            !.seen = seen,
                                            !.rev = NextRevision(p)]
  <2>1. attempts' = [attempts EXCEPT ![p] = [attempts[p] EXCEPT ![a] = done]]
    BY <1>4 DEF FinishCollection
  <2>2. done.bound = attempts[p][a].bound
    BY <1>1 DEF AttemptRows
  <2> HIDE DEF done
  <2> QED BY <1>1, <2>1, <2>2
<1> QED BY <1>2, <1>3, <1>4

LEMMA RegisterRefines ==
    ASSUME CoverageInv, NEW b \in Bindings, NEW o \in RegOps,
           RegisterSource(b, o)
    PROVE  Service!AddSource(b.who, b.src, RegistrationName(o))
<1>1. PICK p \in People : p = b.who
  BY BindingsAssumption
<1>2. /\ sources' = sources \cup
            {[who |-> p, src |-> b.src, alloc |-> b.alloc, op |-> o,
              gen |-> coord[p].gen + 1, rev |-> NextRevision(p)]}
      /\ Publish(p, head[p], RegistrationName(o), Unreconciled)
      /\ \A row \in sources : row.src # b.src
  BY <1>1 DEF RegisterSource, Unclaimed
<1>3. \A q \in People : b.src \notin OwnedBy[q]
  BY <1>2 DEF OwnedBy, Owned
<1>4. OwnedBy' = [OwnedBy EXCEPT ![p] = OwnedBy[p] \cup {b.src}]
  <2>1. \A q \in People \ {p} : Owned(q)' = Owned(q)
    BY <1>2 DEF Owned
  <2>2. Owned(p)' = Owned(p) \cup {b.src}
    <3>1. PICK new : new.who = p /\ new.src = b.src
                     /\ sources' = sources \cup {new}
      BY <1>2
    <3>2. RowsOf(p)' = RowsOf(p) \cup {new}
      BY <3>1 DEF RowsOf
    <3>3. Owned(p) = {row.src : row \in RowsOf(p)}
      BY DEF Owned, RowsOf
    <3>4. Owned(p)' = {row.src : row \in RowsOf(p)'}
      BY DEF Owned, RowsOf
    <3> QED BY <3>1, <3>2, <3>3, <3>4
  <2> QED BY <2>1, <2>2 DEF OwnedBy
<1>5. RegistrationName(o) \in Names /\ Unreconciled \in Published
  BY DEF RegistrationName, Names, Published
<1>6. PICK last : last = head[p] + 1
  OBVIOUS
<1>7. Covers1(p, last)' = [op |-> RegistrationName(o), covers |-> {},
                          proj |-> Unreconciled]
  <2>1. CoverageTypes
    BY DEF CoverageInv
  <2>2. revisions'[p][last] = [op |-> RegistrationName(o),
                              expected |-> head[p], proj |-> Unreconciled]
    BY <1>2, <1>5, <1>6, <2>1, PublishAppends
  <2>3. \A a \in Attempts : RegistrationName(o) # CollectionName(a)
    BY DEF RegistrationName, CollectionName
  <2> QED BY <2>2, <2>3 DEF Covers1
<1>8. \A q \in People, c \in Attempts :
          attempts[q][c].status = "completed" =>
              attempts'[q][c].bound = attempts[q][c].bound
  BY BoundsStay
<1>9. /\ head' = [head EXCEPT ![p] = head[p] + 1]
      /\ \A n \in 1 .. head[p] : Ledger[p][n].op # RegistrationName(o)
      /\ Ledger' = [Ledger EXCEPT ![p] =
            [n \in 1 .. (head[p] + 1) |->
               IF n <= head[p] THEN Ledger[p][n]
               ELSE [op |-> RegistrationName(o), covers |-> {},
                     proj |-> Unreconciled]]]
  BY <1>2, <1>5, <1>6, <1>7, <1>8, LedgerGrows
<1>10. Service!Append1(p, RegistrationName(o), {}, Unreconciled)
  BY <1>9 DEF Service!Append1, Ledger
<1>11. Service!AddSource(p, b.src, RegistrationName(o))
  BY <1>3, <1>4, <1>10 DEF Service!AddSource, OwnedBy
<1> QED BY <1>1, <1>11

LEMMA FinishRefines ==
    ASSUME CoverageInv, NEW p \in People, NEW a \in Attempts,
           NEW seen \in Batches, FinishCollection(p, a, seen)
    PROVE  Service!Collect(p, CollectionName(a), Combined(seen))
<1>1. /\ sources' = sources
      /\ Publish(p, attempts[p][a].expected, CollectionName(a), Combined(seen))
      /\ attempts[p][a].gen = coord[p].gen
      /\ ValidBindings(p, attempts[p][a])
  BY DEF FinishCollection, Current, ValidAttempt
<1>2. CoverageTypes /\ RegistrationsValid
  BY DEF CoverageInv
<1>3. attempts[p][a].bound = Owned(p) /\ Owned(p) # {}
  BY <1>1, <1>2, LatestBindings
<1>4. CollectionName(a) \in Names /\ Combined(seen) \in Published
  BY DEF CollectionName, Names, Published, AllProjections
<1>5. PICK last : last = head[p] + 1
  OBVIOUS
<1>6. \A q \in People, c \in Attempts :
          attempts'[q][c].bound = attempts[q][c].bound
  BY BoundsStay
<1>7. PICK covers : covers = Owned(p)
  OBVIOUS
<1>8. Covers1(p, last)' = [op |-> CollectionName(a), covers |-> covers,
                          proj |-> Combined(seen)]
  <2>1. revisions'[p][last] =
            [op |-> CollectionName(a), expected |-> attempts[p][a].expected,
             proj |-> Combined(seen)]
    BY <1>1, <1>2, <1>4, <1>5, PublishAppends
  <2>2. CollectionName(a)[2] = a
    BY DEF CollectionName
  <2>3. attempts'[p][a].bound = covers
    BY <1>3, <1>6, <1>7
  <2> QED BY <2>1, <2>2, <2>3 DEF Covers1
<1>9. /\ head' = [head EXCEPT ![p] = head[p] + 1]
      /\ \A n \in 1 .. head[p] : Ledger[p][n].op # CollectionName(a)
      /\ Ledger' = [Ledger EXCEPT ![p] =
            [n \in 1 .. (head[p] + 1) |->
               IF n <= head[p] THEN Ledger[p][n]
               ELSE [op |-> CollectionName(a), covers |-> covers,
                     proj |-> Combined(seen)]]]
  <2>1. PICK expected : expected = attempts[p][a].expected
    OBVIOUS
  <2>2. PICK name \in Names : name = CollectionName(a)
    BY <1>4
  <2>3. PICK proj \in Published : proj = Combined(seen)
    BY <1>4
  <2>4. Publish(p, expected, name, proj)
    BY <1>1, <2>1, <2>2, <2>3
  <2>5. Covers1(p, last)' = [op |-> name, covers |-> covers, proj |-> proj]
    BY <1>8, <2>2, <2>3
  <2>6. /\ head' = [head EXCEPT ![p] = head[p] + 1]
        /\ \A n \in 1 .. head[p] : Ledger[p][n].op # name
        /\ Ledger' = [Ledger EXCEPT ![p] =
              [n \in 1 .. (head[p] + 1) |->
                 IF n <= head[p] THEN Ledger[p][n]
                 ELSE [op |-> name, covers |-> covers, proj |-> proj]]]
    BY <1>5, <1>6, <2>4, <2>5, LedgerGrows
  <2> QED BY <2>2, <2>3, <2>6
<1>10. OwnedBy' = OwnedBy /\ OwnedBy[p] = Owned(p)
  BY <1>1 DEF OwnedBy, Owned
<1>11. Service!Append1(p, CollectionName(a), covers, Combined(seen))
  BY <1>9 DEF Service!Append1, Ledger
<1>12. OwnedBy[p] = covers /\ OwnedBy[p] # {}
  BY <1>3, <1>7, <1>10
<1> QED BY <1>10, <1>11, <1>12 DEF Service!Collect, OwnedBy

LEMMA DirectRefines ==
    ASSUME CoverageInv, NEW p \in People, NEW d \in DirectOps, NEW expected,
           NEW proj \in Published, Publish(p, expected, DirectName(d), proj),
           UNCHANGED <<sources, coord, attempts>>
    PROVE  Service!Record(p, DirectName(d), proj)
<1>1. CoverageTypes
  BY DEF CoverageInv
<1>2. DirectName(d) \in Names
  BY DEF DirectName, Names
<1>3. PICK last : last = head[p] + 1
  OBVIOUS
<1>4. Covers1(p, last)' = [op |-> DirectName(d), covers |-> {}, proj |-> proj]
  <2>1. revisions'[p][last] =
            [op |-> DirectName(d), expected |-> expected, proj |-> proj]
    BY <1>1, <1>2, <1>3, PublishAppends
  <2>2. \A a \in Attempts : DirectName(d) # CollectionName(a)
    BY DEF DirectName, CollectionName
  <2> QED BY <2>1, <2>2 DEF Covers1
<1>5. /\ head' = [head EXCEPT ![p] = head[p] + 1]
      /\ \A n \in 1 .. head[p] : Ledger[p][n].op # DirectName(d)
      /\ Ledger' = [Ledger EXCEPT ![p] =
            [n \in 1 .. (head[p] + 1) |->
               IF n <= head[p] THEN Ledger[p][n]
               ELSE [op |-> DirectName(d), covers |-> {}, proj |-> proj]]]
  BY <1>2, <1>3, <1>4, LedgerGrows
<1>6. OwnedBy' = OwnedBy
  BY DEF OwnedBy, Owned
<1>7. Service!Append1(p, DirectName(d), {}, proj)
  BY <1>5 DEF Service!Append1, Ledger
<1> QED BY <1>6, <1>7 DEF Service!Record, OwnedBy

LEMMA ServiceStutters ==
    ASSUME UNCHANGED <<OwnedBy, head, Ledger>>
    PROVE  UNCHANGED Service!serviceVars
  BY DEF Service!serviceVars, OwnedBy, Ledger

LEMMA ServiceStep ==
    CoverageInv /\ [CoverageNext]_coverageVars =>
        [Service!ServiceNext]_(Service!serviceVars)
<1> SUFFICES ASSUME CoverageInv, [CoverageNext]_coverageVars
             PROVE  Service!ServiceNext \/ UNCHANGED Service!serviceVars
  OBVIOUS
<1>1. ASSUME UNCHANGED coverageVars
      PROVE  UNCHANGED Service!serviceVars
  BY <1>1, LedgerStays, ServiceStutters DEF coverageVars
<1>2. CASE \E b \in Bindings, o \in RegOps : RegisterSource(b, o)
  <2>1. PICK b \in Bindings, o \in RegOps : RegisterSource(b, o)
    BY <1>2
  <2>2. /\ b.who \in People /\ b.src \in SourceIds
        /\ RegistrationName(o) \in Names
    BY BindingsAssumption DEF SourceIds, RegistrationName, Names
  <2> QED BY <2>1, <2>2, RegisterRefines DEF Service!ServiceNext
<1>3. CASE \E p \in People, a \in Attempts : BeginCollection(p, a)
  <2>1. UNCHANGED <<sources, head, revisions>>
    BY <1>3 DEF BeginCollection
  <2>2. \A q \in People, c \in Attempts :
            attempts[q][c].status = "completed" =>
                attempts'[q][c].bound = attempts[q][c].bound
    BY <1>3, BoundsStay
  <2> QED BY <2>1, <2>2, LedgerStays, ServiceStutters
<1>4. CASE \E p \in People, a \in Attempts, seen \in Batches :
              FinishCollection(p, a, seen)
  <2>1. PICK p \in People, a \in Attempts, seen \in Batches :
              FinishCollection(p, a, seen)
    BY <1>4
  <2>2. CollectionName(a) \in Names /\ Combined(seen) \in AllProjections
    BY DEF CollectionName, Names, AllProjections
  <2> QED BY <2>1, <2>2, FinishRefines DEF Service!ServiceNext
<1>5. CASE \E p \in People, d \in DirectOps : \E expected \in 0 .. head[p] :
              \E proj \in {Complete(facts) : facts \in DirectReports} :
                  DirectPublish(p, d, expected, proj)
  <2>1. PICK p \in People, d \in DirectOps : \E expected \in 0 .. head[p] :
              \E proj \in {Complete(facts) : facts \in DirectReports} :
                  DirectPublish(p, d, expected, proj)
    BY <1>5
  <2>2. PICK expected \in 0 .. head[p],
             proj \in {Complete(facts) : facts \in DirectReports} :
             DirectPublish(p, d, expected, proj)
    BY <2>1
  <2>3. /\ proj \in Published /\ proj \in AllProjections
        /\ DirectName(d) \in Names
    BY DirectProjection DEF Published, DirectName, Names
  <2>4. CASE Publish(p, expected, DirectName(d), proj)
    <3>1. Service!Record(p, DirectName(d), proj)
      BY <2>2, <2>3, <2>4, DirectRefines DEF DirectPublish
    <3> QED BY <2>3, <3>1 DEF Service!ServiceNext
  <2>5. CASE PublishAgain(p, expected, DirectName(d), proj)
    BY <1>1, <2>2, <2>5 DEF DirectPublish, PublishAgain, coverageVars
  <2> QED BY <2>2, <2>4, <2>5 DEF DirectPublish
<1>6. CASE \/ \E b \in Bindings, o \in RegOps : RegisterAgain(b, o)
           \/ \E p \in People, a \in Attempts : BeginAgain(p, a)
           \/ \E p \in People, a \in Attempts, seen \in Batches :
                  FinishAgain(p, a, seen)
  BY <1>1, <1>6 DEF RegisterAgain, BeginAgain, FinishAgain
<1> QED BY <1>1, <1>2, <1>3, <1>4, <1>5, <1>6 DEF CoverageNext

(* Registrations, attempts, generations and repeated calls add up to what   *)
(* CoverageService promises: an append-only ledger per person, where a      *)
(* collection speaks for exactly the sources the person has when it is      *)
(* published (register_source, begin_collection, finish_collection).        *)
THEOREM CollectionsAreAtomic == CoverageSpec => AtomicCollections
<1>1. CoverageInit => Service!ServiceInit
  BY DEF CoverageInit, Service!ServiceInit, Owned
<1> QED BY <1>1, CoverageInvariant, ServiceStep, PTL
        DEF CoverageSpec, AtomicCollections, Service!ServiceSpec

-----------------------------------------------------------------------------
(* The evaluation *)

(* Eligible intervals, with times as integers of any width.                 *)
Interval == [from : Int, until : Int, paid : BOOLEAN]

(* Induction without a theorem on predicates: a set of naturals that holds  *)
(* 0 and the successor of each of its members holds them all.               *)
LEMMA LeastNat ==
    ASSUME NEW S \in SUBSET Nat, S # {}
    PROVE  \E m \in S : \A k \in S : m <= k
<1>1. PICK R : R = OpToRel(<, Nat)
  OBVIOUS
<1>2. IsWellFoundedOn(R, Nat)
  BY <1>1, NatLessThanWellFounded
<1>3. PICK m \in S : \A k \in S : ~(<<k, m>> \in R)
  BY <1>2, WFMin
<1>4. \A k, n \in Nat : k < n => <<k, n>> \in R
  BY <1>1 DEF OpToRel
<1>5. ASSUME NEW k \in S PROVE m <= k
  <2>1. k \in Nat /\ m \in Nat
    OBVIOUS
  <2>2. ~(k < m)
    BY <1>3, <1>4, <2>1, Zenon
  <2> QED BY <2>1, <2>2
<1> QED BY <1>5

LEMMA SetInduction ==
    ASSUME NEW S \in SUBSET Nat, 0 \in S, \A n \in S : n + 1 \in S
    PROVE  S = Nat
<1>1. SUFFICES ASSUME Nat \ S # {} PROVE FALSE
  OBVIOUS
<1>2. PICK m \in Nat \ S : \A k \in Nat \ S : m <= k
  BY <1>1, LeastNat
<1>3. m # 0 /\ m - 1 \in Nat
  OBVIOUS
<1>4. m - 1 \in S
  BY <1>2, <1>3
<1> QED BY <1>2, <1>3, <1>4

(* The order the code sorts by is a strict total order of intervals.        *)
LEMMA BeforeIsTotal ==
    /\ \A i, j \in Interval : i = j \/ Before(i, j) \/ Before(j, i)
    /\ \A i, j, k \in Interval : Before(i, j) /\ Before(j, k) => Before(i, k)
    /\ \A i, j \in Interval : ~(Before(i, j) /\ Before(j, i))
BY DEF Before, Interval

(* So a finite set of intervals has one that comes last.                    *)
LEMMA FinalOf ==
    ASSUME NEW S \in SUBSET Interval, IsFiniteSet(S), S # {}
    PROVE  /\ Final(S) \in S
           /\ \A j \in S \ {Final(S)} : Before(j, Final(S))
<1> DEFINE Ends(T) == \E i \in T : \A j \in T \ {i} : Before(j, i)
           Sizes == {n \in Nat : \A T \in SUBSET Interval :
                        IsFiniteSet(T) /\ T # {} /\ Cardinality(T) = n => Ends(T)}
<1>1. 0 \in Sizes
  BY FS_EmptySet
<1>2. ASSUME NEW n \in Sizes PROVE n + 1 \in Sizes
  <2> SUFFICES ASSUME NEW T \in SUBSET Interval, IsFiniteSet(T), T # {},
                      Cardinality(T) = n + 1
               PROVE  Ends(T)
    OBVIOUS
  <2>1. PICK y \in T : TRUE
    OBVIOUS
  <2>2. IsFiniteSet(T \ {y}) /\ Cardinality(T \ {y}) = n
    <3>1. n \in Nat
      OBVIOUS
    <3>2. IsFiniteSet(T \ {y}) /\ Cardinality(T \ {y}) = Cardinality(T) - 1
      BY FS_RemoveElement
    <3> HIDE DEF Sizes
    <3> QED BY <3>1, <3>2
  <2>3. CASE T \ {y} = {}
    BY <2>3
  <2>4. CASE T \ {y} # {}
    <3>1. PICK z \in T \ {y} : \A j \in (T \ {y}) \ {z} : Before(j, z)
      BY <2>2, <2>4
    <3>2. y \in Interval /\ z \in Interval /\ y # z
      OBVIOUS
    <3>3. CASE Before(y, z)
      BY <3>1, <3>3
    <3>4. CASE Before(z, y)
      <4>1. \A j \in T \ {y} : Before(j, y)
        BY <3>1, <3>2, <3>4, BeforeIsTotal
      <4> QED BY <4>1
    <3> QED BY <3>2, <3>3, <3>4, BeforeIsTotal
  <2> QED BY <2>3, <2>4
<1>3. Sizes = Nat
  <2> HIDE DEF Sizes
  <2>1. Sizes \subseteq Nat
    BY DEF Sizes
  <2> QED BY <1>1, <1>2, <2>1, SetInduction
<1>4. Ends(S)
  BY <1>3, FS_CardinalityType
<1> QED BY <1>4 DEF Final

(* f says what the loop makes of every part of I.                           *)
MergedBy(f, I) ==
    f = [S \in SUBSET I |-> IF S = {} THEN <<>>
                            ELSE Absorb(Final(S), f[S \ {Final(S)}])]

(* The fold over the sorted intervals is the loop: the last interval is     *)
(* absorbed into what the loop made of those before it.                     *)
LEMMA MergedUnfolds ==
    ASSUME NEW I \in SUBSET Interval, IsFiniteSet(I)
    PROVE  \E f : MergedBy(f, I) /\ Merged(I) = f[I]
<1> DEFINE Small(n) == {S \in SUBSET I : Cardinality(S) <= n}
           Step(f, S) == IF S = {} THEN <<>>
                         ELSE Absorb(Final(S), f[S \ {Final(S)}])
           Sizes == {n \in Nat : \E f : f = [S \in Small(n) |-> Step(f, S)]}
<1>1. \A S \in SUBSET I : IsFiniteSet(S) /\ Cardinality(S) \in Nat
                           /\ (Cardinality(S) = 0 <=> S = {})
  BY FS_Subset, FS_CardinalityType, FS_EmptySet
<1>2. \A S \in SUBSET I : S # {} =>
          Cardinality(S \ {Final(S)}) = Cardinality(S) - 1
  <2> TAKE S \in SUBSET I
  <2> HAVE S # {}
  <2>1. Final(S) \in S
    BY <1>1, FinalOf
  <2> QED BY <1>1, <2>1, FS_RemoveElement
<1>3. 0 \in Sizes
  <2>1. \A S \in Small(0) : S = {}
    BY <1>1
  <2> DEFINE f == [S \in Small(0) |-> <<>>]
  <2>2. f = [S \in Small(0) |-> Step(f, S)]
    BY <2>1
  <2> QED BY <2>2
<1>4. ASSUME NEW n \in Sizes PROVE n + 1 \in Sizes
  <2>1. n \in Nat
    OBVIOUS
  <2>2. PICK f : f = [S \in Small(n) |-> Step(f, S)]
    OBVIOUS
  <2> HIDE DEF Sizes
  <2> DEFINE g == [S \in Small(n + 1) |-> Step(f, S)]
  <2>3. \A S \in Small(n + 1) : S # {} => S \ {Final(S)} \in Small(n)
    BY <1>1, <1>2, <2>1
  <2>4. \A S \in Small(n) : S \in Small(n + 1) /\ g[S] = f[S]
    <3> TAKE S \in Small(n)
    <3>1. S \in Small(n + 1)
      BY <1>1, <2>1
    <3> QED BY <2>2, <3>1
  <2>5. \A S \in Small(n + 1) : Step(f, S) = Step(g, S)
    BY <2>3, <2>4
  <2>6. g = [S \in Small(n + 1) |-> Step(g, S)]
    BY <2>5
  <2>7. \E h : h = [S \in Small(n + 1) |-> Step(h, S)]
    <3> HIDE DEF g
    <3> QED BY <2>6
  <2>8. n + 1 \in Nat
    BY <2>1
  <2> HIDE DEF g, Step, Small
  <2> QED BY <2>7, <2>8 DEF Sizes
<1>5. Sizes = Nat
  <2>1. Sizes \subseteq Nat
    OBVIOUS
  <2> HIDE DEF Sizes
  <2> QED BY <1>3, <1>4, <2>1, SetInduction
<1>6. \E f : MergedBy(f, I)
  <2>1. Cardinality(I) \in Sizes
    BY <1>1, <1>5
  <2>2. Small(Cardinality(I)) = SUBSET I
    BY FS_Subset
  <2> QED BY <2>1, <2>2 DEF MergedBy
<1>7. Merged(I) = (CHOOSE f : MergedBy(f, I))[I]
  BY DEF Merged, MapThenFoldSet, MergedBy
<1> QED BY <1>6, <1>7

Proper(S) == S \subseteq Interval /\ \A i \in S : i.from < i.until

EpisodeType == [from : Int, until : Int]

(* What the loop has made of the intervals S so far. *)
MergedOK(m, S) ==
    /\ m \in Seq(EpisodeType)
    /\ m = <<>> <=> S = {}
    /\ \A k \in DOMAIN m : /\ m[k].from < m[k].until
                           /\ \E i \in S : i.until = m[k].until
    /\ \A j, k \in DOMAIN m : j < k => m[j].until < m[k].from
    /\ \A i \in S : \E k \in DOMAIN m :
          m[k].from <= i.from /\ i.until <= m[k].until
    /\ \A k \in DOMAIN m, t \in Int :
          m[k].from <= t /\ t < m[k].until => \E i \in S : Covers(i, t)
    /\ S # {} => \E i \in S : m[Len(m)].from = i.from

LEMMA LaterIs ==
    ASSUME NEW a \in Int, NEW b \in Int
    PROVE  /\ Later(a, b) \in Int /\ a <= Later(a, b) /\ b <= Later(a, b)
           /\ Later(a, b) \in {a, b}
BY DEF Later

(* One turn of the loop, with an interval that starts no earlier than those *)
(* merged so far.                                                           *)
LEMMA AbsorbKeeps ==
    ASSUME NEW S, NEW x \in Interval, NEW m, Proper(S), x.from < x.until,
           \A i \in S : i.from <= x.from, MergedOK(m, S)
    PROVE  MergedOK(Absorb(x, m), S \cup {x})
<1> DEFINE n == Len(m)
           r == Absorb(x, m)
<1>1. m \in Seq(EpisodeType) /\ n \in Nat /\ DOMAIN m = 1 .. n
  BY DEF MergedOK
<1>2. m # <<>> => \E i \in S : m[n].from = i.from
  BY DEF MergedOK
<1>3. /\ x.from \in Int /\ x.until \in Int
      /\ \A i \in S : i.from \in Int /\ i.until \in Int /\ i.from < i.until
      /\ \A k \in 1 .. n : m[k].from \in Int /\ m[k].until \in Int
  <2>1. \A k \in 1 .. n : m[k] \in EpisodeType
    BY <1>1
  <2> QED BY <2>1 DEF Proper, Interval, EpisodeType
<1>4. CASE m # <<>> /\ Extends(Last(m), x)
  <2>1. n \in 1 .. n /\ Last(m) = m[n] /\ x.from <= m[n].until
    BY <1>1, <1>4 DEF Last, Extends
  <2>2. /\ r \in Seq(EpisodeType) /\ Len(r) = n /\ DOMAIN r = 1 .. n
        /\ \A k \in 1 .. n : k # n => r[k] = m[k]
        /\ r[n].from = m[n].from
        /\ r[n].until = Later(m[n].until, x.until)
    <3>1. r = [m EXCEPT ![n].until = Later(@, x.until)]
      BY <1>4 DEF Absorb
    <3>2. Later(m[n].until, x.until) \in Int
      BY <1>3, <2>1, LaterIs
    <3>3. [m[n] EXCEPT !.until = Later(m[n].until, x.until)] \in EpisodeType
      <4>1. m[n] \in EpisodeType
        BY <1>1, <2>1
      <4> QED BY <3>2, <4>1 DEF EpisodeType
    <3>4. r = [m EXCEPT ![n] = [m[n] EXCEPT !.until = Later(m[n].until, x.until)]]
      BY <3>1
    <3> HIDE DEF r
    <3>5. r \in Seq(EpisodeType) /\ Len(r) = n /\ DOMAIN r = 1 .. n
      BY <1>1, <2>1, <3>3, <3>4
    <3>6. r[n] = [m[n] EXCEPT !.until = Later(m[n].until, x.until)]
      BY <1>1, <2>1, <3>4
    <3>7. m[n] \in EpisodeType
      BY <1>1, <2>1
    <3> QED BY <1>1, <2>1, <3>4, <3>5, <3>6, <3>7 DEF EpisodeType
  <2> HIDE DEF r
  <2>3. m[n].from <= x.from
    BY <1>3, <2>1 DEF MergedOK
  <2>4. /\ r[n].until \in Int /\ m[n].until <= r[n].until /\ x.until <= r[n].until
        /\ r[n].until = m[n].until \/ r[n].until = x.until
    <3> DEFINE u == m[n].until
               v == x.until
    <3>1. u \in Int /\ v \in Int /\ r[n].until = Later(u, v)
      BY <1>3, <2>1, <2>2
    <3> HIDE DEF u, v
    <3>2. /\ r[n].until \in Int /\ u <= r[n].until /\ v <= r[n].until
          /\ r[n].until = u \/ r[n].until = v
      BY <3>1, LaterIs
    <3> QED BY <3>2 DEF u, v
  <2> HIDE DEF n
  <2>5. \A k \in 1 .. n : /\ m[k].until <= r[k].until /\ m[k].from = r[k].from
                          /\ r[k].until \in Int /\ r[k].from \in Int
    <3> TAKE k \in 1 .. n
    <3>1. CASE k = n
      BY <1>3, <2>2, <2>4, <3>1
    <3>2. CASE k # n
      BY <1>3, <2>2, <3>2
    <3> QED BY <3>1, <3>2
  <2>6. \A k \in 1 .. n : /\ r[k].from < r[k].until
                          /\ \E i \in S \cup {x} : i.until = r[k].until
    <3> TAKE k \in 1 .. n
    <3>1. m[k].from < m[k].until /\ \E i \in S : i.until = m[k].until
      BY <1>1 DEF MergedOK
    <3>2. r[k].from < r[k].until
      BY <1>3, <2>5, <3>1
    <3>3. CASE k = n
      <4>1. r[n].until = m[n].until => \E i \in S \cup {x} : i.until = r[n].until
        BY <3>1, <3>3
      <4>2. r[n].until = x.until => \E i \in S \cup {x} : i.until = r[n].until
        OBVIOUS
      <4> QED BY <2>4, <3>2, <3>3, <4>1, <4>2
    <3>4. CASE k # n
      BY <2>2, <3>1, <3>4
    <3> QED BY <3>2, <3>3, <3>4
  <2>7. \A j, k \in 1 .. n : j < k => r[j].until < r[k].from
    <3> TAKE j, k \in 1 .. n
    <3> HAVE j < k
    <3>1. j # n
      OBVIOUS
    <3> QED BY <1>1, <2>2, <2>5, <3>1 DEF MergedOK
  <2>8. \A i \in S \cup {x} : \E k \in 1 .. n :
            r[k].from <= i.from /\ i.until <= r[k].until
    <3>1. ASSUME NEW i \in S
          PROVE  \E k \in 1 .. n : r[k].from <= i.from /\ i.until <= r[k].until
      <4>1. PICK k \in 1 .. n : m[k].from <= i.from /\ i.until <= m[k].until
        BY <1>1 DEF MergedOK
      <4>2. r[k].from <= i.from /\ i.until <= r[k].until
        BY <1>3, <2>5, <4>1
      <4> QED BY <4>2
    <3>2. r[n].from <= x.from /\ x.until <= r[n].until
      BY <2>2, <2>3, <2>4
    <3> QED BY <2>1, <3>1, <3>2
  <2>9. \A k \in 1 .. n, t \in Int :
            r[k].from <= t /\ t < r[k].until => \E i \in S \cup {x} : Covers(i, t)
    <3> TAKE k \in 1 .. n, t \in Int
    <3> HAVE r[k].from <= t /\ t < r[k].until
    <3>1. CASE t < m[k].until
      BY <1>1, <2>5, <3>1 DEF MergedOK
    <3>2. CASE m[k].until <= t
      <4>1. k = n
        BY <1>3, <2>2, <3>2
      <4>2. r[n].until = x.until
        BY <1>3, <2>4, <3>2, <4>1
      <4>3. x.from <= t /\ t < x.until
        BY <1>3, <2>1, <3>2, <4>1, <4>2
      <4> QED BY <4>3 DEF Covers
    <3> QED BY <1>3, <3>1, <3>2
  <2>10. \E i \in S \cup {x} : r[Len(r)].from = i.from
    BY <1>2, <1>4, <2>2
  <2>11. r # <<>> /\ S \cup {x} # {}
    BY <2>1, <2>2
  <2>12. r \in Seq(EpisodeType) /\ DOMAIN r = 1 .. n
    BY <2>2
  <2> DEFINE U == S \cup {x}
  <2> HIDE DEF r, U
  <2>13. MergedOK(r, U)
    BY <2>6, <2>7, <2>8, <2>9, <2>10, <2>11, <2>12 DEF MergedOK, U
  <2> QED BY <2>13 DEF r, U
<1>5. CASE ~(m # <<>> /\ Extends(Last(m), x))
  <2> DEFINE new == [from |-> x.from, until |-> x.until]
  <2>1. /\ r \in Seq(EpisodeType) /\ Len(r) = n + 1 /\ DOMAIN r = 1 .. n + 1
        /\ \A k \in 1 .. n : r[k] = m[k]
        /\ r[n + 1] = new
    <3>1. r = Append(m, new)
      BY <1>5 DEF Absorb
    <3>2. new \in EpisodeType
      BY <1>3 DEF EpisodeType
    <3> HIDE DEF r, new
    <3> QED BY <1>1, <3>1, <3>2
  <2> HIDE DEF r
  <2>2. \A k \in 1 .. n : m[k].until < x.from
    <3>1. CASE n = 0
      BY <3>1
    <3>2. CASE n # 0
      <4>1. n \in 1 .. n /\ m[n].until < x.from
        BY <1>1, <1>3, <1>5, <3>2 DEF Last, Extends
      <4>2. m[n].from < m[n].until
        BY <1>1, <4>1 DEF MergedOK
      <4>3. \A k \in 1 .. n : k # n => m[k].until < m[n].from
        <5> TAKE k \in 1 .. n
        <5> HAVE k # n
        <5>1. k < n
          OBVIOUS
        <5> QED BY <1>1, <4>1, <5>1 DEF MergedOK
      <4> HIDE DEF n
      <4> QED BY <1>3, <4>1, <4>2, <4>3
    <3> QED BY <3>1, <3>2
  <2> HIDE DEF n
  <2>3. \A k \in 1 .. n + 1 : /\ r[k].from < r[k].until
                              /\ \E i \in S \cup {x} : i.until = r[k].until
    <3> TAKE k \in 1 .. n + 1
    <3>1. CASE k \in 1 .. n
      BY <1>1, <2>1, <3>1 DEF MergedOK
    <3>2. CASE k = n + 1
      BY <2>1, <3>2
    <3> QED BY <1>1, <3>1, <3>2
  <2>4. \A j, k \in 1 .. n + 1 : j < k => r[j].until < r[k].from
    <3> TAKE j, k \in 1 .. n + 1
    <3> HAVE j < k
    <3>1. j \in 1 .. n /\ r[j] = m[j]
      BY <1>1, <2>1
    <3>2. CASE k \in 1 .. n
      BY <1>1, <2>1, <3>1, <3>2 DEF MergedOK
    <3>3. CASE k = n + 1
      BY <2>1, <2>2, <3>1, <3>3
    <3> QED BY <1>1, <3>2, <3>3
  <2>5. \A i \in S \cup {x} : \E k \in 1 .. n + 1 :
            r[k].from <= i.from /\ i.until <= r[k].until
    <3>1. ASSUME NEW i \in S
          PROVE  \E k \in 1 .. n + 1 :
                     r[k].from <= i.from /\ i.until <= r[k].until
      <4>1. PICK k \in 1 .. n : m[k].from <= i.from /\ i.until <= m[k].until
        BY <1>1 DEF MergedOK
      <4> QED BY <1>1, <2>1, <4>1
    <3>2. r[n + 1].from <= x.from /\ x.until <= r[n + 1].until
      BY <1>3, <2>1
    <3> QED BY <1>1, <3>1, <3>2
  <2>6. \A k \in 1 .. n + 1, t \in Int :
            r[k].from <= t /\ t < r[k].until => \E i \in S \cup {x} : Covers(i, t)
    <3> TAKE k \in 1 .. n + 1, t \in Int
    <3> HAVE r[k].from <= t /\ t < r[k].until
    <3>1. CASE k \in 1 .. n
      BY <1>1, <2>1, <3>1 DEF MergedOK
    <3>2. CASE k = n + 1
      BY <2>1, <3>2 DEF Covers
    <3> QED BY <1>1, <3>1, <3>2
  <2>7. \E i \in S \cup {x} : r[Len(r)].from = i.from
    BY <2>1
  <2>8. r # <<>> /\ S \cup {x} # {}
    BY <1>1, <2>1
  <2>9. r \in Seq(EpisodeType) /\ DOMAIN r = 1 .. n + 1
    BY <2>1
  <2> DEFINE U == S \cup {x}
  <2> HIDE DEF new, U
  <2>10. MergedOK(r, U)
    BY <2>3, <2>4, <2>5, <2>6, <2>7, <2>8, <2>9 DEF MergedOK, U
  <2> QED BY <2>10 DEF r, U
<1> QED BY <1>4, <1>5

(* The whole loop, by the number of intervals.                              *)
LEMMA MergedIsOK ==
    ASSUME NEW I, Proper(I), IsFiniteSet(I)
    PROVE  MergedOK(Merged(I), I)
<1>1. PICK f : MergedBy(f, I) /\ Merged(I) = f[I]
  BY MergedUnfolds DEF Proper
<1> DEFINE Sizes == {n \in Nat : \A S \in SUBSET I :
                        Cardinality(S) = n => MergedOK(f[S], S)}
<1>2. \A S \in SUBSET I : /\ IsFiniteSet(S) /\ Cardinality(S) \in Nat
                          /\ Cardinality(S) = 0 <=> S = {}
  BY FS_Subset, FS_CardinalityType, FS_EmptySet
<1>3. 0 \in Sizes
  <2>1. f[{}] = <<>>
    BY <1>1 DEF MergedBy
  <2>2. MergedOK(<<>>, {})
    BY DEF MergedOK
  <2> QED BY <1>2, <2>1, <2>2
<1>4. ASSUME NEW n \in Sizes PROVE n + 1 \in Sizes
  <2>1. n \in Nat /\ n + 1 \in Nat
    OBVIOUS
  <2> SUFFICES ASSUME NEW S \in SUBSET I, Cardinality(S) = n + 1
               PROVE  MergedOK(f[S], S)
    BY <2>1
  <2> DEFINE x == Final(S)
  <2>2. S # {} /\ IsFiniteSet(S)
    BY <1>2, <2>1
  <2>3. x \in S /\ \A j \in S \ {x} : Before(j, x)
    BY <2>2, FinalOf DEF Proper
  <2>4. Cardinality(S \ {x}) = Cardinality(S) - 1
    BY <2>2, <2>3, FS_RemoveElement
  <2>5. MergedOK(f[S \ {x}], S \ {x})
    <3>1. Cardinality(S \ {x}) = n
      <4> HIDE DEF Sizes
      <4> QED BY <2>1, <2>4
    <3> QED BY <3>1
  <2>6. \A i \in S \ {x} : i.from <= x.from
    BY <2>3 DEF Before, Proper, Interval
  <2>7. Proper(S \ {x}) /\ x \in Interval /\ x.from < x.until
    BY <2>3 DEF Proper
  <2>8. f[S] = Absorb(x, f[S \ {x}])
    BY <1>1, <2>2 DEF MergedBy
  <2>9. (S \ {x}) \cup {x} = S
    BY <2>3
  <2> HIDE DEF x
  <2> QED BY <2>5, <2>6, <2>7, <2>8, <2>9, AbsorbKeeps
<1>5. Sizes = Nat
  <2>1. Sizes \subseteq Nat
    OBVIOUS
  <2> HIDE DEF Sizes
  <2> QED BY <1>3, <1>4, <2>1, SetInduction
<1>6. Cardinality(I) \in Sizes
  BY <1>2, <1>5
<1> QED BY <1>1, <1>6

(* What accepted facts are: finitely many intervals that are not empty.     *)
Dated(facts) ==
    /\ IsFiniteSet(facts)
    /\ \A f \in facts : f.from \in Int /\ f.until \in Int /\ f.from < f.until

LEMMA EligibleAreProper ==
    ASSUME NEW facts, Dated(facts)
    PROVE  /\ Proper(EligibleIntervals(facts))
           /\ IsFiniteSet(EligibleIntervals(facts))
<1> DEFINE Paid(f) == [from |-> f.from, until |-> f.until, paid |-> TRUE]
           Late(f) == [from |-> f.until, until |-> f.until + Recovery,
                       paid |-> FALSE]
           renewed == {f \in facts : HasRenewal(f)}
           P == {Paid(f) : f \in facts}
           R == {Late(f) : f \in renewed}
<1>1. EligibleIntervals(facts) = P \cup R
  BY DEF EligibleIntervals
<1>2. IsFiniteSet(P)
  <2> DEFINE g == [f \in facts |-> Paid(f)]
  <2>1. g \in Surjection(facts, P)
    BY DEF Surjection
  <2> QED BY <2>1, FS_Surjection DEF Dated
<1>3. IsFiniteSet(R)
  <2> DEFINE g == [f \in renewed |-> Late(f)]
  <2>1. g \in Surjection(renewed, R)
    BY DEF Surjection
  <2>2. IsFiniteSet(renewed)
    BY FS_Subset DEF Dated
  <2> HIDE DEF g, renewed, R
  <2> QED BY <2>1, <2>2, FS_Surjection
<1>4. \A f \in facts : /\ Paid(f) \in Interval /\ Paid(f).from < Paid(f).until
                       /\ Late(f) \in Interval /\ Late(f).from < Late(f).until
  BY PeriodsAssumption DEF Dated, Interval
<1>5. Proper(P \cup R)
  BY <1>4 DEF Proper
<1> QED BY <1>1, <1>2, <1>3, <1>5, FS_Union

(* The episodes are the maximal stretches of covered instants.              *)
LEMMA EpisodesAre ==
    ASSUME NEW facts, Dated(facts)
    PROVE  LET E == Episodes(facts)
               I == EligibleIntervals(facts)
           IN  /\ \A e \in E : /\ e.from \in Int /\ e.until \in Int
                               /\ e.from < e.until
                               /\ \E i \in I : i.until = e.until
               /\ \A d, e \in E : d = e \/ d.until < e.from \/ e.until < d.from
               /\ \A i \in I : \E e \in E : e.from <= i.from /\ i.until <= e.until
               /\ \A e \in E, t \in Int : Covers(e, t) => \E i \in I : Covers(i, t)
<1> DEFINE I == EligibleIntervals(facts)
           m == Merged(I)
           E == Episodes(facts)
<1>1. MergedOK(m, I)
  BY EligibleAreProper, MergedIsOK
<1>2. E = {m[k] : k \in DOMAIN m}
  BY DEF Episodes, Range
<1>3. m \in Seq(EpisodeType)
  BY <1>1 DEF MergedOK
<1> HIDE DEF I, m, E
<1>4. \A k \in DOMAIN m : m[k].from \in Int /\ m[k].until \in Int /\ k \in Int
  <2>1. \A k \in DOMAIN m : m[k] \in EpisodeType /\ k \in Int
    BY <1>3
  <2> QED BY <2>1 DEF EpisodeType
<1>5. \A e \in E : /\ e.from \in Int /\ e.until \in Int /\ e.from < e.until
                   /\ \E i \in I : i.until = e.until
  BY <1>1, <1>2, <1>4 DEF MergedOK
<1>6. \A d, e \in E : d = e \/ d.until < e.from \/ e.until < d.from
  <2> SUFFICES ASSUME NEW j \in DOMAIN m, NEW k \in DOMAIN m
               PROVE  m[j] = m[k] \/ m[j].until < m[k].from \/ m[k].until < m[j].from
    BY <1>2
  <2>1. j = k \/ j < k \/ k < j
    BY <1>4
  <2> QED BY <1>1, <2>1 DEF MergedOK
<1>7. \A i \in I : \E e \in E : e.from <= i.from /\ i.until <= e.until
  BY <1>1, <1>2 DEF MergedOK
<1>8. \A e \in E, t \in Int : Covers(e, t) => \E i \in I : Covers(i, t)
  <2> SUFFICES ASSUME NEW k \in DOMAIN m, NEW t \in Int,
                      m[k].from <= t, t < m[k].until
               PROVE  \E i \in I : Covers(i, t)
    BY <1>2 DEF Covers
  <2> QED BY <1>1 DEF MergedOK
<1> QED BY <1>5, <1>6, <1>7, <1>8 DEF I, E

PaidOf(f) == [from |-> f.from, until |-> f.until, paid |-> TRUE]

RecoveryOf(f) ==
    [from |-> f.until, until |-> f.until + Recovery, paid |-> FALSE]

(* Eligible intervals are the paid and the recovery intervals of the facts. *)
LEMMA EligibleFrom ==
    ASSUME NEW facts
    PROVE  /\ \A f \in facts : PaidOf(f) \in EligibleIntervals(facts)
           /\ \A f \in facts :
                 HasRenewal(f) => RecoveryOf(f) \in EligibleIntervals(facts)
           /\ \A i \in EligibleIntervals(facts) :
                 \E f \in facts :
                    \/ i = PaidOf(f)
                    \/ HasRenewal(f) /\ i = RecoveryOf(f)
<1> DEFINE paid == {PaidOf(f) : f \in facts}
           recoveries == {RecoveryOf(f) : f \in {g \in facts : HasRenewal(g)}}
<1>1. EligibleIntervals(facts) = paid \cup recoveries
  BY Zenon DEF EligibleIntervals, PaidOf, RecoveryOf
<1> HIDE DEF paid
<1>2. /\ \A f \in facts : PaidOf(f) \in paid
      /\ \A i \in paid : \E f \in facts : i = PaidOf(f)
  BY Zenon DEF paid
<1> HIDE DEF recoveries
<1>3. /\ \A f \in facts : HasRenewal(f) => RecoveryOf(f) \in recoveries
      /\ \A i \in recoveries : \E f \in facts : HasRenewal(f) /\ i = RecoveryOf(f)
  BY Zenon DEF recoveries
<1> QED BY <1>1, <1>2, <1>3, Zenon

(* An instant is covered when an eligible interval, or an episode, has it.  *)
LEMMA CoveredIs ==
    ASSUME NEW facts, Dated(facts), NEW t \in Int
    PROVE  LET I == EligibleIntervals(facts)
           IN  /\ PaidAt(facts, t) <=> \E i \in I : i.paid /\ Covers(i, t)
               /\ RecoveringAt(facts, t) <=> \E i \in I : ~i.paid /\ Covers(i, t)
               /\ CoveredAt(facts, t) <=> \E i \in I : Covers(i, t)
               /\ CoveredAt(facts, t) <=> \E e \in Episodes(facts) : Covers(e, t)
<1> DEFINE I == EligibleIntervals(facts)
<1>1. \A f : /\ PaidOf(f).from = f.from /\ PaidOf(f).until = f.until
             /\ PaidOf(f).paid = TRUE
             /\ RecoveryOf(f).from = f.until /\ RecoveryOf(f).paid = FALSE
             /\ RecoveryOf(f).until = f.until + Recovery
  BY DEF PaidOf, RecoveryOf
<1>2. PaidAt(facts, t) <=> \E i \in I : i.paid /\ Covers(i, t)
  <2>1. ASSUME NEW f \in facts, f.from <= t, t < f.until
        PROVE  \E i \in I : i.paid /\ Covers(i, t)
    <3>1. PaidOf(f) \in I /\ PaidOf(f).paid /\ Covers(PaidOf(f), t)
      BY <1>1, <2>1, EligibleFrom DEF Covers
    <3> QED BY <3>1
  <2>2. ASSUME NEW i \in I, i.paid, Covers(i, t) PROVE PaidAt(facts, t)
    BY <1>1, <2>2, EligibleFrom DEF Covers, PaidAt
  <2> QED BY <2>1, <2>2 DEF PaidAt
<1>3. RecoveringAt(facts, t) <=> \E i \in I : ~i.paid /\ Covers(i, t)
  <2>1. ASSUME NEW f \in facts, HasRenewal(f), f.until <= t,
               t < f.until + Recovery
        PROVE  \E i \in I : ~i.paid /\ Covers(i, t)
    <3>1. RecoveryOf(f) \in I /\ ~RecoveryOf(f).paid /\ Covers(RecoveryOf(f), t)
      BY <1>1, <2>1, EligibleFrom DEF Covers
    <3> QED BY <3>1
  <2>2. ASSUME NEW i \in I, ~i.paid, Covers(i, t) PROVE RecoveringAt(facts, t)
    BY <1>1, <2>2, EligibleFrom DEF Covers, RecoveringAt
  <2> QED BY <2>1, <2>2 DEF RecoveringAt
<1>4. CoveredAt(facts, t) <=> \E i \in I : Covers(i, t)
  BY <1>2, <1>3 DEF CoveredAt
<1>5. ASSUME NEW i \in I, Covers(i, t)
      PROVE  \E e \in Episodes(facts) : Covers(e, t)
  <2>1. PICK e \in Episodes(facts) : e.from <= i.from /\ i.until <= e.until
    BY EpisodesAre
  <2>2. i.from \in Int /\ i.until \in Int /\ e.from \in Int /\ e.until \in Int
    BY EpisodesAre, EligibleAreProper DEF Proper, Interval
  <2> QED BY <1>5, <2>1, <2>2 DEF Covers
<1>6. ASSUME NEW e \in Episodes(facts), Covers(e, t)
      PROVE  \E i \in I : Covers(i, t)
  BY <1>6, EpisodesAre
<1> QED BY <1>2, <1>3, <1>4, <1>5, <1>6

(* Bounds of sets of instants *)
LEMMA LatestIs ==
    ASSUME NEW S \in SUBSET Int, NEW m \in S, \A u \in S : u <= m
    PROVE  LatestOf(S) = m
<1>1. \A n \in S : (\A u \in S : u <= n) => n = m
  OBVIOUS
<1> QED BY <1>1 DEF LatestOf

LEMMA EarliestIs ==
    ASSUME NEW S \in SUBSET Int, NEW m \in S, \A u \in S : m <= u
    PROVE  EarliestOf(S) = m
<1>1. \A n \in S : (\A u \in S : n <= u) => n = m
  OBVIOUS
<1> QED BY <1>1 DEF EarliestOf

LEMMA LatestExists ==
    ASSUME NEW S \in SUBSET Int, S # {}, NEW b \in Int, \A u \in S : u <= b
    PROVE  LatestOf(S) \in S /\ \A u \in S : u <= LatestOf(S)
<1> DEFINE N == {b - u : u \in S}
<1>1. N \in SUBSET Nat /\ N # {}
  <2>1. \A u \in S : b - u \in Nat
    OBVIOUS
  <2> QED BY <2>1
<1>2. PICK n \in N : \A k \in N : n <= k
  BY <1>1, LeastNat
<1>3. PICK m \in S : n = b - m
  OBVIOUS
<1>4. ASSUME NEW u \in S PROVE u <= m
  <2>1. n <= b - u
    BY <1>2
  <2> QED BY <1>3, <2>1
<1> QED BY <1>4, LatestIs

(* No instant of an eligible interval, its end included, is left out of the *)
(* promise.                                                                 *)
LEMMA InHorizon ==
    ASSUME NEW facts, Dated(facts), NEW t \in Int,
           \E i \in EligibleIntervals(facts) : i.from <= t /\ t <= i.until
    PROVE  t \in Horizon(facts)
<1>1. PICK i \in EligibleIntervals(facts) : i.from <= t /\ t <= i.until
  OBVIOUS
<1>2. PICK f \in facts :
         \/ i.from = f.from /\ i.until = f.until
         \/ i.from = f.until /\ i.until = f.until + Recovery
  BY EligibleFrom DEF PaidOf, RecoveryOf
<1>3. f.from <= t /\ t <= f.until + Recovery
  BY <1>1, <1>2, PeriodsAssumption DEF Dated
<1>4. t \in f.from .. (f.until + Recovery)
  BY <1>3, PeriodsAssumption DEF Dated
<1> QED BY <1>4 DEF Horizon

(* While the instant is covered, the episode ends where the coverage does.  *)
LEMMA EpisodeEnds ==
    ASSUME NEW facts, Dated(facts), NEW now \in Int,
           NEW c \in Episodes(facts), Covers(c, now)
    PROVE  EarliestOf({t \in Horizon(facts) : t > now /\ ~CoveredAt(facts, t)})
              = c.until
<1> DEFINE open == {t \in Horizon(facts) : t > now /\ ~CoveredAt(facts, t)}
<1>1. /\ c.from \in Int /\ c.until \in Int
      /\ \E i \in EligibleIntervals(facts) : i.until = c.until
  BY EpisodesAre
<1>2. c.from <= now /\ now < c.until
  BY DEF Covers
<1>3. c.until \in Horizon(facts)
  <2>1. PICK i \in EligibleIntervals(facts) : i.until = c.until
    BY <1>1
  <2>2. i.from < i.until /\ i.from \in Int
    BY EligibleAreProper DEF Proper, Interval
  <2> QED BY <1>1, <2>1, <2>2, InHorizon
<1>4. ~CoveredAt(facts, c.until)
  <2> SUFFICES ASSUME NEW d \in Episodes(facts), Covers(d, c.until) PROVE FALSE
    BY <1>1, CoveredIs
  <2>1. d.from \in Int /\ d.until \in Int
    BY EpisodesAre
  <2>2. d = c \/ d.until < c.from \/ c.until < d.from
    BY EpisodesAre
  <2> QED BY <1>1, <1>2, <2>1, <2>2 DEF Covers
<1>5. ASSUME NEW t \in open PROVE c.until <= t
  <2>1. t \in Int
    BY PeriodsAssumption DEF Horizon, Dated
  <2>2. ~Covers(c, t)
    BY <2>1, CoveredIs
  <2> QED BY <1>1, <1>2, <2>1, <2>2 DEF Covers
<1>6. open \in SUBSET Int
  BY PeriodsAssumption DEF Horizon, Dated
<1>7. c.until \in open
  BY <1>1, <1>2, <1>3, <1>4
<1> HIDE DEF open
<1>8. EarliestOf(open) = c.until
  BY <1>5, <1>6, <1>7, EarliestIs
<1> QED BY <1>8 DEF open

(* After the last episode, its end is the instant behind the last covered.  *)
LEMMA LastEnded ==
    ASSUME NEW facts, Dated(facts), NEW now \in Int, ~CoveredAt(facts, now)
    PROVE  LET ended == {e.until : e \in {f \in Episodes(facts) : f.until <= now}}
               past == {t \in Horizon(facts) : t < now /\ CoveredAt(facts, t)}
           IN  /\ past = {} <=> ended = {}
               /\ ended # {} => LatestOf(ended) = LatestOf(past) + 1
               /\ ended # {} => LatestOf(ended) \in Int
<1> DEFINE ended == {e.until : e \in {f \in Episodes(facts) : f.until <= now}}
           past == {t \in Horizon(facts) : t < now /\ CoveredAt(facts, t)}
<1>1. ended \in SUBSET Int /\ past \in SUBSET Int /\ \A u \in ended : u <= now
  BY EpisodesAre, PeriodsAssumption DEF Horizon, Dated
<1>2. ASSUME NEW t \in past PROVE \E u \in ended : t < u
  <2>1. t \in Int /\ t < now /\ CoveredAt(facts, t)
    BY <1>1
  <2>2. PICK e \in Episodes(facts) : Covers(e, t)
    BY <2>1, CoveredIs
  <2>3. e.from \in Int /\ e.until \in Int
    BY EpisodesAre
  <2>4. ~Covers(e, now)
    BY CoveredIs
  <2>5. t < e.until /\ e.until <= now
    BY <2>1, <2>2, <2>3, <2>4 DEF Covers
  <2>6. e.until \in ended
    BY <2>5
  <2> HIDE DEF ended
  <2> QED BY <2>5, <2>6
<1>3. ASSUME NEW u \in ended PROVE u - 1 \in past
  <2>1. PICK e \in Episodes(facts) : e.until = u /\ u <= now
    OBVIOUS
  <2>2. e.from \in Int /\ u \in Int /\ e.from < u
    BY <2>1, EpisodesAre
  <2>3. u - 1 \in Int /\ u - 1 < now /\ Covers(e, u - 1)
    BY <2>1, <2>2 DEF Covers
  <2>4. PICK i \in EligibleIntervals(facts) : Covers(i, u - 1)
    BY <2>3, EpisodesAre
  <2>5. i.from \in Int /\ i.until \in Int
    BY EligibleAreProper DEF Proper, Interval
  <2>6. i.from <= u - 1 /\ u - 1 <= i.until
    BY <2>3, <2>4, <2>5 DEF Covers
  <2>7. u - 1 \in Horizon(facts)
    BY <2>3, <2>6, InHorizon
  <2>8. CoveredAt(facts, u - 1)
    BY <2>3, CoveredIs
  <2> QED BY <2>3, <2>7, <2>8
<1> HIDE DEF ended, past
<1>4. past = {} <=> ended = {}
  BY <1>2, <1>3
<1>5. ASSUME ended # {}
      PROVE  LatestOf(ended) = LatestOf(past) + 1 /\ LatestOf(ended) \in Int
  <2> DEFINE last == LatestOf(ended)
  <2>1. last \in ended /\ last \in Int /\ \A u \in ended : u <= last
    BY <1>1, <1>5, LatestExists
  <2> HIDE DEF last
  <2>2. last - 1 \in past
    BY <1>3, <2>1
  <2>3. \A t \in past : t <= last - 1
    <3> TAKE t \in past
    <3>1. PICK u \in ended : t < u
      BY <1>2
    <3> QED BY <1>1, <2>1, <3>1
  <2>4. LatestOf(past) = last - 1
    BY <1>1, <2>2, <2>3, LatestIs
  <2> QED BY <2>1, <2>4 DEF last
<1> QED BY <1>4, <1>5 DEF ended, past

(* The two cases of the decision: covered at the instant, or not.           *)
LEMMA CoveredDecision ==
    ASSUME NEW facts, Dated(facts), NEW now \in Int, CoveredAt(facts, now)
    PROVE  Evaluate(facts, now) = PromisedAt(facts, now)
<1> DEFINE current == {e \in Episodes(facts) : Covers(e, now)}
           covering == {i \in EligibleIntervals(facts) : Covers(i, now)}
           open == {t \in Horizon(facts) : t > now /\ ~CoveredAt(facts, t)}
           late == {f.until + Recovery :
                       f \in {g \in facts : /\ HasRenewal(g)
                                            /\ g.until <= now
                                            /\ now < g.until + Recovery}}
<1>1. PICK c : c \in current
  BY CoveredIs
<1>2. current = {c}
  <2> SUFFICES ASSUME NEW d \in current PROVE d = c
    BY <1>1
  <2>1. /\ d.from \in Int /\ d.until \in Int /\ c.from \in Int /\ c.until \in Int
        /\ d = c \/ d.until < c.from \/ c.until < d.from
    BY <1>1, EpisodesAre
  <2> QED BY <1>1, <2>1 DEF Covers
<1>3. Evaluate(facts, now) = DecideInside(facts, c, now)
  BY <1>2 DEF Evaluate
<1>4. EarliestOf(open) = c.until
  BY <1>1, EpisodeEnds
<1>5. CASE PaidAt(facts, now)
  <2>1. DecideInside(facts, c, now) = Decision("paid", c.until, Never, Never)
    BY <1>5, CoveredIs DEF DecideInside
  <2>2. PromisedAt(facts, now) = Decision("paid", EarliestOf(open), Never, Never)
    BY <1>5 DEF PromisedAt
  <2> QED BY <1>3, <1>4, <2>1, <2>2
<1>6. CASE ~PaidAt(facts, now)
  <2>1. RecoveringAt(facts, now)
    BY <1>6 DEF CoveredAt
  <2>2. \A i \in covering : ~i.paid
    BY <1>6, CoveredIs
  <2>3. DecideInside(facts, c, now)
           = Decision("recovery", c.until,
                      LatestOf({i.until : i \in covering}), Never)
    BY <2>2 DEF DecideInside
  <2>4. PromisedAt(facts, now)
           = Decision("recovery", EarliestOf(open), LatestOf(late), Never)
    BY <1>6, <2>1 DEF PromisedAt
  <2>5. \A i \in covering : i.until \in late
    <3> TAKE i \in covering
    <3>1. PICK f \in facts : HasRenewal(f) /\ i = RecoveryOf(f)
      BY <2>2, EligibleFrom DEF PaidOf
    <3> QED BY <3>1 DEF RecoveryOf, Covers
  <2>6. \A u \in late : \E i \in covering : i.until = u
    <3> TAKE u \in late
    <3>1. PICK f \in facts : /\ HasRenewal(f) /\ f.until <= now
                             /\ now < f.until + Recovery /\ u = f.until + Recovery
      OBVIOUS
    <3>2. RecoveryOf(f) \in covering /\ RecoveryOf(f).until = u
      BY <3>1, EligibleFrom DEF RecoveryOf, Covers
    <3> QED BY <3>2
  <2> HIDE DEF covering, late
  <2>7. {i.until : i \in covering} = late
    BY <2>5, <2>6
  <2> QED BY <1>3, <1>4, <2>3, <2>4, <2>7
<1> QED BY <1>5, <1>6

LEMMA UncoveredDecision ==
    ASSUME NEW facts, Dated(facts), NEW now \in Int, ~CoveredAt(facts, now)
    PROVE  Evaluate(facts, now) = PromisedAt(facts, now)
<1> DEFINE ended == {e.until : e \in {f \in Episodes(facts) : f.until <= now}}
           past == {t \in Horizon(facts) : t < now /\ CoveredAt(facts, t)}
           export == LatestOf(past) + 1 + ExportWindow
<1>1. {e \in Episodes(facts) : Covers(e, now)} = {}
  BY CoveredIs
<1>2. Evaluate(facts, now) =
          IF ended # {} THEN DecideAfter(LatestOf(ended), now)
          ELSE Decision("free", Never, Never, Never)
  BY <1>1 DEF Evaluate
<1>3. ~PaidAt(facts, now) /\ ~RecoveringAt(facts, now)
  BY DEF CoveredAt
<1>4. PromisedAt(facts, now) =
          IF past = {} THEN Decision("free", Never, Never, Never)
          ELSE IF export > MaxTime THEN Decision("invalid", Never, Never, Never)
          ELSE IF now < export
          THEN Decision("export_only", Never, Never, export)
          ELSE Decision("expired", Never, Never, export)
  BY <1>3 DEF PromisedAt
<1>5. /\ past = {} <=> ended = {}
      /\ ended # {} => LatestOf(ended) = LatestOf(past) + 1
  BY LastEnded
<1> HIDE DEF ended, past
<1> QED BY <1>2, <1>4, <1>5 DEF DecideAfter

(* The evaluation, for any finite set of facts and any instant, those past   *)
(* every deadline included: sorting and merging the intervals decides what  *)
(* the facts promise instant by instant (evaluate).                         *)
THEOREM EvaluationIsPromised ==
    ASSUME NEW facts, Dated(facts), NEW now \in Int
    PROVE  Evaluate(facts, now) = PromisedAt(facts, now)
BY CoveredDecision, UncoveredDecision

(* A set of what finitely many things are mapped to is finite.              *)
LEMMA SourcesAreFinite == IsFiniteSet(SourceIds)
<1> DEFINE f == [b \in Bindings |-> b.src]
<1>1. f \in Surjection(Bindings, SourceIds)
  BY DEF Surjection, SourceIds
<1> QED BY <1>1, FS_Surjection, BindingsAssumption

(* The facts of a collection are finitely many and dated, as the reports.   *)
LEMMA SeenAreDated ==
    ASSUME NEW seen \in Batches
    PROVE  /\ IsFiniteSet(FactsSeen(seen))
           /\ \A f \in FactsSeen(seen) : f.from \in Int /\ f.until \in Int
<1>1. PICK S \in SUBSET SourceIds : seen \in [S -> Observations]
  BY DEF Batches
<1>2. \A s \in S : /\ IsFiniteSet(seen[s].facts)
                   /\ \A f \in seen[s].facts : f.from \in Int /\ f.until \in Int
  <2> TAKE s \in S
  <2>1. seen[s] \in Observations
    BY <1>1
  <2>2. seen[s].facts = {} \/ seen[s].facts \in Reports
    BY <2>1 DEF Observations, Complete, Unavailable
  <2> QED BY <2>2, ReportsAssumption, FS_EmptySet
<1> DEFINE answers == {seen[s].facts : s \in S}
           f == [s \in S |-> seen[s].facts]
<1>3. IsFiniteSet(answers)
  <2>1. f \in Surjection(S, answers)
    BY DEF Surjection
  <2>2. IsFiniteSet(S)
    BY SourcesAreFinite, FS_Subset
  <2> HIDE DEF f, answers
  <2> QED BY <2>1, <2>2, FS_Surjection
<1>4. IsFiniteSet(UNION answers)
  <2>1. \A T \in answers : IsFiniteSet(T)
    BY <1>2
  <2> HIDE DEF answers
  <2> QED BY <1>3, <2>1, FS_UNION
<1>5. FactsSeen(seen) = UNION answers
  BY <1>1 DEF FactsSeen
<1> QED BY <1>2, <1>4, <1>5

(* Whatever is published carries finitely many dated facts.                 *)
LEMMA PublishedAreDated ==
    ASSUME NEW proj \in Published
    PROVE  /\ IsFiniteSet(proj.facts)
           /\ \A f \in proj.facts : f.from \in Int /\ f.until \in Int
<1>1. CASE proj.facts = {}
  BY <1>1, FS_EmptySet
<1>2. CASE \E facts \in DirectReports : proj = Complete(facts)
  BY <1>2, ReportsAssumption DEF Complete
<1>3. CASE \E seen \in Batches : proj = Complete(FactsSeen(seen))
  BY <1>3, SeenAreDated DEF Complete
<1>4. ASSUME NEW seen \in Batches, proj = Combined(seen)
      PROVE  proj.facts = {} \/ proj = Complete(FactsSeen(seen))
  BY <1>4 DEF Combined, Unreconciled, Unavailable
<1> QED BY <1>1, <1>2, <1>3, <1>4 DEF Published, AllProjections, Unreconciled, Unavailable

(* The decision a reader computes from what it loads is the one the facts   *)
(* promise, at every instant (load, evaluate).                              *)
THEOREM EvaluationKeepsPromise == CoverageSpec => []EvaluationAgrees
<1>1. CoverageInv => EvaluationAgrees
  <2> SUFFICES ASSUME CoverageInv, NEW p \in People, Loaded(p),
                      NEW now \in 0 .. MaxTime
               PROVE  Evaluate(LoadedFacts(p), now) = PromisedAt(LoadedFacts(p), now)
    BY DEF EvaluationAgrees
  <2>1. head[p] \in DOMAIN revisions[p] /\ Normal(LoadedFacts(p))
    BY DEF Loaded, Readable, LoadedFacts
  <2>2. revisions[p] \in [1 .. head[p] -> Entries]
    BY DEF CoverageInv, CoverageTypes
  <2>3. revisions[p][head[p]].proj \in Published
    BY <2>1, <2>2 DEF Entries
  <2>4. Dated(LoadedFacts(p))
    BY <2>1, <2>3, PublishedAreDated DEF Dated, LoadedFacts, Normal, WellFormed
  <2>5. now \in Int
    BY PeriodsAssumption
  <2> QED BY <2>4, <2>5, EvaluationIsPromised
<1> QED BY <1>1, CoverageInvariant, PTL
=============================================================================
