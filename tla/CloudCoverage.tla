----------------------------- MODULE CloudCoverage -----------------------------
(***************************************************************************)
(* Cloud coverage of people: sources are registered, collections ask the   *)
(* providers about all of a person's sources, and projections are          *)
(* published as immutable revisions behind a head.  Every call is one      *)
(* transaction that holds the person's coordinator or head row, hence one  *)
(* step; the provider calls lie between BeginCollection and                *)
(* FinishCollection, where registrations, other collections and direct     *)
(* publications fall.  The reply of a committed call may be lost, and the  *)
(* caller then repeats it under the same operation name (the ...Again      *)
(* actions, which answer from what is stored and change nothing).  The     *)
(* ticket a collector carries over its provider calls is the pending row   *)
(* as begin returned it: none of its fields changes once it is stored, so  *)
(* finish takes the attempt and reads them there.                          *)
(***************************************************************************)
EXTENDS CoverageFacts

CONSTANTS
    People,             \* beneficiaries
    Bindings,           \* source bindings callers may register
    RegOps,             \* registration operation ids
    Attempts,           \* collection attempt ids
    DirectOps,          \* operation ids of direct publishers
    Reports,            \* sets of facts a source may answer with
    DirectReports,      \* sets of facts direct publishers may publish
    NoAttempt           \* current_attempt_id IS NULL

SourceIds == {b.src : b \in Bindings}

ASSUME BindingsAssumption ==
    IsFiniteSet(Bindings) /\ \A b \in Bindings : b.who \in People

(* An answer is a list of facts with timestamps in it. *)
ASSUME ReportsAssumption ==
    \A report \in Reports \cup DirectReports :
        /\ IsFiniteSet(report)
        /\ \A f \in report : f.from \in Int /\ f.until \in Int

ASSUME NoAttemptAssumption == NoAttempt \notin Attempts

VARIABLES
    sources,            \* cloud_coverage_sources
    coord,              \* cloud_coverage_coordinators
    attempts,           \* cloud_coverage_collection_attempts
    head,               \* current_revision of the head, 0 when there is none
    revisions           \* cloud_coverage_revisions with their facts

coverageVars == <<sources, coord, attempts, head, revisions>>

-----------------------------------------------------------------------------
(* Projections and observations *)

Reasons == {"needs_reconciliation", "conflicting_evidence"}

Complete(facts) == [status |-> "complete", reason |-> "none", facts |-> facts]

Unavailable(reason) ==
    [status |-> "unavailable", reason |-> reason, facts |-> {}]

Unreconciled == Unavailable("needs_reconciliation")

(* What a source answered: all its facts, or that it cannot tell.  The      *)
(* evidence references are part of the answer.                              *)
Observations ==
    {Complete(facts) : facts \in Reports} \cup {Unavailable(r) : r \in Reasons}

Answered(seen, s) == seen[s].status = "complete"

FactsSeen(seen) == UNION {seen[s].facts : s \in DOMAIN seen}

(* A batch that may be published: one answer for every bound source and no  *)
(* other, every source's facts its own, no fact or failed renewal claimed   *)
(* by two sources.                                                          *)
Conclusive(seen, bound) ==
    /\ DOMAIN seen = bound
    /\ \A s \in bound : /\ Normal(seen[s].facts)
                        /\ \A f \in seen[s].facts : f.src = s
    /\ \A s, t \in bound : \A f \in seen[s].facts, g \in seen[t].facts :
          s # t => /\ f.cov # g.cov
                   /\ HasRenewal(f) => f.renewal # g.renewal

(* A slip the runs notice: the sources that answered speak for all.         *)
CombinedOfAnswers(seen) == Complete(FactsSeen(seen))

(* One source that cannot tell makes the whole projection unavailable.      *)
Combined(seen) ==
    IF \A s \in DOMAIN seen : Answered(seen, s) THEN Complete(FactsSeen(seen))
    ELSE IF \E s \in DOMAIN seen : seen[s].reason = "conflicting_evidence"
    THEN Unavailable("conflicting_evidence")
    ELSE Unreconciled

-----------------------------------------------------------------------------
(* Rows *)

Names == ({"registration"} \X RegOps) \cup ({"collection"} \X Attempts)
            \cup ({"direct"} \X DirectOps)

RegistrationName(o) == <<"registration", o>>
CollectionName(a) == <<"collection", a>>
DirectName(d) == <<"direct", d>>

Owned(p) == {row.src : row \in {r \in sources : r.who = p}}

NoRow == [status |-> "none", epoch |-> 0, gen |-> 0, expected |-> 0,
          bound |-> {}, seen |-> << >>, rev |-> 0]

Superseded(row) ==
    IF row.status = "pending" THEN [row EXCEPT !.status = "superseded"] ELSE row

SupersedeAll(rows) == [a \in Attempts |-> Superseded(rows[a])]

-----------------------------------------------------------------------------
(* publish: compare and swap on the head, and an immutable revision.  A     *)
(* stale expectation and an operation used for something else are errors    *)
(* that roll the caller's transaction back.                                 *)

(* A slip the runs notice: operations are not looked up.                    *)
NeverUsed(p, name) == FALSE

Used(p, name) == \E n \in DOMAIN revisions[p] : revisions[p][n].op = name

(* A slip the runs notice: no compare and swap.                             *)
HeadIgnored(p, expected) == TRUE

HeadIs(p, expected) == head[p] = expected

NextRevision(p) == head[p] + 1

Publish(p, expected, name, proj) ==
    /\ ~Used(p, name)
    /\ HeadIs(p, expected)
    /\ head' = [head EXCEPT ![p] = NextRevision(p)]
    /\ revisions' = [revisions EXCEPT ![p] =
                        [n \in DOMAIN revisions[p] \cup {NextRevision(p)} |->
                           IF n = NextRevision(p)
                           THEN [op |-> name, expected |-> expected, proj |-> proj]
                           ELSE revisions[p][n]]]

(* The same call again: answered from the stored revision. *)
PublishAgain(p, expected, name, proj) ==
    /\ \E n \in DOMAIN revisions[p] :
          revisions[p][n] = [op |-> name, expected |-> expected, proj |-> proj]
    /\ UNCHANGED <<head, revisions>>

(* A publisher that bypasses the coordinator, with any idea of the head.    *)
DirectPublish(p, d, expected, proj) ==
    /\ Normal(proj.facts)
    /\ \/ Publish(p, expected, DirectName(d), proj)
       \/ PublishAgain(p, expected, DirectName(d), proj)
    /\ UNCHANGED <<sources, coord, attempts>>

-----------------------------------------------------------------------------
(* register_source *)

(* A projection that nobody coordinates is not adopted. *)
Bootstrapped(p) == coord[p].gen = 0 => head[p] = 0

(* A slip the runs notice: claims looked up per beneficiary.                *)
UnclaimedByOwner(b) ==
    \A row \in sources :
        row.who = b.who => row.src # b.src /\ row.alloc # b.alloc

Unclaimed(b) ==
    \A row \in sources : row.src # b.src /\ row.alloc # b.alloc

RegisterSource(b, o) ==
    LET p == b.who IN
    /\ Bootstrapped(p)
    /\ \A row \in sources : ~(row.who = p /\ row.op = o)
    /\ Unclaimed(b)
    /\ sources' = sources \cup
          {[who |-> p, src |-> b.src, alloc |-> b.alloc, op |-> o,
            gen |-> coord[p].gen + 1, rev |-> NextRevision(p)]}
    /\ attempts' = [attempts EXCEPT ![p] = SupersedeAll(@)]
    /\ coord' = [coord EXCEPT ![p] = [gen |-> coord[p].gen + 1,
                                      epoch |-> coord[p].epoch,
                                      current |-> NoAttempt]]
    /\ Publish(p, head[p], RegistrationName(o), Unreconciled)

RegisterAgain(b, o) ==
    /\ Bootstrapped(b.who)
    /\ \E row \in sources :
          /\ row.who = b.who /\ row.op = o
          /\ row.src = b.src /\ row.alloc = b.alloc
    /\ UNCHANGED coverageVars

-----------------------------------------------------------------------------
(* What the code demands of an attempt it reads back: it is bound to the    *)
(* sources registered up to its generation, and has a receipt and a result  *)
(* that stands by itself exactly when it is completed.                      *)

ValidBindings(p, row) ==
    LET rows == {r \in sources : r.who = p /\ r.gen <= row.gen} IN
    /\ row.bound = {r.src : r \in rows}
    /\ \E r \in rows : r.gen = row.gen

ValidReceipt(row) == row.status = "completed" <=> row.rev # 0

ValidResult(row) ==
    row.status = "completed" => Conclusive(row.seen, row.bound)

ValidAttempt(p, a) ==
    /\ ValidBindings(p, attempts[p][a])
    /\ ValidReceipt(attempts[p][a])
    /\ ValidResult(attempts[p][a])

-----------------------------------------------------------------------------
(* begin_collection: a new attempt supersedes the one under way. *)

NewAttempt(p) ==
    [status |-> "pending", epoch |-> coord[p].epoch + 1, gen |-> coord[p].gen,
     expected |-> head[p], bound |-> Owned(p), seen |-> << >>, rev |-> 0]

BeginCollection(p, a) ==
    /\ coord[p].gen > 0
    /\ attempts[p][a].status = "none"
    /\ attempts' = [attempts EXCEPT ![p] =
          [b \in Attempts |->
              IF b = a THEN NewAttempt(p)
              ELSE IF b = coord[p].current THEN Superseded(attempts[p][b])
              ELSE attempts[p][b]]]
    /\ coord' = [coord EXCEPT ![p] = [gen |-> coord[p].gen,
                                      epoch |-> coord[p].epoch + 1,
                                      current |-> a]]
    /\ UNCHANGED <<sources, head, revisions>>

BeginAgain(p, a) ==
    /\ attempts[p][a].status # "none"
    /\ ValidAttempt(p, a)
    /\ UNCHANGED coverageVars

-----------------------------------------------------------------------------
(* finish_collection *)

(* Only the latest attempt on the present source set may publish. *)
Current(p, a) ==
    /\ attempts[p][a].status = "pending"
    /\ coord[p].current = a
    /\ coord[p].gen = attempts[p][a].gen
    /\ coord[p].epoch = attempts[p][a].epoch

FinishCollection(p, a, seen) ==
    /\ Current(p, a)
    /\ ValidAttempt(p, a)
    /\ Conclusive(seen, attempts[p][a].bound)
    /\ Publish(p, attempts[p][a].expected, CollectionName(a), Combined(seen))
    /\ attempts' = [attempts EXCEPT ![p][a] =
          [@ EXCEPT !.status = "completed", !.seen = seen,
                    !.rev = NextRevision(p)]]
    /\ coord' = [coord EXCEPT ![p].current = NoAttempt]
    /\ UNCHANGED sources

FinishAgain(p, a, seen) ==
    /\ attempts[p][a].status = "completed"
    /\ ValidAttempt(p, a)
    /\ attempts[p][a].seen = seen
    /\ UNCHANGED coverageVars

-----------------------------------------------------------------------------
(* Specification *)

CoverageInit ==
    /\ sources = {}
    /\ coord = [p \in People |-> [gen |-> 0, epoch |-> 0, current |-> NoAttempt]]
    /\ attempts = [p \in People |-> [a \in Attempts |-> NoRow]]
    /\ head = [p \in People |-> 0]
    /\ revisions = [p \in People |-> [n \in {} |-> n]]

Batches == UNION {[S -> Observations] : S \in SUBSET SourceIds}

AllProjections == {Combined(seen) : seen \in Batches}
                     \cup {Complete(facts) : facts \in DirectReports}

CoverageNext ==
    \/ \E b \in Bindings, o \in RegOps : RegisterSource(b, o) \/ RegisterAgain(b, o)
    \/ \E p \in People, a \in Attempts :
          \/ BeginCollection(p, a)
          \/ BeginAgain(p, a)
          \/ \E seen \in Batches :
                FinishCollection(p, a, seen) \/ FinishAgain(p, a, seen)
    \/ \E p \in People, d \in DirectOps : \E expected \in 0 .. head[p] :
          \E proj \in {Complete(facts) : facts \in DirectReports} :
              DirectPublish(p, d, expected, proj)

CoverageSpec == CoverageInit /\ [][CoverageNext]_coverageVars

-----------------------------------------------------------------------------
(* load, the reader's side.  A head without its revision, or facts that do  *)
(* not stand together, would be reported as corruption.                     *)

Readable(p) ==
    /\ head[p] \in DOMAIN revisions[p]
    /\ Normal(revisions[p][head[p]].proj.facts)

Loaded(p) == Readable(p) /\ revisions[p][head[p]].proj.status = "complete"

LoadedFacts(p) == revisions[p][head[p]].proj.facts

-----------------------------------------------------------------------------
(* Properties *)

ProjectionOK(proj) ==
    \/ \E facts \in SUBSET UNION Reports : proj = Complete(facts)
    \/ \E r \in Reasons : proj = Unavailable(r)

CoverageTypeOK ==
    /\ sources \subseteq [who : People, src : SourceIds,
                          alloc : {b.alloc : b \in Bindings}, op : RegOps,
                          gen : Nat \ {0}, rev : Nat \ {0}]
    /\ coord \in [People -> [gen : Nat, epoch : Nat,
                             current : Attempts \cup {NoAttempt}]]
    /\ \A p \in People : \A a \in Attempts :
          /\ attempts[p][a].status \in {"none", "pending", "superseded", "completed"}
          /\ attempts[p][a].bound \subseteq SourceIds
    /\ head \in [People -> Nat]
    /\ \A p \in People : DOMAIN revisions[p] = 1 .. head[p]

(* The corruption checks of the code never fire: whatever the order of the  *)
(* calls, a stored attempt is valid, a completed one is the revision it     *)
(* published, right behind the revision it started from, and a head is      *)
(* readable.                                                                *)
StoredRowsValid ==
    \A p \in People :
        /\ head[p] # 0 => Readable(p)
        /\ \A a \in Attempts :
              LET row == attempts[p][a] IN
              /\ row.status # "none" => ValidAttempt(p, a)
              /\ row.status = "completed" =>
                    /\ row.rev = row.expected + 1
                    /\ row.rev \in DOMAIN revisions[p]
                    /\ revisions[p][row.rev] =
                          [op |-> CollectionName(a), expected |-> row.expected,
                           proj |-> Combined(row.seen)]

(* The registration a repeated call is answered from names the revision     *)
(* that withdrew the coverage, and generations number a person's sources.   *)
RegistrationsValid ==
    \A row \in sources :
        /\ row.rev \in DOMAIN revisions[row.who]
        /\ revisions[row.who][row.rev].op = RegistrationName(row.op)
        /\ row.gen \in 1 .. coord[row.who].gen
        /\ \A other \in sources :
              \/ other = row
              \/ /\ other.src # row.src /\ other.alloc # row.alloc
                 /\ other.who = row.who => other.gen # row.gen /\ other.op # row.op

(* What a reader loads from a collection speaks for every source the person *)
(* has: a registration in between withdraws the snapshot.                   *)
HeadCoversSources ==
    \A p \in People : \A a \in Attempts :
        Readable(p) /\ revisions[p][head[p]].op = CollectionName(a) =>
            /\ attempts[p][a].status = "completed"
            /\ attempts[p][a].bound = Owned(p)
            /\ Loaded(p) =>
                  \A s \in Owned(p) : Answered(attempts[p][a].seen, s)

(* The snapshots are atomic: see CoverageService. *)
Covers1(p, n) ==
    [op |-> revisions[p][n].op,
     covers |-> IF \E a \in Attempts : revisions[p][n].op = CollectionName(a)
                THEN attempts[p][revisions[p][n].op[2]].bound ELSE {},
     proj |-> revisions[p][n].proj]

Service == INSTANCE CoverageService WITH
    owned <- [p \in People |-> Owned(p)],
    size <- head,
    ledger <- [p \in People |-> [n \in DOMAIN revisions[p] |-> Covers1(p, n)]],
    Pending <- Unreconciled,
    Projections <- AllProjections

AtomicCollections == Service!ServiceSpec

(* The decision computed from a loaded projection is the one the facts      *)
(* promise at every instant.                                                *)
EvaluationAgrees ==
    \A p \in People : Loaded(p) =>
        \A now \in 0 .. MaxTime :
            Evaluate(LoadedFacts(p), now) = PromisedAt(LoadedFacts(p), now)
=============================================================================
