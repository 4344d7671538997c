------------------------------ MODULE LocalVault ------------------------------
(***************************************************************************)
(* The secrets in the local SQLite store, edited by any number of `sotto`  *)
(* processes at once: `set`, `import`, `rollback`, `env copy` and `rm`.    *)
(* Names are encrypted, so a command finds the row of a name by reading    *)
(* rows and decrypting them, in statements of their own, and writes by id  *)
(* in a later transaction.  SQLite makes each statement or transaction one *)
(* step; SyncClient has what pull and push do to the same rows.            *)
(***************************************************************************)
EXTENDS Naturals, FiniteSets

CONSTANTS
    Processes,          \* running commands
    Environments,       \* environments of the project
    Names,              \* names of secrets
    Values,             \* their values
    MaxRows,            \* bound on rows ever inserted
    MaxVersion          \* bound on the version of a row

VARIABLES
    rows,               \* secrets: a function from 1 .. the rows inserted
    history,            \* secret_versions, with the value the writer found
    process,            \* what each process is doing
    overlapped          \* whether two commands ever ran at the same time

vars == <<rows, history, process, overlapped>>

Idle == [at |-> "idle"]

(* No row of that name: the write will insert one.                          *)
NoBase == [id |-> 0, version |-> 0]

Item == [name : Names, value : Values]

Ids == DOMAIN rows

Live(id) == ~rows[id].deleted

Named(env, name) == {id \in Ids : rows[id].env = env /\ rows[id].name = name}

LiveNamed(env, name) == {id \in Named(env, name) : Live(id)}

DeletedNamed(env, name) == Named(env, name) \ LiveNamed(env, name)

Entries(env) ==
    {[name |-> rows[id].name, value |-> rows[id].value] :
        id \in {i \in Ids : rows[i].env = env /\ Live(i)}}

Begin(p, state) ==
    /\ process[p] = Idle
    /\ process' = [process EXCEPT ![p] = state]
    /\ overlapped' =
           (overlapped \/ \E q \in Processes \ {p} : process[q] # Idle)

Become(p, state) ==
    /\ process' = [process EXCEPT ![p] = state]
    /\ UNCHANGED overlapped

Init ==
    /\ rows = << >>
    /\ history = {}
    /\ process = [p \in Processes |-> Idle]
    /\ overlapped = FALSE

-----------------------------------------------------------------------------
(* Commands that write: what they are going to set *)

Setting(env, todo) == [at |-> "next", env |-> env, todo |-> todo]

(* `set` has one item, `import` those of its file: a name the file has twice *)
(* is set twice.                                                            *)
StartSet(p, env, todo) ==
    /\ todo # {}
    /\ Begin(p, Setting(env, todo))
    /\ UNCHANGED <<rows, history>>

(* `rollback` finds the secret, live or not, and takes one of its versions  *)
(* from the history the server keeps.                                       *)
StartRollback(p, env, name) ==
    \E h \in history :
        /\ h.id \in Named(env, name)
        /\ Begin(p, Setting(env, {[name |-> name, value |-> h.value]}))
        /\ UNCHANGED <<rows, history>>

(* `env copy --confirm` reads the entries of the source ...                 *)
StartCopy(p, src, dst) ==
    /\ src # dst
    /\ Begin(p, [at |-> "plan", env |-> dst, from |-> Entries(src)])
    /\ UNCHANGED <<rows, history>>

(* ... then those of the target, and sets the ones that differ.             *)
PlanCopy(p) ==
    /\ process[p].at = "plan"
    /\ Become(p, Setting(process[p].env,
                         process[p].from \ Entries(process[p].env)))
    /\ UNCHANGED <<rows, history>>

-----------------------------------------------------------------------------
(* Vault::set, once for every item *)

Base(id) == [id |-> id, version |-> rows[id].version]

Found(p, item, at, id) ==
    Become(p, [at |-> at, env |-> process[p].env,
               todo |-> process[p].todo, item |-> item,
               base |-> IF id = 0 THEN NoBase ELSE Base(id),
               saw |-> IF id = 0 THEN item.value ELSE rows[id].value])

(* find_by_name: the live rows.                                             *)
FindLive(p, item) ==
    /\ process[p].at = "next"
    /\ item \in process[p].todo
    /\ LET found == LiveNamed(process[p].env, item.name)
       IN  \/ \E id \in found : Found(p, item, "write", id)
           \/ found = {} /\ Found(p, item, "deleted", 0)
    /\ UNCHANGED <<rows, history>>

(* find_deleted_by_name: the tombstones, read afterwards.                   *)
(* A slip the runs notice: a deleted name starts a fresh secret.            *)
NoneDeleted(env, name) == {}

Resurrectable(env, name) == DeletedNamed(env, name)

FindDeleted(p) ==
    /\ process[p].at = "deleted"
    /\ LET item == process[p].item
           found == Resurrectable(process[p].env, item.name)
       IN  \/ \E id \in found : Found(p, item, "write", id)
           \/ found = {} /\ Found(p, item, "write", 0)
    /\ UNCHANGED <<rows, history>>

Snapshot(id, version, item, saw) ==
    history' = history \cup {[id |-> id, version |-> version,
                              value |-> item.value, saw |-> saw]}

Written(p) ==
    Become(p, Setting(process[p].env, process[p].todo \ {process[p].item}))

(* insert_secret: a row at version 1 and its snapshot.                      *)
InsertSecret(p) ==
    /\ process[p].at = "write"
    /\ process[p].base = NoBase
    /\ Cardinality(Ids) < MaxRows
    /\ LET id == Cardinality(Ids) + 1
           item == process[p].item
       IN  /\ rows' = [i \in 1 .. id |->
                  IF i < id THEN rows[i]
                  ELSE [env |-> process[p].env, name |-> item.name,
                        value |-> item.value, version |-> 1,
                        deleted |-> FALSE]]
           /\ Snapshot(id, 1, item, item.value)
    /\ Written(p)

(* A slip the runs notice: any writer may take the next version.            *)
Unchecked(base) == TRUE

(* The version found is still the row's; otherwise update_secret answers    *)
(* Conflict.                                                                *)
Current(base) == rows[base.id].version = base.version

UpdateSecret(p) ==
    /\ process[p].at = "write"
    /\ process[p].base # NoBase
    /\ Current(process[p].base)
    /\ LET base == process[p].base
           item == process[p].item
           version == rows[base.id].version + 1
       IN  /\ version <= MaxVersion
           /\ rows' = [rows EXCEPT ![base.id].value = item.value,
                                   ![base.id].version = version,
                                   ![base.id].deleted = FALSE]
           /\ Snapshot(base.id, version, item, process[p].saw)
    /\ Written(p)

Done(p) ==
    /\ process[p].at = "next"
    /\ process[p].todo = {}
    /\ Become(p, Idle)
    /\ UNCHANGED <<rows, history>>

-----------------------------------------------------------------------------
(* rm, and commands cut short *)

StartRemove(p, env, name) ==
    \E id \in LiveNamed(env, name) :
        /\ Begin(p, [at |-> "remove", id |-> id])
        /\ UNCHANGED <<rows, history>>

(* delete_secret leaves a tombstone and the version as it was.              *)
DeleteSecret(p) ==
    /\ process[p].at = "remove"
    /\ Live(process[p].id)
    /\ rows' = [rows EXCEPT ![process[p].id].deleted = TRUE]
    /\ Become(p, Idle)
    /\ UNCHANGED history

(* Conflict, NotFound, a store that stays busy, or the end of the process:  *)
(* what an import or a copy has set so far stays.                           *)
Stop(p) ==
    /\ process[p] # Idle
    /\ Become(p, Idle)
    /\ UNCHANGED <<rows, history>>

-----------------------------------------------------------------------------

Start(p) ==
    \E env \in Environments :
        \/ \E todo \in SUBSET Item : StartSet(p, env, todo)
        \/ \E name \in Names : StartRollback(p, env, name)
        \/ \E name \in Names : StartRemove(p, env, name)
        \/ \E src \in Environments : StartCopy(p, src, env)

Step(p) ==
    \/ PlanCopy(p)
    \/ \E item \in Item : FindLive(p, item)
    \/ FindDeleted(p)
    \/ InsertSecret(p)
    \/ UpdateSecret(p)
    \/ Done(p)
    \/ DeleteSecret(p)
    \/ Stop(p)

Next == \E p \in Processes : Start(p) \/ Step(p)

Spec == Init /\ [][Next]_vars

-----------------------------------------------------------------------------
(* Properties *)

(* No process's write is overwritten unseen: every version replaces the     *)
(* very content its writer had found, whoever wrote or removed in between,  *)
(* and what a row holds is the newest version of its history.               *)
NothingOverwritten ==
    /\ \A h \in history :
          h.version > 1 =>
              {g.value : g \in {g \in history : /\ g.id = h.id
                                                /\ g.version = h.version - 1}}
              = {h.saw}
    /\ \A id \in Ids :
          {h.value : h \in {h \in history : /\ h.id = id
                                            /\ h.version >= rows[id].version}}
          = {rows[id].value}

(* set resurrects a deleted name in place rather than starting a second     *)
(* secret (vault.rs:93-95), through any sequence of sets, imports, copies,  *)
(* rollbacks and removals, also ones that stop half way.                    *)
NoDuplicates ==
    \A env \in Environments, name \in Names :
        Cardinality(Named(env, name)) <= 1

(* That holds while commands run one after the other, which the code relies *)
(* on; NoDuplicates alone is what the comment says.                         *)
OneSecretPerName == ~overlapped => NoDuplicates

=============================================================================
