---------------------------- MODULE Provisioning ----------------------------
(***************************************************************************)
(* How an organisation, its projects and their environments come to exist, *)
(* on the server and on every device: `org create`, `org invite`, `init`,  *)
(* the structural part of `push`, `share`, `clone` and `setup`.  A command *)
(* is several requests and several statements on the local store, may stop *)
(* between any two of them, and is then run again.  The organisation key   *)
(* exists once; a member holds a copy sealed to a public key, and names of *)
(* environments are encrypted under it when the device could get it.       *)
(* SyncClient and TeamClient have the secrets and the vault keys.          *)
(***************************************************************************)
EXTENDS Naturals, Sequences, FiniteSets

CONSTANTS
    Users,                  \* people, each with one device
    Terminals,              \* the commands a device can run at once
    User,                   \* whose device a terminal is on
    DefaultEnvironments,    \* the names `init` creates, in order
    MaxProjects,            \* bound on projects ever initialised
    Founders,               \* who creates organisations and projects
    Newcomers,              \* who clones, sets up, or loses a machine
    CloneOptions,           \* how `clone` is called: with `--org` or not, and
                            \* with a name after `--as` or none
    MaxKeys                 \* bound on the key pairs each user makes

NoName == "none"

(* The names of the default environments are distinct.                      *)
ASSUME ProvisioningAssumption ==
    /\ User \in [Terminals -> Users]
    /\ CloneOptions \subseteq [org : BOOLEAN, as : STRING]
    /\ MaxProjects \in Nat /\ MaxKeys \in [Users -> Nat]
    /\ DefaultEnvironments \in Seq(STRING) /\ DefaultEnvironments # << >>
    /\ \A i, j \in DOMAIN DefaultEnvironments :
          DefaultEnvironments[i] = DefaultEnvironments[j] => i = j

VARIABLES
    account,                \* public key of a user on the server, 0 for none
    role,                   \* organization_memberships
    deleting,               \* organizations.lifecycle_state = 'deleting'
    orgKey,                 \* what a member's organisation key is sealed to
    projects,               \* projects on the server
    envs,                   \* environments on the server
    grants,                 \* environment_grants
    device,                 \* key pair of the device, 0 before set-up
    local,                  \* projects and environments in the local store
    ready,                  \* what the device last said is usable: a set of
                            \* one configuration, or none
    published,              \* the sotto.toml files of `init`, committed
    task,                   \* what a terminal is doing
    made                    \* key pairs and projects made so far

server == <<account, role, deleting, orgKey, projects, envs, grants>>
store == <<device, local, ready, published, made>>
vars == <<server, store, task>>

Idle == [at |-> "idle"]
Stopped == [at |-> "stopped"]

(* A display name: a plain one, or the id of a record that has none.        *)
Plain(text) == [by |-> "name", text |-> text]
IdOf(env) == [by |-> "id", text |-> env.label]
Shared == Plain("shared")
Names == {Plain(DefaultEnvironments[i]) : i \in DOMAIN DefaultEnvironments}
            \cup {Shared}

(* The key a name is encrypted under.                                       *)
OrganisationKey == [of |-> "organisation", key |-> 0]
Master(t) == [of |-> User[t], key |-> task[t].key]

Admin(u) == role[u] \in {"admin", "owner"}

(* A copy of the organisation key the device can open.                      *)
HoldsOrgKey(u) == orgKey[u] # 0 /\ orgKey[u] = device[u]

Project(id) == {p \in projects : p.id = id}

OfOrganisation(id) == \E p \in Project(id) : p.org

(* access::project_access                                                   *)
Reaches(u, id) ==
    \E p \in Project(id) : IF p.org THEN role[u] # "none" ELSE p.owner = u

LocalEnv(u, project, name) ==
    {e \in local[u].envs : e.project = project /\ e.name = name}

KnownEnv(u, id) == \E e \in local[u].envs : e.id = id

(* environments: UNIQUE (project_id, name)                                  *)
NameFree(u, project, name) == LocalEnv(u, project, name) = {}

InsertProject(u, id) ==
    local' = [local EXCEPT ![u].projects = @ \cup {id}]

(* Whether the user renamed it with `--as` is not stored: a property asks.  *)
InsertEnv(u, id, name, key, renamed) ==
    local' = [local EXCEPT ![u].envs =
                  @ \cup {[id |-> id, project |-> id.project, name |-> name,
                           key |-> key, renamed |-> renamed]}]

Config(project, name, org) ==
    [project |-> project, environment |-> name, org |-> org]

Start(t, state) == task[t] = Idle /\ task' = [task EXCEPT ![t] = state]
Become(t, state) == task' = [task EXCEPT ![t] = state]

Init ==
    /\ account = [u \in Users |-> 0]
    /\ role = [u \in Users |-> "none"]
    /\ deleting = FALSE
    /\ orgKey = [u \in Users |-> 0]
    /\ projects = {} /\ envs = {} /\ grants = {}
    /\ device = [u \in Users |-> 0]
    /\ local = [u \in Users |-> [projects |-> {}, envs |-> {}]]
    /\ ready = [u \in Users |-> {}]
    /\ published = {}
    /\ task = [t \in Terminals |-> Idle]
    /\ made = [keys |-> [u \in Users |-> 0], projects |-> 0]

-----------------------------------------------------------------------------
(* sotto init *)

StartInit(t, org) ==
    LET u == User[t] IN
    /\ device[u] = 0 \/ (u \in Founders /\ made.projects < MaxProjects)
    /\ Start(t, [at |-> "create", org |-> org])
    /\ IF device[u] = 0
       THEN /\ made.keys[u] < MaxKeys[u]
            /\ made' = [made EXCEPT !.keys[u] = @ + 1]
            /\ device' = [device EXCEPT ![u] = made.keys[u] + 1]
       ELSE UNCHANGED <<device, made>>
    /\ UNCHANGED <<server, local, ready, published>>

(* Vault::create_project: the project row ...                               *)
InitProject(t) ==
    /\ task[t].at = "create"
    /\ User[t] \in Founders /\ made.projects < MaxProjects
    /\ made' = [made EXCEPT !.projects = @ + 1]
    /\ InsertProject(User[t], made.projects + 1)
    /\ Become(t, [at |-> "inserting", org |-> task[t].org,
                  project |-> made.projects + 1, todo |-> DefaultEnvironments])
    /\ UNCHANGED <<server, device, ready, published>>

(* ... and each environment, its vault key sealed to the account.           *)
InitEnv(t) ==
    /\ task[t].at = "inserting"
    /\ task[t].todo # << >>
    /\ LET label == Head(task[t].todo)
           id == [project |-> task[t].project, label |-> label]
       IN  InsertEnv(User[t], id, Plain(label), device[User[t]], FALSE)
    /\ Become(t, [task[t] EXCEPT !.todo = Tail(@)])
    /\ UNCHANGED <<server, device, ready, published, made>>

SaveInit(t) ==
    /\ task[t].at = "inserting"
    /\ task[t].todo = << >>
    /\ LET config == Config(task[t].project,
                            Plain(Head(DefaultEnvironments)), task[t].org)
       IN  /\ ready' = [ready EXCEPT ![User[t]] = {config}]
           /\ published' = published \cup {config}
    /\ Become(t, Idle)
    /\ UNCHANGED <<server, device, local, made>>

-----------------------------------------------------------------------------
(* sotto push, as far as the environment exists on the server *)

(* resolve_env and get_project: any committed configuration, with any       *)
(* environment given by `--env`.                                            *)
StartPush(t, config, name) ==
    \E e \in LocalEnv(User[t], config.project, name) :
        /\ Start(t, [at |-> "account", org |-> config.org, env |-> e,
                     key |-> device[User[t]]])
        /\ UNCHANGED <<server, store>>

(* ensure_account: an account that exists is left as it is.                 *)
EnsureAccount(t) ==
    /\ task[t].at = "account"
    /\ account' = [account EXCEPT ![User[t]] =
                       IF @ = 0 THEN device[User[t]] ELSE @]
    /\ Become(t, [task[t] EXCEPT !.at = "name"])
    /\ UNCHANGED <<role, deleting, orgKey, projects, envs, grants, store>>

(* The same request, by a push of a project outside this model.             *)
PushElsewhere(t) ==
    LET u == User[t] IN
    /\ task[t] = Idle
    /\ device[u] # 0 /\ account[u] = 0
    /\ account' = [account EXCEPT ![u] = device[u]]
    /\ UNCHANGED <<role, deleting, orgKey, projects, envs, grants, store, task>>

(* name_key: whatever goes wrong on the way to the organisation key, the    *)
(* master key takes its place.                                              *)
NameKeys(t, org) ==
    {Master(t)} \cup
    IF org /\ HoldsOrgKey(User[t]) /\ task[t].key = device[User[t]]
    THEN {OrganisationKey} ELSE {}

PickNameKey(t) ==
    /\ task[t].at = "name"
    /\ \E key \in NameKeys(t, task[t].org) :
           Become(t, [at |-> "project", org |-> task[t].org,
                      env |-> task[t].env, name |-> key])
    /\ UNCHANGED <<server, store>>

(* What the server answers to the two structural requests: no access hides  *)
(* the project, then a deletion in progress refuses, then the role.         *)
ProjectReply(u, id, org) ==
    IF org /\ role[u] = "none" THEN "missing"
    ELSE IF org /\ deleting THEN "conflict"
    ELSE IF org /\ ~Admin(u) THEN "forbidden"
    ELSE IF Project(id) = {} THEN "created"
    ELSE IF Reaches(u, id) /\ \E p \in Project(id) : p.org = org THEN "ok"
    ELSE "conflict"

EnvReply(u, id) ==
    IF ~Reaches(u, id.project) THEN "missing"
    ELSE IF OfOrganisation(id.project) /\ deleting THEN "conflict"
    ELSE IF OfOrganisation(id.project) /\ ~Admin(u) THEN "forbidden"
    ELSE IF \A e \in envs : e.id # id THEN "created"
    ELSE "ok"

(* A slip the runs notice: a refused creation always ends the push.         *)
GoesOnStrict(reply, org) == reply \in {"created", "ok"}

(* tolerate_org_forbidden                                                   *)
GoesOn(reply, org) ==
    reply \in {"created", "ok"} \/ (reply = "forbidden" /\ org)

After(t, reply, next) ==
    Become(t, IF GoesOn(reply, task[t].org) THEN [task[t] EXCEPT !.at = next]
              ELSE Stopped)

CreateProject(t) ==
    LET id == task[t].env.project
        reply == ProjectReply(User[t], id, task[t].org)
    IN
    /\ task[t].at = "project"
    /\ projects' = projects \cup
           IF reply = "created"
           THEN {[id |-> id, owner |-> User[t], org |-> task[t].org]} ELSE {}
    /\ After(t, reply, "env")
    /\ UNCHANGED <<account, role, deleting, orgKey, envs, grants, store>>

(* The environment and its creator's grant, in one transaction.             *)
CreateEnvironment(t) ==
    LET id == task[t].env.id
        reply == EnvReply(User[t], id)
        new == reply = "created"
    IN
    /\ task[t].at = "env"
    /\ envs' = envs \cup
           IF new THEN {[id |-> id, name |-> task[t].name]} ELSE {}
    /\ grants' = grants \cup
           IF new THEN {[env |-> id, user |-> User[t],
                         key |-> task[t].env.key]} ELSE {}
    /\ After(t, reply, "snapshot")
    /\ UNCHANGED <<account, role, deleting, orgKey, projects, store>>

(* The first request of the push itself finds the environment, or does not. *)
ReadSnapshot(t) ==
    LET id == task[t].env.id
    IN
    /\ task[t].at = "snapshot"
    /\ IF Reaches(User[t], id.project) /\ \E e \in envs : e.id = id
       THEN Become(t, Idle)
       ELSE Become(t, Stopped)
    /\ UNCHANGED <<server, store>>

-----------------------------------------------------------------------------
(* sotto setup, in a directory with a committed configuration *)

(* restore_account                                                          *)
StartSetup(t, config) ==
    LET u == User[t] IN
    /\ u \in Newcomers /\ device[u] = 0 /\ account[u] # 0
    /\ Start(t, [at |-> "restore", config |-> config, key |-> account[u],
                 opens |-> {}, todo |-> {}])
    /\ device' = [device EXCEPT ![u] = account[u]]
    /\ UNCHANGED <<server, local, ready, published, made>>

RestoreProject(t) ==
    /\ task[t].at = "restore"
    /\ InsertProject(User[t], task[t].config.project)
    /\ \E key \in NameKeys(t, task[t].config.org) :
           Become(t, [task[t] EXCEPT !.at = "list", !.opens = {key, Master(t)}])
    /\ UNCHANGED <<server, device, ready, published, made>>

(* pull_environments lists the environments with the caller's own grants ...*)
Granted(u, project) ==
    UNION {{[env |-> e, key |-> g.key] :
               g \in {x \in grants : x.env = e.id /\ x.user = u}} :
           e \in {y \in envs : y.id.project = project}}

ListEnvironments(t) ==
    LET project == task[t].config.project
        u == User[t]
    IN
    /\ task[t].at = "list"
    /\ Reaches(u, project)
    /\ Become(t, [task[t] EXCEPT !.at = "restoring",
                                 !.todo = Granted(u, project)])
    /\ UNCHANGED <<server, store>>

(* A slip the runs notice: a name that cannot be read is taken from the     *)
(* configuration.                                                           *)
ActiveName(t, env) ==
    IF env.name \in task[t].opens
    THEN Plain(env.id.label) ELSE task[t].config.environment

(* The organisation key, then the master key, then the id.                  *)
RestoredName(t, env) ==
    IF env.name \in task[t].opens
    THEN Plain(env.id.label) ELSE IdOf(env.id)

(* ... and inserts those it does not know, one by one.                      *)
RestoreEnv(t, item) ==
    LET u == User[t]
        env == item.env
        name == RestoredName(t, env)
    IN
    /\ task[t].at = "restoring"
    /\ item \in task[t].todo
    /\ IF KnownEnv(u, env.id) THEN UNCHANGED local
       ELSE /\ NameFree(u, env.id.project, name)
            /\ InsertEnv(u, env.id, name, item.key, FALSE)
    /\ Become(t, [task[t] EXCEPT !.todo = @ \ {item}])
    /\ UNCHANGED <<server, device, ready, published, made>>

(* A slip the runs notice: the configuration is saved whatever the pull says.*)
NoPull(u, config) == TRUE

(* The pull at the end, which needs the environment of the configuration.   *)
PullWorks(u, config) ==
    \E e \in LocalEnv(u, config.project, config.environment) :
        Reaches(u, e.id.project) /\ \E x \in envs : x.id = e.id

FinishSetup(t) ==
    LET u == User[t] IN
    /\ task[t].at = "restoring" /\ task[t].todo = {}
    /\ PullWorks(u, task[t].config)
    /\ ready' = [ready EXCEPT ![u] = {task[t].config}]
    /\ Become(t, Idle)
    /\ UNCHANGED <<server, device, local, published, made>>

-----------------------------------------------------------------------------
(* sotto clone, with the arguments `share` prints *)

(* The grant must open before anything is stored.                           *)
StartClone(t, env, options) ==
    LET u == User[t] IN
    /\ u \in Newcomers /\ device[u] # 0
    /\ Reaches(u, env.id.project)
    /\ [env |-> env.id, user |-> u, key |-> device[u]] \in grants
    /\ Start(t, [at |-> "label", env |-> env, options |-> options,
                 key |-> device[u]])
    /\ UNCHANGED <<server, store>>

(* decrypted_env_name, or "shared" when any part of it fails.               *)
FoundNames(u, env, org) ==
    {Shared} \cup
    IF /\ org /\ HoldsOrgKey(u) /\ env.name = OrganisationKey
       /\ Reaches(u, env.id.project)
    THEN {Plain(env.id.label)} ELSE {}

(* What the user says after `--as`, or else the name found.                 *)
CloneNames(u, env, options) ==
    IF options.as = NoName THEN FoundNames(u, env, options.org)
    ELSE {Plain(options.as)}

CloneProject(t) ==
    LET u == User[t]
        env == task[t].env
    IN
    /\ task[t].at = "label"
    /\ InsertProject(u, env.id.project)
    /\ \E name \in CloneNames(u, env, task[t].options) :
           Become(t, [at |-> "clone", env |-> env, key |-> task[t].key,
                      renamed |-> task[t].options.as
                                      \notin {NoName, env.id.label},
                      config |-> Config(env.id.project, name,
                                        task[t].options.org)])
    /\ UNCHANGED <<server, device, ready, published, made>>

CloneEnv(t) ==
    LET u == User[t]
        id == task[t].env.id
        name == task[t].config.environment
    IN
    /\ task[t].at = "clone"
    /\ IF KnownEnv(u, id) THEN UNCHANGED local
       ELSE /\ NameFree(u, id.project, name)
            /\ InsertEnv(u, id, name, task[t].key, task[t].renamed)
    /\ Become(t, [at |-> "cloned", config |-> task[t].config, asked |-> id])
    /\ UNCHANGED <<server, device, ready, published, made>>

(* pull, then the configuration.                                            *)
FinishClone(t) ==
    /\ task[t].at = "cloned"
    /\ PullWorks(User[t], task[t].config)
    /\ ready' = [ready EXCEPT ![User[t]] = {task[t].config}]
    /\ Become(t, Idle)
    /\ UNCHANGED <<server, device, local, published, made>>

-----------------------------------------------------------------------------
(* The organisation and its key *)

(* create_org: the organisation and its owner, in one transaction.          *)
CreateOrg(t) ==
    LET u == User[t] IN
    /\ task[t] = Idle
    /\ u \in Founders /\ device[u] # 0
    /\ \A v \in Users : role[v] = "none"
    /\ role' = [role EXCEPT ![u] = "owner"]
    /\ orgKey' = [orgKey EXCEPT ![u] = device[u]]
    /\ UNCHANGED <<account, deleting, projects, envs, grants, store, task>>

(* invite_member: a rejoining user starts without grants and without key.   *)
Invite(t, v) ==
    /\ Admin(User[t]) /\ ~deleting /\ role[v] = "none" /\ v # User[t]
    /\ Start(t, IF account[v] = 0 THEN Idle
                ELSE [at |-> "key", to |-> v, public |-> account[v]])
    /\ role' = [role EXCEPT ![v] = "member"]
    /\ orgKey' = [orgKey EXCEPT ![v] = 0]
    /\ grants' = {g \in grants : g.user # v \/ ~OfOrganisation(g.env.project)}
    /\ UNCHANGED <<account, deleting, projects, envs, store>>

(* share_env: the member's public key, and the vault key, which must open.  *)
StartShare(t, env, v) ==
    LET u == User[t] IN
    /\ env \in local[u].envs /\ env.key = device[u] /\ v # u
    /\ role[u] # "none" /\ role[v] # "none" /\ account[v] # 0
    /\ Start(t, [at |-> "share", env |-> env.id, to |-> v,
                 public |-> account[v]])
    /\ UNCHANGED <<server, store>>

(* create_grant                                                             *)
CreateGrant(t) ==
    LET v == task[t].to
        id == task[t].env
    IN
    /\ task[t].at = "share"
    /\ Admin(User[t]) /\ ~deleting /\ role[v] # "none"
    /\ \E e \in envs : e.id = id
    /\ OfOrganisation(id.project)
    /\ grants' = {g \in grants : g.env # id \/ g.user # v}
                     \cup {[env |-> id, user |-> v, key |-> task[t].public]}
    /\ Become(t, [at |-> "key", to |-> v, public |-> task[t].public])
    /\ UNCHANGED <<account, role, deleting, orgKey, projects, envs, store>>

(* org_key: the sender's own copy, which must open.                         *)
OpenOrgKey(t) ==
    /\ task[t].at = "key"
    /\ HoldsOrgKey(User[t])
    /\ Become(t, [task[t] EXCEPT !.at = "seal"])
    /\ UNCHANGED <<server, store>>

(* grant_org_key                                                            *)
GrantOrgKey(t) ==
    LET v == task[t].to IN
    /\ task[t].at = "seal"
    /\ Admin(User[t]) /\ ~deleting /\ role[v] # "none"
    /\ orgKey' = [orgKey EXCEPT ![v] = task[t].public]
    /\ Become(t, Idle)
    /\ UNCHANGED <<account, role, deleting, projects, envs, grants,
                   store>>

-----------------------------------------------------------------------------
(* What happens around these commands *)

(* update_member and remove_member, of somebody who is not an owner; the    *)
(* grants and the copy of the key go with the membership.                   *)
Promote(v) ==
    /\ role[v] = "member" /\ ~deleting
    /\ role' = [role EXCEPT ![v] = "admin"]
    /\ UNCHANGED <<account, deleting, orgKey, projects, envs, grants, store,
                   task>>

Demote(v) ==
    /\ role[v] = "admin" /\ ~deleting
    /\ role' = [role EXCEPT ![v] = "member"]
    /\ UNCHANGED <<account, deleting, orgKey, projects, envs, grants, store,
                   task>>

RemoveMember(v) ==
    /\ role[v] \in {"member", "admin"} /\ ~deleting
    /\ role' = [role EXCEPT ![v] = "none"]
    /\ orgKey' = [orgKey EXCEPT ![v] = 0]
    /\ grants' = {g \in grants : g.user # v \/ ~OfOrganisation(g.env.project)}
    /\ UNCHANGED <<account, deleting, projects, envs, store, task>>

(* request_deletion and finish_recovery, as far as members notice: reads go  *)
(* on while the organisation is being deleted.  The purge is in OrgDeletion. *)
RequestDeletion(u) ==
    /\ role[u] = "owner" /\ ~deleting
    /\ deleting' = TRUE
    /\ UNCHANGED <<account, role, orgKey, projects, envs, grants, store, task>>

Recover ==
    /\ deleting
    /\ deleting' = FALSE
    /\ UNCHANGED <<account, role, orgKey, projects, envs, grants, store, task>>

(* A new machine: nothing local is left.                                    *)
Replace(u) ==
    /\ u \in Newcomers /\ device[u] # 0
    /\ \A t \in Terminals : User[t] = u => task[t] = Idle
    /\ device' = [device EXCEPT ![u] = 0]
    /\ local' = [local EXCEPT ![u] = [projects |-> {}, envs |-> {}]]
    /\ ready' = [ready EXCEPT ![u] = {}]
    /\ UNCHANGED <<server, published, made, task>>

(* A command ends: killed, a request or a statement refused or lost, or its *)
(* message read.                                                            *)
Stop(t) ==
    /\ task[t] # Idle
    /\ Become(t, Idle)
    /\ UNCHANGED <<server, store>>

Starts(t) ==
    \/ \E org \in BOOLEAN : StartInit(t, org)
    \/ \E c \in published \cup ready[User[t]], name \in Names :
           StartPush(t, c, name)
    \/ \E c \in published : StartSetup(t, c)
    \/ \E e \in envs, o \in CloneOptions : StartClone(t, e, o)
    \/ \E v \in Users : Invite(t, v)
    \/ \E e \in local[User[t]].envs, v \in Users : StartShare(t, e, v)
    \/ CreateOrg(t) \/ PushElsewhere(t)

Continues(t) ==
    \/ InitProject(t) \/ InitEnv(t) \/ SaveInit(t)
    \/ EnsureAccount(t) \/ PickNameKey(t)
    \/ CreateProject(t) \/ CreateEnvironment(t) \/ ReadSnapshot(t)
    \/ RestoreProject(t) \/ ListEnvironments(t)
    \/ task[t].at = "restoring" /\ \E item \in task[t].todo : RestoreEnv(t, item)
    \/ FinishSetup(t)
    \/ CloneProject(t) \/ CloneEnv(t) \/ FinishClone(t)
    \/ CreateGrant(t) \/ OpenOrgKey(t) \/ GrantOrgKey(t)
    \/ Stop(t)

Commands(t) ==
    \/ task[t] = Idle /\ Starts(t)
    \/ task[t] # Idle /\ Continues(t)

Next ==
    \/ \E t \in Terminals : Commands(t)
    \/ \E u \in Users : Promote(u) \/ Demote(u) \/ RemoveMember(u) \/ Replace(u)
    \/ \E u \in Users : RequestDeletion(u)
    \/ Recover

Spec == Init /\ [][Next]_vars

-----------------------------------------------------------------------------
(* Properties *)

(* A configuration a device declared usable, by init, clone or setup, names *)
(* a project and exactly one environment of its local store, whatever was   *)
(* interrupted, run again, or set up by others from the same file.          *)
ConfigResolves ==
    \A u \in Users : \A c \in ready[u] :
        /\ c.project \in local[u].projects
        /\ Cardinality(LocalEnv(u, c.project, c.environment)) = 1

(* Unless its user renamed one with `--as`, a name means the same           *)
(* environment of a project on every device: what init, setup and clone     *)
(* call it, whichever keys they could get, never sends two people's secrets *)
(* under one committed configuration to different places.  A renamed one    *)
(* may, and it hides the environment that has the name from the device.     *)
DevicesAgree ==
    \A u, v \in Users : \A d \in local[u].envs, e \in local[v].envs :
        /\ d.project = e.project /\ d.name = e.name /\ d.name # Shared
        /\ ~d.renamed /\ ~e.renamed
        => d.id = e.id

(* The structural requests of a push never stop somebody who can reach an   *)
(* environment that is on the server, not after an answer was lost and not  *)
(* after a demotion - unless the configuration forgot the organisation, or  *)
(* the organisation is being deleted, which the snapshot itself survives.   *)
PushGoesThrough ==
    [][\A t \in Terminals :
          /\ task[t].at \in {"project", "env", "snapshot"}
          /\ task'[t].at = "stopped"
          => LET id == task[t].env.id
             IN  \/ ~Reaches(User[t], id.project)
                 \/ \A e \in envs : e.id # id
                 \/ deleting /\ task[t].org /\ task[t].at # "snapshot"
                 \/ \E p \in Project(id.project) : p.org # task[t].org]_vars

(* What `clone` is for, and what it does not always do: the configuration it *)
(* saves names the environment that was asked for.                          *)
ClonedAsAsked ==
    [][\A t \in Terminals : FinishClone(t) =>
          \A e \in LocalEnv(User[t], task[t].config.project,
                            task[t].config.environment) :
              e.id = task[t].asked]_vars

=============================================================================
