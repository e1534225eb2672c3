---------------------------- MODULE ControlPlane ----------------------------
(***************************************************************************)
(* The control plane: the `sync ctl` commands seed, mint, grant and revoke *)
(* over the files of ~/.contextful (crates/sync/src/controlplane).         *)
(*                                                                         *)
(* There is no lock and no server: every command is a process of its own   *)
(* that reads and rewrites whole files.  `fs::write` truncates the file    *)
(* and then writes it, so each rewrite is two steps here, and the commands *)
(* of several processes interleave between any two steps.  A truncated     *)
(* file does not parse: a capability reads as missing, a registry as an    *)
(* error, and a revocation list as EMPTY (read_string_list).               *)
(*                                                                         *)
(* Simplifications: a file is read in one step, and so are the three files *)
(* load_capability reads; the envelope file, which nothing but `ctl show`  *)
(* reads, is left out; an audit append never fails.                        *)
(***************************************************************************)
EXTENDS Capability

CONSTANTS
    Procs,          \* command processes; each names the key it would generate
    Revokers,       \* the processes on which `revoke` is run
    Owner,          \* RESOURCE_OWNER, the holder of the finance root token
    InitialView,    \* scenario.rs: what every principal is first minted
    InitialFields,
    InitialRows,
    SeedOrder,      \* order in which seed signs the initial tokens
    FieldRequests,  \* field lists a `grant` may name
    TTLs,           \* ttls a `grant` may name
    MaxTime,        \* bound: clock ticks
    MaxCommands,    \* bound: commands started
    CrashLimit,     \* bound: processes that die between two steps
    NoToken, NoKey, TornKey, NoRegistry

FinanceRoot == "cfo"
Roots == {FinanceRoot, "control-plane"}

ASSUME ControlPlaneAssumption ==
    /\ Procs \subseteq Keys /\ Revokers \subseteq Procs
    /\ Owner \in Principals
    /\ InitialView \in [Principals -> Views]
    /\ InitialFields \in [Principals -> SUBSET Fields]
    /\ InitialRows \in [Principals -> SUBSET Teams]
    /\ SeedOrder \in Seq(Principals) /\ SeedOrder # << >>
    /\ FieldRequests \subseteq SUBSET Fields
    /\ TTLs \subseteq Nat /\ MaxTime \in Nat /\ MaxCommands \in Nat
    /\ CrashLimit \in Nat

(* scenario.rs gives no principal but the owner a never-delegable field. *)
ASSUME InitialFieldsAssumption ==
    \A p \in Principals \ {Owner} : InitialFields[p] \cap NeverDelegable = {}

(* seed signs a token for every principal of scenario.rs. *)
ASSUME SeedOrderAssumption ==
    \A p \in Principals : \E i \in DOMAIN SeedOrder : SeedOrder[i] = p

ASSUME AbsentValues ==
    /\ NoToken \notin Token
    /\ NoKey \notin Keys /\ TornKey \notin Keys /\ NoKey # TornKey
    /\ NoRegistry \notin [Roots -> Keys]

VARIABLES
    keyFile,   \* control/keys/<root>.key: NoKey, TornKey (empty) or a key
    registry,  \* control/registry.json: the public key of every root
    caps,      \* caps/<principal>.json
    names,     \* caps/revoked.json
    ids,       \* caps/revoked_ids.json
    audit,     \* audit.jsonl, as the set of <<action, principal>> in it
    now,       \* the clock
    nextId,    \* the next Biscuit revocation identifier
    pc, job,   \* where every process is, and the command it runs
    started,   \* commands started so far
    crashes,   \* history: processes that died
    voided     \* history: every identifier a revocation has listed

files == <<keyFile, registry, caps, names, ids, audit>>
vars == <<files, now, nextId, pc, job, started, crashes, voided>>

-----------------------------------------------------------------------------
Labels ==
    {"idle", "loadKey", "createKey", "writeKey", "truncRegistry",
     "writeRegistry", "issue", "approve", "truncCap", "writeCap",
     "readNames", "truncNames", "writeNames", "readIds", "truncIds",
     "writeIds", "audit"}

Job ==
    [op: {"none", "seed", "mint", "grant", "revoke"}, who: Principals,
     view: Views, fields: SUBSET Fields, ttl: Nat,
     keys: [Roots -> Keys \cup {NoKey}], todo: Seq(Principals),
     tok: Token \cup {NoToken}, nameList: SUBSET Principals,
     idList: SUBSET Nat]

(* A command's local state when it starts. *)
NewJob(op, who, view, fields, ttl, todo) ==
    [op |-> op, who |-> who, view |-> view, fields |-> fields, ttl |-> ttl,
     keys |-> [r \in Roots |-> NoKey], todo |-> todo, tok |-> NoToken,
     nameList |-> {}, idList |-> {}]

NoJob == NewJob("none", Owner, InitialView[Owner], {}, 0, << >>)

Init ==
    /\ keyFile = [r \in Roots |-> NoKey]
    /\ registry = NoRegistry
    /\ caps = [p \in Principals |-> NoToken]
    /\ names = {} /\ ids = {} /\ audit = {}
    /\ now = 0 /\ nextId = 0 /\ started = 0 /\ crashes = 0
    /\ voided = {}
    /\ pc = [c \in Procs |-> "idle"]
    /\ job = [c \in Procs |-> NoJob]

Goto(c, label) == pc' = [pc EXCEPT ![c] = label]

Exit(c) ==
    /\ Goto(c, "idle")
    /\ job' = [job EXCEPT ![c] = NoJob]

(* load_capability: the stored token verifies against the registered key   *)
(* and none of its block identifiers is revoked.                           *)
Loads(p) ==
    /\ caps[p] # NoToken /\ registry # NoRegistry
    /\ Verifies(caps[p], registry[FinanceRoot], p, now)
    /\ BlockIds(caps[p]) \cap ids = {}

-----------------------------------------------------------------------------
(* Starting a command. *)

Start(c, label, j) ==
    /\ pc[c] = "idle" /\ started < MaxCommands
    /\ Goto(c, label)
    /\ job' = [job EXCEPT ![c] = j]
    /\ started' = started + 1
    /\ UNCHANGED <<files, now, nextId, voided>>

StartSeed(c) ==
    Start(c, "loadKey",
          NewJob("seed", Owner, InitialView[Owner], {}, 0, SeedOrder))

StartMint(c) ==
    \E p \in Principals :
        Start(c, "loadKey", NewJob("mint", p, InitialView[p], {}, 0, << >>))

StartGrant(c) ==
    \E p \in Principals, v \in Views, fs \in FieldRequests, ttl \in TTLs :
        Start(c, "approve", NewJob("grant", p, v, fs, ttl, << >>))

StartRevoke(c) ==
    /\ c \in Revokers
    /\ \E p \in Principals :
        Start(c, "readNames",
              NewJob("revoke", p, InitialView[p], {}, 0, << >>))

-----------------------------------------------------------------------------
(* ensure_root_key: seed takes both roots' keys, mint the finance root's.  *)

(* The root whose key the command is after: the finance root's is first. *)
Wanted(c) ==
    IF job[c].keys[FinanceRoot] = NoKey THEN FinanceRoot ELSE "control-plane"

(* The key is in hand: on to the next root, the registry or the signing.   *)
HaveKey(c, k) ==
    /\ job' = [job EXCEPT ![c].keys[Wanted(c)] = k]
    /\ Goto(c, IF job[c].op = "mint" THEN "issue"
               ELSE IF Wanted(c) = FinanceRoot THEN "loadKey"
               ELSE "truncRegistry")

(* An empty file is not a key: the command stops with "bad root key". *)
LoadKey(c) ==
    /\ pc[c] = "loadKey"
    /\ LET k == keyFile[Wanted(c)] IN
        \/ /\ k = NoKey
           /\ Goto(c, "createKey") /\ UNCHANGED job
        \/ k = TornKey /\ Exit(c)
        \/ k \in Keys /\ HaveKey(c, k)
    /\ UNCHANGED <<files, now, nextId, started, voided>>

(* Mutant: an existing key file is opened and truncated. *)
CreateKeyAnyway(c) ==
    /\ pc[c] = "createKey"
    /\ keyFile' = [keyFile EXCEPT ![Wanted(c)] = TornKey]
    /\ Goto(c, "writeKey")
    /\ UNCHANGED <<registry, caps, names, ids, audit, now, nextId, job,
                   started, voided>>

(* create_new: one creator wins; the others load what the winner wrote. *)
CreateKey(c) ==
    /\ pc[c] = "createKey"
    /\ \/ /\ keyFile[Wanted(c)] = NoKey
          /\ keyFile' = [keyFile EXCEPT ![Wanted(c)] = TornKey]
          /\ Goto(c, "writeKey")
       \/ /\ keyFile[Wanted(c)] # NoKey
          /\ Goto(c, "loadKey") /\ UNCHANGED keyFile
    /\ UNCHANGED <<registry, caps, names, ids, audit, now, nextId, job,
                   started, voided>>

WriteKey(c) ==
    /\ pc[c] = "writeKey"
    /\ keyFile' = [keyFile EXCEPT ![Wanted(c)] = c]
    /\ HaveKey(c, c)
    /\ UNCHANGED <<registry, caps, names, ids, audit, now, nextId, started,
                   voided>>

-----------------------------------------------------------------------------
(* seed publishes the public keys, then signs the initial tokens.          *)

TruncRegistry(c) ==
    /\ pc[c] = "truncRegistry"
    /\ registry' = NoRegistry
    /\ Goto(c, "writeRegistry")
    /\ UNCHANGED <<keyFile, caps, names, ids, audit, now, nextId, job,
                   started, voided>>

WriteRegistry(c) ==
    /\ pc[c] = "writeRegistry"
    /\ registry' = job[c].keys
    /\ Goto(c, "issue")
    /\ UNCHANGED <<keyFile, caps, names, ids, audit, now, nextId, job,
                   started, voided>>

(* Whose capability file the command writes next. *)
Target(c) == IF job[c].op = "seed" THEN Head(job[c].todo) ELSE job[c].who

(* sign: a fresh authority block under the finance root's key. *)
Issue(c) ==
    /\ pc[c] = "issue"
    /\ LET p == Target(c) IN
        job' = [job EXCEPT ![c].tok =
                  Signed(nextId, job[c].keys[FinanceRoot], p, InitialView[p],
                         InitialFields[p], InitialRows[p], Docs)]
    /\ nextId' = nextId + 1
    /\ Goto(c, "truncCap")
    /\ UNCHANGED <<files, now, started, voided>>

(* grant's refusals, in the code's order, end with approve_request's.      *)
MayGrant(p, view, fields) ==
    /\ p # Owner
    /\ registry # NoRegistry
    /\ fields # {}
    /\ Loads(Owner)
    /\ caps[Owner].view = view
    /\ Approvable(fields)

(* approve_request appends one block, scoped to all teams, to the owner's  *)
(* token; nothing is signed.                                               *)
Approve(c) ==
    /\ pc[c] = "approve"
    /\ LET j == job[c]
           block == ApprovalBlock(nextId, Owner, j.who, j.fields, Teams,
                                  now + j.ttl)
       IN \/ /\ MayGrant(j.who, j.view, j.fields)
             /\ job' = [job EXCEPT ![c].tok = AppendBlock(caps[Owner], block)]
             /\ nextId' = nextId + 1
             /\ Goto(c, "truncCap")
          \/ /\ ~MayGrant(j.who, j.view, j.fields)
             /\ Exit(c) /\ UNCHANGED nextId
    /\ UNCHANGED <<files, now, started, voided>>

(* save_capability *)
TruncCap(c) ==
    /\ pc[c] = "truncCap"
    /\ caps' = [caps EXCEPT ![Target(c)] = NoToken]
    /\ Goto(c, "writeCap")
    /\ UNCHANGED <<keyFile, registry, names, ids, audit, now, nextId, job,
                   started, voided>>

(* After a write seed signs the next token or ends; mint and grant record. *)
WriteCap(c) ==
    /\ pc[c] = "writeCap"
    /\ caps' = [caps EXCEPT ![Target(c)] = job[c].tok]
    /\ \/ job[c].op # "seed" /\ Goto(c, "audit") /\ UNCHANGED job
       \/ /\ job[c].op = "seed" /\ Tail(job[c].todo) # << >>
          /\ Goto(c, "issue")
          /\ job' = [job EXCEPT ![c].todo = Tail(job[c].todo)]
       \/ job[c].op = "seed" /\ Tail(job[c].todo) = << >> /\ Exit(c)
    /\ UNCHANGED <<keyFile, registry, names, ids, audit, now, nextId,
                   started, voided>>

-----------------------------------------------------------------------------
(* revoke: two read-modify-write cycles, the names and then the block      *)
(* identifiers of the token stored at that moment, if one can be read.     *)

(* Mutant: the list is started anew instead of extended. *)
ReadNoNames(c) ==
    /\ pc[c] = "readNames"
    /\ job' = [job EXCEPT ![c].nameList = {job[c].who}]
    /\ Goto(c, "truncNames")
    /\ UNCHANGED <<files, now, nextId, started, voided>>

ReadNames(c) ==
    /\ pc[c] = "readNames"
    /\ job' = [job EXCEPT ![c].nameList = names \cup {job[c].who}]
    /\ Goto(c, "truncNames")
    /\ UNCHANGED <<files, now, nextId, started, voided>>

TruncNames(c) ==
    /\ pc[c] = "truncNames"
    /\ names' = {}
    /\ Goto(c, "writeNames")
    /\ UNCHANGED <<keyFile, registry, caps, ids, audit, now, nextId, job,
                   started, voided>>

WriteNames(c) ==
    /\ pc[c] = "writeNames"
    /\ names' = job[c].nameList
    /\ Goto(c, "readIds")
    /\ UNCHANGED <<keyFile, registry, caps, ids, audit, now, nextId, job,
                   started, voided>>

ReadIds(c) ==
    /\ pc[c] = "readIds"
    /\ LET t == caps[job[c].who] IN
        \/ /\ t = NoToken
           /\ Goto(c, "audit") /\ UNCHANGED job
        \/ /\ t # NoToken
           /\ job' = [job EXCEPT ![c].idList = ids \cup BlockIds(t)]
           /\ Goto(c, "truncIds")
    /\ UNCHANGED <<files, now, nextId, started, voided>>

TruncIds(c) ==
    /\ pc[c] = "truncIds"
    /\ ids' = {}
    /\ Goto(c, "writeIds")
    /\ UNCHANGED <<keyFile, registry, caps, names, audit, now, nextId, job,
                   started, voided>>

WriteIds(c) ==
    /\ pc[c] = "writeIds"
    /\ ids' = job[c].idList
    /\ voided' = voided \cup job[c].idList
    /\ Goto(c, "audit")
    /\ UNCHANGED <<keyFile, registry, caps, names, audit, now, nextId, job,
                   started>>

(* audit::record, the last step of mint, grant and revoke. *)
Record(c) ==
    /\ pc[c] = "audit"
    /\ audit' = audit \cup {<<job[c].op, job[c].who>>}
    /\ Exit(c)
    /\ UNCHANGED <<keyFile, registry, caps, names, ids, now, nextId, started,
                   voided>>

-----------------------------------------------------------------------------
(* The process dies; the files stay as its last step left them. *)
Crash(c) ==
    /\ crashes < CrashLimit /\ pc[c] # "idle"
    /\ crashes' = crashes + 1
    /\ Exit(c)
    /\ UNCHANGED <<files, now, nextId, started, voided>>

Tick ==
    /\ now < MaxTime
    /\ now' = now + 1
    /\ UNCHANGED <<files, nextId, pc, job, started, voided>>

Command(c) ==
    StartSeed(c) \/ StartMint(c) \/ StartGrant(c) \/ StartRevoke(c)

Step(c) ==
    \/ LoadKey(c) \/ CreateKey(c) \/ WriteKey(c)
    \/ TruncRegistry(c) \/ WriteRegistry(c)
    \/ Issue(c) \/ Approve(c) \/ TruncCap(c) \/ WriteCap(c)
    \/ ReadNames(c) \/ TruncNames(c) \/ WriteNames(c)
    \/ ReadIds(c) \/ TruncIds(c) \/ WriteIds(c)
    \/ Record(c)

Next ==
    \/ (Tick \/ \E c \in Procs : Command(c) \/ Step(c)) /\ UNCHANGED crashes
    \/ \E c \in Procs : Crash(c)

Spec == Init /\ [][Next]_vars

-----------------------------------------------------------------------------
(* The state has the shape the files and the commands give it. *)
TypeOK ==
    /\ keyFile \in [Roots -> Keys \cup {NoKey, TornKey}]
    /\ registry \in [Roots -> Keys] \cup {NoRegistry}
    /\ caps \in [Principals -> Token \cup {NoToken}]
    /\ names \subseteq Principals /\ ids \subseteq Nat
    /\ audit \subseteq {"mint", "grant", "revoke"} \X Principals
    /\ now \in Nat /\ nextId \in Nat /\ started \in Nat /\ crashes \in Nat
    /\ voided \subseteq Nat
    /\ pc \in [Procs -> Labels]
    /\ job \in [Procs -> Job]

(* The salary invariant (request.rs, spec 03): whatever commands ran, in   *)
(* whatever order, no principal but the owner has a token on disk from     *)
(* which a never-delegable field can be derived.                           *)
SalaryInvariant ==
    \A p \in Principals \ {Owner} : caps[p] # NoToken =>
        ScopeFields(caps[p]) \cap NeverDelegable = {}

(* keys.rs: a concurrent seed must not clobber a key whose public half is  *)
(* already in the registry.  Every token on disk, and the registry they    *)
(* are verified against, are of the one key in the keystore.               *)
KeyAgreement ==
    /\ registry # NoRegistry => registry = keyFile
    /\ \A p \in Principals :
         caps[p] # NoToken => caps[p].key = keyFile[FinanceRoot]

(* The owner's file only ever holds a token signed for the owner, with no  *)
(* block appended: no grant replaces the root token it delegates from.     *)
OwnerKeepsRootToken ==
    caps[Owner] # NoToken =>
        /\ caps[Owner].holder = Owner
        /\ caps[Owner].chain = << >>
        /\ caps[Owner].fields = InitialFields[Owner]

(* No reader can see a list while it is being rewritten. *)
Settled == \A c \in Procs : pc[c] \notin {"writeNames", "writeIds"}

(* A revocation that completed stays in force: its name and its token's    *)
(* identifiers are still listed after any later command that was not a     *)
(* concurrent revoke, grants and re-issues of the same principal included. *)
RevocationSticks ==
    (Settled /\ crashes = 0) =>
        /\ \A p \in Principals : <<"revoke", p>> \in audit => p \in names
        /\ voided \subseteq ids

(* Commands that raced leave a working system: when none runs any more, a  *)
(* seed has published the keys and nothing was revoked, every token on     *)
(* disk loads until a grant's ttl runs out.                                *)
QuietSystemIsUsable ==
    (/\ \A c \in Procs : pc[c] = "idle"
     /\ crashes = 0 /\ registry # NoRegistry /\ ids = {})
        => \A p \in Principals :
             /\ caps[p] # NoToken
             /\ Loads(p) \/ ~Unexpired(caps[p], now)

(* `revoke` acts on "a principal's tokens" (main.rs, spec 07): the         *)
(* identifier list refuses a principal only if its own tokens, or those of *)
(* a principal whose authority its token extends, were revoked.            *)
RevokeTouchesOnlyItsHolder ==
    \A p \in Principals :
        (caps[p] # NoToken /\ BlockIds(caps[p]) \cap ids # {}) =>
            \E q \in {p, caps[p].holder} :
                q \in names \/ <<"revoke", q>> \in audit
=============================================================================
