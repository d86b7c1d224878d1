-------------------------------- MODULE Profile --------------------------------
(***************************************************************************)
(* The profile service, apps/mcp-profile ProfileService.java, over its     *)
(* PostgreSQL database: the profile of one client and the ledger of its    *)
(* operations.  An update is one of several at work at a time, of any      *)
(* session; a repetition has the key and the changes of the first, and a   *)
(* key may come back with other changes.  Of a profile the version is      *)
(* kept, and which operation wrote it.                                     *)
(***************************************************************************)
EXTENDS Naturals, FiniteSets

CONSTANTS
    Updates,        \* requests
    OperationKeys,  \* idempotency keys
    Changes         \* what the changes of a request may say

ASSUME ProfileAssumption == IsFiniteSet(OperationKeys)

VARIABLES
    profile,     \* its version, and the operation that wrote it last
    operations,  \* profile_operations: per key the hash and the result
    update       \* the requests

profileVars == <<profile, operations, update>>

-----------------------------------------------------------------------------
NotYet == [at |-> "none"]
Unwritten == "seed"
Versions == 1..(Cardinality(OperationKeys) + 1)
Payloads == [expected : Versions, changes : Changes]
Result(version, by) == [version |-> version, by |-> by]

Profiles == [version : Versions, by : OperationKeys \cup {Unwritten}]
UpdateRecords ==
    [at : {"asked", "locked", "answered", "failed"}, key : OperationKeys,
     payload : Payloads, result : Profiles]

ProfileTypeOK ==
    /\ profile \in Profiles
    /\ DOMAIN operations \subseteq OperationKeys
    /\ operations \in [DOMAIN operations -> [hash : Payloads, result : Profiles]]
    /\ update \in [Updates -> {NotYet} \cup UpdateRecords]

ProfileInit ==
    /\ profile = Result(1, Unwritten)
    /\ operations = [k \in {} |-> NotYet]
    /\ update = [u \in Updates |-> NotYet]

Becomes(u, at, result) == update' = [update EXCEPT ![u].at = at, ![u].result = result]

\* The owner's session was found active, the update confirmed and its changes
\* valid; the version expected is one the caller may have seen.
AskUpdate(u, k, p) ==
    /\ update[u] = NotYet /\ p.expected <= profile.version
    /\ update' = [update EXCEPT ![u] =
          [at |-> "asked", key |-> k, payload |-> p, result |-> profile]]
    /\ UNCHANGED <<profile, operations>>

\* Mutant: the profile is read without FOR UPDATE.
ReadProfileUnlocked(u) ==
    /\ update[u].at = "asked"
    /\ Becomes(u, "locked", profile)
    /\ UNCHANGED <<profile, operations>>

\* SELECT ... FOR UPDATE, for the transaction.
ReadProfile(u) ==
    /\ update[u].at = "asked"
    /\ \A v \in Updates : update[v].at # "locked"
    /\ Becomes(u, "locked", profile)
    /\ UNCHANGED <<profile, operations>>

\* The operation was done: its result, if it is the same.
RepeatUpdate(u) ==
    /\ update[u].at = "locked" /\ update[u].key \in DOMAIN operations
    /\ LET done == operations[update[u].key]
       IN  IF done.hash = update[u].payload THEN Becomes(u, "answered", done.result)
                                            ELSE Becomes(u, "failed", profile)
    /\ UNCHANGED <<profile, operations>>

\* The next version of what was read, and the ledger; a key can be there once.
WriteProfile(u) ==
    /\ update[u].at = "locked" /\ update[u].key \notin DOMAIN operations
    /\ LET k == update[u].key
           written == Result(update[u].result.version + 1, k)
       IN  IF update[u].result.version = update[u].payload.expected
           THEN /\ profile' = written
                /\ operations' = [i \in DOMAIN operations \cup {k} |->
                     IF i = k THEN [hash |-> update[u].payload, result |-> written] ELSE operations[i]]
                /\ Becomes(u, "answered", written)
           ELSE Becomes(u, "failed", profile) /\ UNCHANGED <<profile, operations>>

\* The service or its connection ends: nothing of the transaction stays.
UpdateFails(u) ==
    /\ update[u].at \in {"asked", "locked"}
    /\ Becomes(u, "failed", profile)
    /\ UNCHANGED <<profile, operations>>

ProfileNext ==
    \E u \in Updates :
        \/ \E k \in OperationKeys, p \in Payloads : AskUpdate(u, k, p)
        \/ ReadProfile(u) \/ RepeatUpdate(u) \/ WriteProfile(u) \/ UpdateFails(u)

ProfileSpec == ProfileInit /\ [][ProfileNext]_profileVars

-----------------------------------------------------------------------------
(* The operations took effect one after the other, each once and on the    *)
(* version it had seen, whoever repeats or crosses them; the profile is    *)
(* the last one's, and an answer is the result of that operation, also     *)
(* when it comes again (ProfileService.java 27-38).                        *)
UpdatedInOrder ==
    /\ ProfileTypeOK
    /\ profile.version = 1 + Cardinality(DOMAIN operations)
    /\ \A k \in DOMAIN operations :
         /\ operations[k].result = Result(operations[k].hash.expected + 1, k)
         /\ operations[k].result.version = profile.version => profile.by = k
         /\ \A l \in DOMAIN operations : operations[k].result.version = operations[l].result.version => k = l
    /\ \A u \in Updates : update[u].at = "answered" =>
         /\ update[u].key \in DOMAIN operations
         /\ update[u].result = operations[update[u].key].result
         /\ update[u].payload = operations[update[u].key].hash

-----------------------------------------------------------------------------
(* Why it holds: the row lock makes what an update has read the profile    *)
(* until it ends, and no operation has written a later version.            *)
OneHasTheRow ==
    \A u, v \in Updates : update[u].at = "locked" /\ update[v].at = "locked" => u = v

ReadIsCurrent == \A u \in Updates : update[u].at = "locked" => update[u].result = profile

NothingIsLater == \A k \in DOMAIN operations : operations[k].result.version <= profile.version

ProfileInv == OneHasTheRow /\ ReadIsCurrent /\ NothingIsLater /\ UpdatedInOrder

=============================================================================
