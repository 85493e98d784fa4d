------------------------------ MODULE Enrolment ------------------------------
\* Who a host is: the identity file the agent creates on its first run
\* (aggregatorclient), the socket on which it hands the identity to the
\* companion (companiontoken, FetchIdentityWithRetry), and the registry that
\* knows it (Enroll, Authenticate, SetStatus, Forget, Load).  An identity is an
\* agent id with its token; two of them never share an id.
EXTENDS Integers, FiniteSets

CONSTANTS MaxIds,       \* bound: identities generated
          MaxDecisions, \* bound: decisions of an admin
          MaxCrashes    \* bound: crashes, failed writes and lost requests

ASSUME EnrolmentAssumption ==
    MaxIds \in Nat \ {0} /\ MaxDecisions \in Nat /\ MaxCrashes \in Nat

Ids == 1..MaxIds
NoFile == 0             \* also: no identity
Torn == -1              \* WriteFile truncates first; parsing this fails
Statuses == {"absent", "pending", "approved", "rejected"}

VARIABLES idFile,       \* the identity file
          generated,    \* identities made so far
          agent,        \* "down", "creating", "enrolling", "running"
          me,           \* the agent's identity, in its memory
          socket,       \* the identity the socket serves, NoFile when nobody listens
          companion,    \* the companion's identity, NoFile while it retries
          registry,     \* the aggregator's records in memory
          registryFile, \* and on disk
          admitted,     \* who was last let in by Report or Authenticate
          decisions, crashes

enrolVars == <<idFile, generated, agent, me, socket, companion, registry,
               registryFile, admitted, decisions, crashes>>
aggregatorVars == <<registry, registryFile>>

InitEnrolment ==
    /\ idFile = NoFile /\ generated = 0
    /\ agent = "down" /\ me = NoFile /\ socket = NoFile /\ companion = NoFile
    /\ registry = [i \in Ids |-> "absent"] /\ registryFile = registry
    /\ admitted = NoFile
    /\ decisions = 0 /\ crashes = 0

Serve(id) == /\ me' = id /\ socket' = id /\ agent' = "enrolling"

\* The agent starts with a file: LoadOrCreateIdentity, then Listen, which
\* removes a stale socket.  A torn file is an error that ends the process.
LoadIdentity ==
    /\ agent = "down"
    /\ idFile \in Ids
    /\ Serve(idFile)
    /\ UNCHANGED <<idFile, generated, companion, aggregatorVars, admitted, decisions,
                   crashes>>

CreateIdentityServed ==                 \* mutant: served before it is saved
    /\ agent = "down"
    /\ idFile = NoFile /\ generated < MaxIds
    /\ generated' = generated + 1
    /\ idFile' = Torn
    /\ agent' = "creating" /\ me' = generated' /\ socket' = generated'
    /\ UNCHANGED <<companion, aggregatorVars, admitted, decisions, crashes>>

\* The first run: a random identity, and saveIdentity's WriteFile, which leaves
\* a truncated file until it is done.
CreateIdentity ==
    /\ agent = "down"
    /\ idFile = NoFile /\ generated < MaxIds
    /\ generated' = generated + 1
    /\ idFile' = Torn
    /\ agent' = "creating"
    /\ UNCHANGED <<me, socket, companion, aggregatorVars, admitted, decisions, crashes>>

SaveIdentity ==
    /\ agent = "creating"
    /\ idFile' = generated
    /\ Serve(generated)
    /\ UNCHANGED <<generated, companion, aggregatorVars, admitted, decisions, crashes>>

\* saveLocked after a change of the records: it may fail, and the memory keeps
\* the change.
Saved(records) ==
    /\ registry' = records
    /\ \/ registryFile' = records /\ UNCHANGED crashes
       \/ crashes < MaxCrashes /\ crashes' = crashes + 1 /\ UNCHANGED registryFile

\* Registry.Enroll: an unknown id becomes pending, a known one keeps its status
\* (the token matches).  The agent announces itself once per start and goes on
\* whatever the answer.
Enroll ==
    /\ agent = "enrolling"
    /\ agent' = "running"
    /\ Saved([registry EXCEPT ![me] = IF @ = "absent" THEN "pending" ELSE @])
    /\ UNCHANGED <<idFile, generated, me, socket, companion, admitted, decisions>>

EnrollLost ==
    /\ agent = "enrolling" /\ crashes < MaxCrashes
    /\ crashes' = crashes + 1
    /\ agent' = "running"
    /\ UNCHANGED <<idFile, generated, me, socket, companion, aggregatorVars, admitted,
                   decisions>>

\* FetchIdentityWithRetry: the companion asks the socket until it is answered,
\* and keeps what it got for the life of its process.
FetchIdentity ==
    /\ companion = NoFile /\ socket # NoFile
    /\ companion' = socket
    /\ UNCHANGED <<idFile, generated, agent, me, socket, aggregatorVars, admitted,
                   decisions, crashes>>

CompanionRestarts ==
    /\ companion # NoFile /\ crashes < MaxCrashes
    /\ crashes' = crashes + 1
    /\ companion' = NoFile
    /\ UNCHANGED <<idFile, generated, agent, me, socket, aggregatorVars, admitted,
                   decisions>>

\* Authenticate, for a report or a stream of the agent or the companion: only a
\* known identity with the status approved.
Authenticate(id) ==
    /\ id \in Ids \cap {IF agent = "running" THEN me ELSE NoFile, companion}
    /\ registry[id] = "approved"
    /\ admitted' = id
    /\ UNCHANGED <<idFile, generated, agent, me, socket, companion, aggregatorVars,
                   decisions, crashes>>

\* SetStatus and Forget: an unknown id is a 404.
Decide(id, status) ==
    /\ decisions < MaxDecisions /\ decisions' = decisions + 1
    /\ registry[id] # "absent"
    /\ Saved([registry EXCEPT ![id] = status])
    /\ UNCHANGED <<idFile, generated, agent, me, socket, companion, admitted>>

\* The agent dies, wherever it stands; nobody listens on its socket then.
AgentCrashes ==
    /\ agent # "down" /\ crashes < MaxCrashes
    /\ crashes' = crashes + 1
    /\ agent' = "down" /\ me' = NoFile /\ socket' = NoFile
    /\ UNCHANGED <<idFile, generated, companion, aggregatorVars, admitted, decisions>>

\* The aggregator restarts: Load.
AggregatorRestarts ==
    /\ crashes < MaxCrashes
    /\ crashes' = crashes + 1
    /\ registry' = registryFile
    /\ UNCHANGED <<idFile, generated, agent, me, socket, companion, registryFile,
                   admitted, decisions>>

EnrolmentNext ==
    \/ LoadIdentity \/ CreateIdentity \/ SaveIdentity \/ Enroll \/ EnrollLost
    \/ FetchIdentity \/ CompanionRestarts
    \/ \E id \in Ids :
         \/ Authenticate(id)
         \/ \E status \in {"approved", "rejected", "absent"} : Decide(id, status)
    \/ AgentCrashes \/ AggregatorRestarts

EnrolmentSpec == InitEnrolment /\ [][EnrolmentNext]_enrolVars

\* OneIdentityPerHost: an identity that left the agent's process is the one in
\* the identity file: the aggregator never knows this host under two ids, and the
\* companion never speaks under another id than the agent, however often either
\* process dies, also in the middle of the first write (saveIdentity before the
\* socket and before Enroll; "restarts reuse it instead of re-enrolling").
OneIdentityPerHost ==
    \A id \in Ids :
        (id \in {me, socket, companion, admitted} \/ registry[id] # "absent"
            \/ registryFile[id] # "absent") => idFile = id
=============================================================================
