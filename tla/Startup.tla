------------------------------- MODULE Startup -------------------------------
(***************************************************************************)
(* From the start of the container to the four goroutines: main opens the  *)
(* database, runs the migrations, dials the chain, looks the relay         *)
(* registry up in the EigenDA directory, resolves the contracts of         *)
(* operator discovery and calls Run.  Each of these may fail.  Some        *)
(* failures end the process, and Docker starts it again; the others only   *)
(* take a part away.                                                       *)
(*                                                                         *)
(* missed is a history variable: no action reads it.                       *)
(***************************************************************************)
EXTENDS Integers, Sequences

CONSTANTS
  Candidates,     \* relayRegistryNames: a sequence of names
  RelayNames,     \* the names of the directory that contain "relay", in its order
  Addresses,      \* the addresses of contracts
  NoAddress,      \* the zero address
  MaxKills        \* bound: how often the process is killed

Names ==
  {Candidates[i] : i \in DOMAIN Candidates} \cup {RelayNames[i] : i \in DOMAIN RelayNames}

ASSUME StartupAssumption ==
  /\ Candidates \in Seq(Names)
  /\ RelayNames \in Seq(Names)
  /\ NoAddress \notin Addresses
  /\ MaxKills \in Nat

VARIABLES
  configured,     \* ETH_RPC_URL and EIGENDA_DIRECTORY are set
  dialable,       \* ETH_RPC_URL is one that ethclient.Dial can connect to
  probeEnabled,   \* OPERATOR_PROBE_ENABLED
  directory,      \* getAddress of the names
  pc,             \* where main is; "exited" after log.Fatalf or a kill
  kills,          \* how often it was killed
  tables,         \* the tables of RunMigrations exist
  listed,         \* getAllNames succeeded: allNames is not nil
  next,           \* the name the loop of NewFromDirectory tries next
  registryAddr,   \* registryAddr, NoAddress for none
  discovery,      \* opDiscovery: "nil", "index" (one of two contracts resolved), "ready"
  missed          \* history: the names whose getAddress failed in this start

settings == <<configured, dialable, probeEnabled, directory>>
vars == <<settings, pc, kills, tables, listed, next, registryAddr, discovery, missed>>

Stages == {"database", "migrations", "dial", "names", "candidates", "fallback",
           "discovery", "run", "exited"}

\* The names NewFromDirectory looks up, in its order.
LookupOrder == Candidates \o RelayNames

-----------------------------------------------------------------------------
Init ==
  /\ configured \in BOOLEAN
  /\ dialable \in BOOLEAN
  /\ probeEnabled \in BOOLEAN
  /\ directory \in [Names -> Addresses \cup {NoAddress}]
  /\ pc = "database"
  /\ kills = 0
  /\ tables \in BOOLEAN
  /\ listed = FALSE
  /\ next = 1
  /\ registryAddr = NoAddress
  /\ discovery = "nil"
  /\ missed = {}

(* The container.                                                          *)

\* The process ends before signal.Notify, or without one.
Kill ==
  /\ pc # "exited"
  /\ kills < MaxKills
  /\ kills' = kills + 1
  /\ pc' = "exited"
  /\ UNCHANGED <<settings, tables, listed, next, registryAddr, discovery, missed>>

\* restart: unless-stopped.  The memory is new, the tables are still there.
Restart ==
  /\ pc = "exited"
  /\ pc' = "database"
  /\ listed' = FALSE
  /\ next' = 1
  /\ registryAddr' = NoAddress
  /\ discovery' = "nil"
  /\ missed' = {}
  /\ UNCHANGED <<settings, kills, tables>>

(* main.                                                                   *)

\* log.Fatalf.
Fatal ==
  /\ pc' = "exited"
  /\ UNCHANGED <<settings, kills, tables, listed, next, registryAddr, discovery, missed>>

OpenDatabase ==
  /\ pc = "database"
  /\ pc' = "migrations"
  /\ UNCHANGED <<settings, kills, tables, listed, next, registryAddr, discovery, missed>>

DatabaseFails == pc = "database" /\ Fatal

\* Where main goes with the registry resolved, or not wanted.
AfterRegistry == IF probeEnabled /\ configured THEN "discovery" ELSE "run"

\* The statements are one query without parameters, hence one transaction.
Migrate ==
  /\ pc = "migrations"
  /\ tables' = TRUE
  /\ pc' = (IF configured THEN "dial" ELSE AfterRegistry)
  /\ UNCHANGED <<settings, kills, listed, next, registryAddr, discovery, missed>>

MigrateFails == pc = "migrations" /\ Fatal

(* NewFromDirectory.                                                       *)

Dial ==
  /\ pc = "dial"
  /\ dialable
  /\ pc' = "names"
  /\ UNCHANGED <<settings, kills, tables, listed, next, registryAddr, discovery, missed>>

\* An unusable URL, or an endpoint that does not answer: main gives up.
DialFails == pc = "dial" /\ Fatal

\* Mutant: allNames is lost.
NamesLost ==
  /\ pc = "names"
  /\ listed' = FALSE
  /\ pc' = "candidates"
  /\ UNCHANGED <<settings, kills, tables, next, registryAddr, discovery, missed>>

NamesListed ==
  /\ pc = "names"
  /\ listed' = TRUE
  /\ pc' = "candidates"
  /\ UNCHANGED <<settings, kills, tables, next, registryAddr, discovery, missed>>

\* getAllNames fails: allNames stays nil, and that is only logged.
ListFails ==
  /\ pc = "names"
  /\ pc' = "candidates"
  /\ UNCHANGED <<settings, kills, tables, listed, next, registryAddr, discovery, missed>>

\* The names the loop in hand runs over.
Tried == IF pc = "candidates" THEN Candidates ELSE RelayNames

Trying == pc \in {"candidates", "fallback"} /\ next <= Len(Tried)

AddressFound ==
  /\ Trying
  /\ directory[Tried[next]] # NoAddress
  /\ registryAddr' = directory[Tried[next]]
  /\ pc' = AfterRegistry
  /\ UNCHANGED <<settings, kills, tables, listed, next, discovery, missed>>

AddressZero ==
  /\ Trying
  /\ directory[Tried[next]] = NoAddress
  /\ next' = next + 1
  /\ UNCHANGED <<settings, pc, kills, tables, listed, registryAddr, discovery, missed>>

AddressFails ==
  /\ Trying
  /\ next' = next + 1
  /\ missed' = missed \cup {Tried[next]}
  /\ UNCHANGED <<settings, pc, kills, tables, listed, registryAddr, discovery>>

\* Mutant: the listed names are tried while candidates are left.
FallBackEarly ==
  /\ pc = "candidates"
  /\ listed
  /\ pc' = "fallback"
  /\ next' = 1
  /\ UNCHANGED <<settings, kills, tables, listed, registryAddr, discovery, missed>>

\* No candidate has an address: try the names the directory listed.
FallBack ==
  /\ pc = "candidates"
  /\ next > Len(Candidates)
  /\ listed
  /\ pc' = "fallback"
  /\ next' = 1
  /\ UNCHANGED <<settings, kills, tables, listed, registryAddr, discovery, missed>>

\* Mutant: a warning instead of log.Fatalf.
NotFoundGoesOn ==
  /\ \/ pc = "candidates" /\ next > Len(Candidates) /\ ~ listed
     \/ pc = "fallback" /\ next > Len(RelayNames)
  /\ pc' = AfterRegistry
  /\ UNCHANGED <<settings, kills, tables, listed, next, registryAddr, discovery, missed>>

NotFound ==
  /\ \/ pc = "candidates" /\ next > Len(Candidates) /\ ~ listed
     \/ pc = "fallback" /\ next > Len(RelayNames)
  /\ Fatal

(* NewDiscovery: both contracts resolve, or the operators are not probed.  *)

ResolveIndex ==
  /\ pc = "discovery"
  /\ discovery = "nil"
  /\ discovery' = "index"
  /\ UNCHANGED <<settings, pc, kills, tables, listed, next, registryAddr, missed>>

ResolveSocket ==
  /\ pc = "discovery"
  /\ discovery = "index"
  /\ discovery' = "ready"
  /\ pc' = "run"
  /\ UNCHANGED <<settings, kills, tables, listed, next, registryAddr, missed>>

\* Mutant: discovery is kept although its second contract was not resolved.
ResolveFailsHalfway ==
  /\ pc = "discovery"
  /\ pc' = "run"
  /\ UNCHANGED <<settings, kills, tables, listed, next, registryAddr, discovery, missed>>

ResolveFails ==
  /\ pc = "discovery"
  /\ discovery' = "nil"
  /\ pc' = "run"
  /\ UNCHANGED <<settings, kills, tables, listed, next, registryAddr, missed>>

Resolve == AddressFound \/ AddressZero \/ AddressFails \/ FallBack \/ NotFound

Main ==
  \/ OpenDatabase \/ DatabaseFails
  \/ Migrate \/ MigrateFails
  \/ Dial \/ DialFails \/ NamesListed \/ ListFails \/ Resolve
  \/ ResolveIndex \/ ResolveSocket \/ ResolveFails

Next == Main \/ Kill \/ Restart

Spec == Init /\ [][Next]_vars

\* The process is scheduled, every call comes back or runs into the 30 seconds of its
\* context, and Docker restarts.  A database that is asked over and over answers now and
\* then; so do an endpoint that can be dialled, and the directory for the list of names
\* and for every name.
Fairness ==
  /\ WF_vars(Main)
  /\ WF_vars(Restart)
  /\ SF_vars(OpenDatabase)
  /\ SF_vars(Migrate)
  /\ SF_vars(Dial)
  /\ SF_vars(NamesListed)
  /\ SF_vars(AddressFound)

FairSpec == Spec /\ Fairness

-----------------------------------------------------------------------------
(* Properties.                                                             *)

\* Types of all variables; no goroutine starts with only one of the contracts of
\* discovery resolved (main.go:66-77).
TypeOK ==
  /\ configured \in BOOLEAN
  /\ dialable \in BOOLEAN
  /\ probeEnabled \in BOOLEAN
  /\ directory \in [Names -> Addresses \cup {NoAddress}]
  /\ pc \in Stages
  /\ kills \in 0..MaxKills
  /\ tables \in BOOLEAN
  /\ listed \in BOOLEAN
  /\ next \in Nat \ {0}
  /\ registryAddr \in Addresses \cup {NoAddress}
  /\ discovery \in {"nil", "index", "ready"}
  /\ missed \subseteq Names
  /\ discovery = "index" => pc \in {"discovery", "exited"}

\* When the goroutines start the tables exist, however often earlier starts were cut
\* short, and if the chain is configured there is a relay registry: the relay verifier
\* never runs against the zero address (main.go:41-55, registry.go:103-136).
ReadyToRun ==
  pc = "run" => tables /\ (configured => registryAddr # NoAddress)

\* The relay registry is the contract of the first name, in the order candidates and then
\* names of the directory with "relay" in them, that has an address and whose call did not
\* fail in this start: nothing stands in for an earlier name that the directory knows
\* (registry.go:103-136).  In the deployment of README.md:117 no candidate is registered
\* and the name found is one of the second list.
FirstNameWins ==
  pc \in {"discovery", "run"} /\ configured =>
    \E i \in DOMAIN LookupOrder :
      /\ registryAddr = directory[LookupOrder[i]]
      /\ registryAddr # NoAddress
      /\ \A j \in 1..(i - 1) :
           directory[LookupOrder[j]] = NoAddress \/ LookupOrder[j] \in missed

\* A start gets as far as the goroutines, whatever call fails on the way and however often
\* the process has to begin again, unless it is killed once more: provided that the chain
\* is not configured at all, or can be dialled and has an address for some name tried.
ComesUp ==
  ~ configured \/ (dialable /\ \E n \in Names : directory[n] # NoAddress) =>
    \A k \in 0..MaxKills : (kills = k) ~> (pc = "run" \/ kills > k)

=============================================================================
