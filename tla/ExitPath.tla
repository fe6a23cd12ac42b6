------------------------------ MODULE ExitPath ------------------------------
(***************************************************************************)
(* ExitPathBuilder::pick_path() of src/tor-circmgr/src/path/exitpath.rs:  *)
(* choose an exit, then a middle outside the exit's family, then an entry  *)
(* outside both families, each by a weighted random pick_relay() over the  *)
(* directory.                                                              *)
(*                                                                         *)
(* pick_relay() and in_same_family() belong to tor-netdir (not under       *)
(* src/); they are modelled from spec.md 4.4.1 and section 6: pick_relay() *)
(* returns some relay satisfying the predicate, or None when none does     *)
(* (every relay is given a positive weight here); in_same_family() holds   *)
(* of a relay and itself and of two relays that list each other.           *)
(*                                                                         *)
(* pick_path() makes no await: it is one step from the builder and the     *)
(* directory to a result.  The random choices are the nondeterminism of    *)
(* that step.  The directories of a run are all those over the relays,     *)
(* the declared families and the exit policies the run gives.              *)
(***************************************************************************)
EXTENDS Naturals, Sequences, FiniteSets

CONSTANTS
  Relays,     \* the relays of the directory
  Ports,      \* TargetPorts a caller may ask for
  Policies,   \* the port sets an exit policy may allow
  Fallbacks   \* DirInfo::Fallbacks(_): no consensus yet

ASSUME PathAssumption ==
  /\ Cardinality(Relays) >= 3
  /\ Policies \subseteq SUBSET Ports

(* Two-element sets of relays: the possible mutual family declarations.   *)
RelayPairs == {p \in SUBSET Relays : Cardinality(p) = 2}

(* NetDir snapshots: which pairs of relays declare each other family, and *)
(* the ports each relay's exit policy allows.                              *)
Directories == [family : SUBSET RelayPairs, policy : [Relays -> Policies]]

(* ExitPathBuilder::from_target_ports(wantports): WantsPorts(ports).       *)
FromTargetPorts(ps) == [kind |-> "WantsPorts", ports |-> ps]

(* ExitPathBuilder::from_chosen_exit(exit_relay): ChosenExit(exit_relay).  *)
FromChosenExit(r) == [kind |-> "ChosenExit", exit |-> r]

(* ExitPathBuilder { inner: ExitPathBuilderInner }: every builder the two  *)
(* constructors can make.                                                  *)
Builders ==
  {FromTargetPorts(ps) : ps \in SUBSET Ports} \cup {FromChosenExit(r) : r \in Relays}

(* The errors of pick_path().                                              *)
Errors == {"NeedConsensus", "NoExit", "NoMiddle", "NoEntry"}

(* Result<TorPath>: a path of three relays or an error; None before the   *)
(* call.                                                                   *)
Results ==
  [kind : {"Path"}, hops : [1 .. 3 -> Relays]] \cup [kind : Errors \cup {"None"}]

Err(e) == [kind |-> e]

VARIABLES
  builder,  \* the ExitPathBuilder
  dirinfo,  \* the DirInfo argument
  result    \* Result<TorPath>

vars == <<builder, dirinfo, result>>

TypeOK ==
  /\ builder \in Builders
  /\ dirinfo \in Directories \cup {Fallbacks}
  /\ result \in Results

-----------------------------------------------------------------------------
(* Relay::in_same_family() (tor-netdir).                                   *)
InSameFamily(d, a, b) == a = b \/ {a, b} \in d.family

(* TargetPort::is_supported_by(r) for every wanted port.                   *)
SupportsAll(d, ports, r) == ports \subseteq d.policy[r]

(* pick_exit(): the relays pick_relay(Exit, ..) may return, or the chosen  *)
(* exit itself, unconditionally.                                           *)
ExitCandidates(b, d) ==
  IF b.kind = "WantsPorts"
    THEN {r \in Relays : SupportsAll(d, b.ports, r)}
    ELSE {b.exit}

(* Variant of MiddleCandidates that excludes only the exit itself.        *)
MiddleNotExit(d, exit) == {r \in Relays : r # exit}

(* pick_relay(Middle, |r| !r.in_same_family(&exit)).                       *)
MiddleCandidates(d, exit) == {r \in Relays : ~InSameFamily(d, r, exit)}

(* pick_relay(Guard, |r| !r.in_same_family(&middle) &&                     *)
(*                      !r.in_same_family(&exit)).                          *)
EntryCandidates(d, middle, exit) ==
  {r \in Relays : ~InSameFamily(d, r, middle) /\ ~InSameFamily(d, r, exit)}

(* Every result pick_path() can return for the builder and the DirInfo:    *)
(* NeedConsensus on fallbacks; otherwise, for each exit it may pick, the   *)
(* first role with no candidate is the error, else TorPath::new_multihop   *)
(* of vec![entry, middle, exit].                                            *)
PickPath(b, di) ==
  IF di = Fallbacks THEN {Err("NeedConsensus")}
  ELSE IF ExitCandidates(b, di) = {} THEN {Err("NoExit")}
  ELSE UNION {
    IF MiddleCandidates(di, e) = {} THEN {Err("NoMiddle")}
    ELSE UNION {
      IF EntryCandidates(di, m, e) = {} THEN {Err("NoEntry")}
      ELSE {[kind |-> "Path", hops |-> <<g, m, e>>] :
              g \in EntryCandidates(di, m, e)}
      : m \in MiddleCandidates(di, e)}
    : e \in ExitCandidates(b, di)}

Init ==
  /\ builder \in Builders
  /\ dirinfo \in Directories \cup {Fallbacks}
  /\ result = Err("None")

(* ExitPathBuilder::pick_path(rng, dirinfo).                               *)
Pick ==
  /\ result.kind = "None"
  /\ result' \in PickPath(builder, dirinfo)
  /\ UNCHANGED <<builder, dirinfo>>

Next == Pick

Spec == Init /\ [][Next]_vars

-----------------------------------------------------------------------------
(* A path pick_path() returns is what the by_ports test asserts over 1000  *)
(* random samples, for every directory and every random choice: three      *)
(* pairwise distinct relays, no two of one family, an exit allowing every  *)
(* wanted port, or the chosen exit.                                        *)
PathValid ==
  result.kind = "Path" =>
    LET h == result.hops IN
    /\ \A i, j \in 1 .. 3 : i # j => h[i] # h[j]
    /\ \A i, j \in 1 .. 3 : i # j => ~InSameFamily(dirinfo, h[i], h[j])
    /\ builder.kind = "WantsPorts" => SupportsAll(dirinfo, builder.ports, h[3])
    /\ builder.kind = "ChosenExit" => h[3] = builder.exit
=============================================================================
