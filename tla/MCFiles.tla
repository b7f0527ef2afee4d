------------------------------- MODULE MCFiles -------------------------------
(***************************************************************************)
(* What commands decide from files and from one look at a card, for TLC. As   *)
(* in MCFlash a behaviour is one of one of the modules, which `which` names.   *)
(***************************************************************************)
EXTENDS Firmware, Probe, Requests, Provision, TLC

VARIABLE which

MCParts == {[part |-> p, suffix |-> s] : p \in {"SM1", "SM2"}, s \in {<<>>, <<"S">>, <<"S", "H">>}}

MCImages == {
  [kind |-> "PWM", tested |-> TRUE, chips |-> <<>>, date |-> 1],
  [kind |-> "PWM", tested |-> FALSE, chips |-> <<[part |-> "SM1", suffix |-> <<"S", "H">>]>>, date |-> 2],
  [kind |-> "PWM", tested |-> FALSE, date |-> 1,
   chips |-> <<[part |-> "SM1", suffix |-> <<>>], [part |-> "SM1", suffix |-> <<"S">>]>>],
  [kind |-> "DS", tested |-> FALSE, chips |-> <<[part |-> "SM1", suffix |-> <<"S">>]>>, date |-> 2],
  [kind |-> "DS", tested |-> TRUE, chips |-> <<[part |-> "SM2", suffix |-> <<"S">>]>>, date |-> 2],
  [kind |-> "Normal", tested |-> FALSE, chips |-> <<[part |-> "SM2", suffix |-> <<>>]>>, date |-> 3]}

MCModels == {
  [id |-> 1, max |-> 0],
  [id |-> NoId, max |-> 1]}

Parked(m, initial) == which # m => initial

MCInit ==
  /\ which \in {"firmware", "pick", "probe", "requests", "provision"}
  /\ Parked("firmware", files = [f \in Files |-> Absent])
  /\ Parked("pick", manifest = {} /\ chip = NoChip /\ class = "unknown")
  /\ Parked("probe", id = 1 /\ size = 0 /\ named = None
                     /\ heads = [h \in Heads |-> TRUE]
                     /\ regions = [r \in Regions |-> "whole"] /\ answers = TRUE
                     /\ record = [agrees |-> TRUE, chip_regs |-> TRUE])
  \* the scan table is read by the rule the mapping is: they have one content
  /\ which = "probe" => regions \in {c \in [Regions -> Contents] : c["scan"] = c["mapping"]}
  /\ FInit /\ KInit /\ PInit /\ RInit /\ Init

others(m) ==
  /\ which = m
  /\ m # "firmware" => UNCHANGED fvars
  /\ m # "pick" => UNCHANGED kvars
  /\ m # "probe" => UNCHANGED pvars
  /\ m # "requests" => UNCHANGED rvars
  /\ m # "provision" => UNCHANGED vars
MCNext ==
  /\ UNCHANGED which
  /\ \/ others("firmware") /\ FNext
     \/ others("pick") /\ Pick
     \/ others("probe") /\ PNext
     \/ others("requests") /\ RNext
     \/ others("provision") /\ Next

MCSpec == MCInit /\ [][MCNext]_<<which, fvars, kvars, pvars, rvars, vars>>

ClientSymmetry == Permutations(Clients)

\* Every module's type invariant.
AllTypes == FTypeOK /\ PTypeOK /\ RTypeOK /\ TypeOK

=============================================================================
