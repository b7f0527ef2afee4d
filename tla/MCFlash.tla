------------------------------- MODULE MCFlash -------------------------------
(***************************************************************************)
(* The commands on a card's flash, and the images and files that are written *)
(* to it, for TLC. Only one command has the link at a time, so a behaviour is *)
(* one of one of the modules: `which` names it, the others stay where they   *)
(* started.                                                                *)
(***************************************************************************)
EXTENDS RewriteBlock, FlashReads, Upgrade, BankWrite, ConfigWrite, Rcvbp

VARIABLE which

Modules == {"rewrite", "reads", "upgrade", "bank", "config", "panel", "file"}

\* Panel specs: a module of each kind in each direction with each wiring,
\* chains and walls of them, odd and too large modules, chips and overrides.
MCSpec0 == [width |-> 64, height |-> 32, scan |-> 16, line_dir |-> 0, sw |-> 64, sh |-> 32,
  block |-> 0, reversed_groups |-> TRUE, reversed_lines |-> FALSE, gate_phantom |-> TRUE, arm_at_boot |-> TRUE,
  chip |-> "table", min_oe |-> 1, sck |-> 8, chip_over |-> NoOverrides, over |-> NoOverrides]
MCSpecs ==
  {[MCSpec0 EXCEPT !.line_dir = d, !.block = b, !.reversed_groups = g, !.reversed_lines = g, !.scan = n] :
     d \in {0, 2}, b \in {0, 16, 24}, g \in BOOLEAN, n \in {4, 16}}
  \cup {[MCSpec0 EXCEPT !.line_dir = d, !.sw = n[1], !.sh = n[2], !.gate_phantom = d # 1] :
     d \in 0 .. 4,
     n \in {<<64, 32>>, <<64, 128>>, <<192, 96>>, <<256, 64>>, <<64, 576>>, <<1024, 32>>, <<7168, 32>>, <<61440, 32>>, <<65472, 32>>,
          <<4096, 4096>>, <<100, 32>>}}
  \cup {[MCSpec0 EXCEPT !.width = m[1], !.height = m[2], !.scan = m[3], !.sw = m[1], !.sh = m[2], !.arm_at_boot = FALSE] :
     m \in {<<0, 32, 8>>, <<1, 2, 1>>, <<64, 31, 4>>, <<80, 40, 20>>, <<104, 52, 26>>, <<64, 32, 12>>, <<64, 32, 0>>,
            <<64, 128, 64>>, <<32, 194, 97>>, <<128, 64, 16>>, <<128, 128, 64>>, <<255, 254, 127>>, <<256, 64, 16>>}}
  \cup {[MCSpec0 EXCEPT !.chip = c, !.over = o, !.chip_over = p, !.min_oe = IF c = "custom" THEN 50000 ELSE 1] :
     c \in {"table", "custom", "bad"},
     o \in {NoOverrides, [split |-> 1], [grid_w |-> 0], [grid_w |-> 8, grid_h |-> 8], [line_dir |-> 3]},
     p \in {NoOverrides, [split |-> 4], [grid_w |-> 24], [hr_style |-> 1]}}

\* Files with and without a geometry record at the end, with a type twice, and
\* with an empty record at the end.
MCLists == {
  <<Rec(1, <<7>>), Rec(3, <<>>), Rec(10, <<9, 9>>)>>,
  <<Rec(1, <<8, 8>>), Rec(4, <<5>>), Rec(1, <<6>>)>>,
  <<Rec(3, <<>>)>>,
  <<Rec(10, <<2>>), Rec(4, <<>>)>>}
MCCopies == {<<>>, <<1>>, <<10, 4>>, <<4, 10>>, <<3, 1>>}
MCDrops  == {<<>>, <<1>>, <<10, 3>>}
MCSources == {
  [MCSpec0 EXCEPT !.width = 4, !.height = 8, !.sw = 8, !.sh = 8, !.scan = n, !.chip = c,
     !.block = b, !.reversed_groups = g, !.reversed_lines = l, !.over = o, !.chip_over = [x02f |-> 1]] :
   b \in {0, 2, 3}, g \in BOOLEAN, l \in BOOLEAN, n \in {2, 3, 4}, c \in {"table", "custom"},
   o \in {NoOverrides, [split |-> 1], [line_dir |-> 2, x043 |-> 3]}}
MCLibrary == [table |-> [x02f |-> 1], custom |-> [x02f |-> 1], bad |-> [x02f |-> 1]]

\* What the commands on panel specs are parked at.
ASSUME ParkedAssumption == MCSpec0 \in Specs
NotGenerating ==
  /\ gat = "failed" /\ gcmd = "push" /\ gspec = MCSpec0 /\ gstep = 0 /\ gimg = <<>> /\ gsent = 0
  /\ gchip = FALSE /\ gfiles = [f \in Outputs |-> 0] /\ grun = 1
\* Of two files one is whole, or they are the same one.
OneCutFile == bsrc.whole \/ bsrc.file = bbase.file
NotComposing ==
  /\ bat = "failed" /\ bbase = [list |-> <<>>, whole |-> FALSE, file |-> EmptyFile] /\ bsrc = bbase
  /\ bcopy = <<>> /\ bdrop = <<>> /\ bin = NoRecords /\ basked = [copy |-> bcopy, drop |-> bdrop]
  /\ bcfg = <<>> /\ bout = EmptyFile /\ bspec = [spec |-> MCSpec0, named |-> {}, generated |-> FALSE]

\* One of the initial states of a module for those it is parked in.
Parked(m, initial) == which # m => initial

MCInit ==
  /\ which \in Modules
  /\ IF which = "rewrite" THEN Init
     ELSE flash = [i \in Pages |-> "erased"] /\ pc = "erase" /\ attempt = 1
          /\ todo = {} /\ erased = TRUE /\ lost = FALSE /\ result = "none"
  /\ RInit /\ Parked("reads", cmd = "scan" /\ total = 1)
  /\ UInit /\ Parked("upgrade", target = "primary" /\ \A f \in DOMAIN offers : offers[f])
  /\ BInit /\ Parked("bank", range = [from |-> 0, to |-> 1] /\ inputs
                             /\ bank = [b \in Blocks |-> "old"])
  /\ CInit /\ Parked("config", record.area = "good")
  /\ IF which = "panel" THEN GInit ELSE NotGenerating
  /\ IF which = "file" THEN FileInit /\ OneCutFile ELSE NotComposing

others(m) ==
  /\ which = m
  /\ m # "rewrite" => UNCHANGED vars
  /\ m # "reads" => UNCHANGED rvars
  /\ m # "upgrade" => UNCHANGED uvars
  /\ m # "bank" => UNCHANGED bvars
  /\ m # "config" => UNCHANGED cvars
  /\ m # "panel" => UNCHANGED gvars
  /\ m # "file" => UNCHANGED filevars
MCNext ==
  /\ UNCHANGED which
  /\ \/ others("rewrite") /\ Next
     \/ others("reads") /\ RNext
     \/ others("upgrade") /\ UNext
     \/ others("bank") /\ BNext
     \/ others("config") /\ CNext
     \/ others("panel") /\ GNext
     \/ others("file") /\ FileNext

MCSpec == MCInit /\ [][MCNext]_<<which, vars, rvars, uvars, bvars, cvars, gvars, filevars>>

\* Every module's type invariant.
AllTypes == TypeOK /\ RTypeOK /\ UTypeOK /\ BTypeOK /\ CTypeOK /\ GTypeOK /\ FileTypeOK

=============================================================================
