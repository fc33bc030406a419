------------------------------- MODULE MCHost -------------------------------
(***************************************************************************)
(* What lies between the guest and the host: display memory (Vga), the     *)
(* frame two threads compose (Sampler), the tick count one thread writes   *)
(* under the other (Clock), and the file through which one run of the      *)
(* program tells the next what to lift (Converge).                         *)
(*                                                                         *)
(* As in MCServices they share no state and one at a time runs.            *)
(***************************************************************************)
EXTENDS Vga, Sampler, Clock, Converge

VARIABLE unit

HostUnit == {"vga", "sampler", "clock", "converge"}

HostInit ==
  /\ unit \in HostUnit
  /\ VgaInit /\ SamplerInit /\ ClockInit /\ ConvergeInit
  /\ unit # "clock" => ticks = 0
  /\ unit # "sampler" => shown = CHOOSE g \in Page : TRUE

VgaStep ==
  /\ unit = "vga" /\ VgaNext
  /\ UNCHANGED <<unit, samplerVars, clockVars, convergeVars>>

SamplerStep ==
  /\ unit = "sampler" /\ SamplerNext
  /\ UNCHANGED <<unit, vgaVars, clockVars, convergeVars>>

ClockStep ==
  /\ unit = "clock" /\ ClockNext
  /\ UNCHANGED <<unit, vgaVars, samplerVars, convergeVars>>

ConvergeStep ==
  /\ unit = "converge" /\ ConvergeNext
  /\ UNCHANGED <<unit, vgaVars, samplerVars, clockVars>>

HostNext == VgaStep \/ SamplerStep \/ ClockStep \/ ConvergeStep

HostSpec ==
  HostInit /\ [][HostNext]_<<unit, vgaVars, samplerVars, clockVars, convergeVars>>

\* Every variable of the four keeps its type.
HostTypeOK == VgaTypeOK /\ SamplerTypeOK /\ ClockTypeOK /\ ConvergeTypeOK
=============================================================================
