--------------------------- MODULE MCKernelLoops ---------------------------
(***************************************************************************)
(* Instances of KernelLoops for TLC.                                       *)
(***************************************************************************)
EXTENDS KernelLoops

CONSTANTS
  Lens,        \* the lengths of filter
  Lens8,       \* the lengths of filter_remaining
  Sources,     \* the sets of rows that satisfy the comparison
  Dests        \* the contents of a byte

FilterCalls ==
  {[func |-> "filter", len |-> n, bit_offset |-> 0, source |-> s,
    bytes |-> n \div W + 1, dest |-> [b \in 0 .. n \div W |-> d]] :
     n \in Lens, s \in Sources, d \in Dests}

RemainingCalls ==
  {[func |-> "filter_remaining", len |-> n, bit_offset |-> o, source |-> s,
    bytes |-> 1, dest |-> [b \in 0 .. 0 |-> d]] :
     n \in Lens8, o \in 0 .. W - 1, s \in Sources, d \in Dests}

\* Whatever the interface of FilterKernel allows.
MCCalls == FilterCalls \cup RemainingCalls

\* Every subset of six rows, and every byte of three bits.
SmallSources == SUBSET (0 .. 5)
SmallDests == SUBSET (0 .. 2)
SmallLens8 == 0 .. 15
=============================================================================
