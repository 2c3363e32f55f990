---------------------------- MODULE MCLuMonotonic ----------------------------
(* Small instances of LuMonotonic for TLC: times around a full second, where *)
(* the macros carry and borrow.                                              *)
EXTENDS LuMonotonic

Day(sec, usec) == [tv_sec |-> sec, tv_usec |-> usec]
Kernel(sec, nsec) == [tv_sec |-> sec, tv_nsec |-> nsec]

SomeTimesOfDay ==
  {Day(0, 999999), Day(1, 0), Day(1, 999998), Day(2, 1), Day(4, 500000)}
SomeKernelTimes == {Kernel(0, 999999999), Kernel(1, 999), Kernel(1, 1000)}
==============================================================================
