------------------------------- MODULE Alloc -------------------------------
(***************************************************************************)
(* alloc.c: what an allocation of num objects of a size, and extra bytes,  *)
(* may come to under the limit of --maxsize: "ok", "exit" (the limit),     *)
(* "abort" (overflow, or no memory), or "null", which xcalloc returns when *)
(* memory runs out and leaves to its caller.                               *)
(***************************************************************************)
EXTENDS Naturals

CONSTANTS
  SizeMod,      \* values of a size_t
  MayRunOut     \* whether malloc may return NULL

ASSUME AllocAssumption == SizeMod \in Nat \ {0} /\ MayRunOut \in BOOLEAN

check_mul_overflow(num, size) == num * size >= SizeMod

Overflows(num, size, extra) ==
  check_mul_overflow(num, size) \/ num * size + extra >= SizeMod

(* alloc_limit_assert: the limit is compared without the extra bytes. *)
OverLimit(limit, num, size) == limit # 0 /\ num * size > limit

NoMemory(o) == IF MayRunOut THEN {o} ELSE {}

checked_xmalloc(limit, num, size, extra) ==
  IF Overflows(num, size, extra) THEN {"abort"}
  ELSE IF OverLimit(limit, num, size) THEN {"exit"}
  ELSE {"ok"} \cup NoMemory("abort")

(* Here the limit is looked at before the extra bytes are added. *)
checked_xcalloc(limit, num, size, extra) ==
  IF check_mul_overflow(num, size) THEN {"abort"}
  ELSE IF OverLimit(limit, num, size) THEN {"exit"}
  ELSE IF Overflows(num, size, extra) THEN {"abort"}
  ELSE {"ok"} \cup NoMemory("null")
=============================================================================
