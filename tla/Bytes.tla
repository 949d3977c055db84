------------------------------- MODULE Bytes -------------------------------
(* The u8 arithmetic every compact service counter uses.  Integer arithmetic *)
(* of the language wraps (docs/arch/c-lang/language/types/                   *)
(* numeric_types_spec.txt:33), so an id or generation counter is modular.    *)
EXTENDS Naturals

CONSTANT U8  \* the number of u8 values: 256 in the code, smaller in the models

ASSUME U8Assumption == U8 \in Nat \ {0, 1}

Byte == 0 .. U8 - 1

\* u8(n): the truncating conversion, and the wrap of an addition.
u8(n) == n % U8
=============================================================================
