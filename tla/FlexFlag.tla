------------------------------ MODULE FlexFlag ------------------------------
(***************************************************************************)
(* The eight flag bits that both variants of the FlexID manager put in     *)
(* front of (or behind) a name: bit 7 says that the object is a cached     *)
(* copy, bit 6 that it is a segment, bits 5..2 hold the collision          *)
(* management number, bits 1..0 are unused.  collision_inc adds one to the *)
(* management number.                                                      *)
(***************************************************************************)
EXTENDS Naturals

collision_inc == 4

\* Beyond 15 gen_flag raises 'Collision range error'; every caller passes 0.
MaxManagementNumber == 15

\* The bits are disjoint, so the bitwise or of the code is a sum.
gen_flag(cache_bit, segment_bit, collision_mngt) ==
    (IF cache_bit THEN 128 ELSE 0)
      + (IF segment_bit THEN 64 ELSE 0)
      + collision_mngt * collision_inc

=============================================================================
