------------------------------ MODULE MCCompositor ------------------------------
(***************************************************************************)
(* Instances of Compositor and CompositionArithmetic: the kernel lengths   *)
(* the providers list, and lengths that take each algorithm.               *)
(***************************************************************************)
EXTENDS CompositionArithmetic

(* aot_kernel_data.cpp, floating point.                                    *)
AotKernelNs == << 2, 3, 4, 5, 6, 7, 8, 9, 10, 11, 12, 13, 14, 15, 16, 17, 18, 19, 20 >>

(* jit_kernel_data.cpp: coprime products of supported factors, up to 40.   *)
JitKernels == << 40, 39, 38, 36, 35, 34, 33, 32, 30, 28, 26, 25, 24, 22, 21, 20,
                 19, 18, 17, 16, 15, 14, 13, 12, 11, 10, 9, 8, 7, 6, 5, 4, 3, 2 >>

(* 1; kernels only; 23 and 29 by Rader (22 = 11 * 2, 28 = 7 * 4), 47 by    *)
(* Bluestein (46 = 23 * 2); a square of a prime; three factors.            *)
MCLengths == {1, 12, 18, 29, 46, 94, 125, 529, 1334}

(* Stand-ins for the factors, and for 22 = 11 * 2 and padded lengths.      *)
MCSizes == {[even |-> 2, odd |-> 3, prime |-> 5], [even |-> 4, odd |-> 3, prime |-> 3]}
MCRaderParts == 3 :> << 2 >> @@ 5 :> << 2, 2 >>
MCPaddedParts == 3 :> << 3, 2 >> @@ 5 :> << 3, 3 >>

MCAbLayout  == Layout(TRUE, 2, FALSE)
MCRowLayout == Layout(FALSE, 2, FALSE)
MCAcLayout  == Layout(TRUE, 1, FALSE)

=============================================================================
