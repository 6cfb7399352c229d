------------------------------ MODULE AotKernels ------------------------------
(***************************************************************************)
(* The provider of kernels assembled ahead of time (src/src/providers/aot): *)
(* which kernel get_kernel_data answers a request with, in which order it  *)
(* wants the twiddle factors to be, and which tables there are to look in. *)
(* A lookup no table is for compiles, and answers nullptr; the plans call  *)
(* what they are given.  Constant operators only.                          *)
(*                                                                         *)
(* A request q is the call of get_kernel_data: kind, data, n, howmany,     *)
(* istride, ostride, idist, odist, order and sme (want_sme).               *)
(***************************************************************************)
EXTENDS Integers

Unknown == 0       (* std::nullopt for howmany: more than one, or not known *)

FixedPoint == {"Q7", "Q15"}

(* get_kernel_ns.                                                          *)
GetKernelNs(data) == IF data \in FixedPoint THEN {2, 4, 8, 16} ELSE 2..20

-----------------------------------------------------------------------------
(* The tables, by kernel: the orders and dist_types they are for.          *)

(* Neon or, for half precision, asimdhp; every type of data has these.     *)
NeonTables ==
  [n    |-> {"NA"} \X {"gs", "gu", "us", "uu", "uun"},
   nfoh |-> {"NA"} \X {"uu", "uun"},
   nbih |-> {"NA"} \X {"uu", "uun"},
   t    |-> {<<"AB", "gs">>, <<"AB", "gu">>, <<"AC", "uu">>},
   tfj  |-> {<<"AB", "gs">>, <<"AB", "gu">>, <<"AC", "uu">>},
   tfol |-> {<<"AB", "uun">>, <<"AC", "uu">>},
   tbil |-> {<<"AB", "gs">>, <<"AB", "us">>, <<"AC", "uu">>},
   tbih |-> {<<"AB", "gs">>, <<"AB", "us">>, <<"AC", "uu">>}]

(* SVE kernels stand beside the Neon ones, except for fixed-point data and *)
(* where a kernel does a single row.                                       *)
HasSve(data, dist) == data \notin FixedPoint /\ dist # "uun"

(* The kernels SME has for contiguous rows and, in the two shorter types   *)
(* of floating point, for rows it transposes on the way.                   *)
TransposedTables(kernel, kind) ==
  CASE kernel = "n" /\ kind = "c2c" -> {<<"NA", "tu">>}
    [] kernel = "t"                 -> {<<"AB", "tu">>, <<"AC", "tu">>}
    [] kernel = "tfj"               -> {<<"AB", "tu">>}
    [] OTHER                        -> {}

SmeTables(kernel, kind, data) ==
  IF data \in FixedPoint THEN {}
  ELSE {at \in NeonTables[kernel] : at[2] = "uu"}
         \cup (IF kernel = "tfol" THEN {<<"AB", "uu">>} ELSE {})
         \cup (IF data = "FP64" THEN {} ELSE TransposedTables(kernel, kind))

(* Lengths with an entry: the two c2r row kernels share them by parity.    *)
EntriesOf(kernel, data) ==
  {n \in GetKernelNs(data) : /\ kernel = "tbil" => n % 2 = 0
                             /\ kernel = "tbih" => n % 2 = 1}

(* lookup_fft_func_*: the best kernel there is, or "none".                 *)
LookupFftFunc(kernel, q, dist, sve) ==
  LET at == <<q.order, dist>>
  IN  IF q.n \notin EntriesOf(kernel, q.data) THEN "none"
      ELSE IF q.sme /\ at \in SmeTables(kernel, q.kind, q.data) THEN "sme"
      ELSE IF at \notin NeonTables[kernel] THEN "none"
      ELSE IF sve /\ HasSve(q.data, dist) THEN "sve"
      ELSE "neon"

-----------------------------------------------------------------------------
(* get_kernel_data.                                                        *)

(* sizeof(remove_complex_t<Tx>) is 4 or 2.                                 *)
IsShort(data) == data \in {"FP32", "FP16", "Q15"}

WantTu(q) ==
  /\ q.sme /\ q.istride = 1 /\ q.odist = 1 /\ q.idist = q.n
  /\ q.kind = "c2c" \/ (q.kind = "r2c" /\ q.order = "AB")
  /\ IsShort(q.data)

WantUu(q) == q.idist = 1 /\ q.odist = 1

(* Cases where SME has a kernel for one contiguous row too.                *)
WantSmeForSingle(q) ==
  q.sme /\ WantUu(q) /\ (q.order = "NA" \/ (q.kind = "r2c" /\ q.order = "AB"))

DistOf(q) ==
  IF ~WantTu(q) /\ q.howmany = 1 /\ ~WantSmeForSingle(q) THEN "uun"
  ELSE IF WantUu(q) THEN "uu"
  ELSE IF WantTu(q) THEN "tu"
  ELSE IF q.idist = 1 THEN "us"
  ELSE IF q.odist = 1 THEN "gu" ELSE "gs"

(* twid_layout: whether each factor comes with its rotation, and of how    *)
(* many rows the factors of a column lie together: one, as many as an SVE  *)
(* vector holds, or as an SME vector holds.                                *)
NeonTwiddles == [premul |-> TRUE, together |-> "one"]

TwidLayout(q, sve) ==
  LET sme == q.sme /\ (WantUu(q) \/ WantTu(q))
  IN  IF DistOf(q) = "uun" \/ q.data \in FixedPoint THEN NeonTwiddles
      ELSE IF sme /\ q.order = "AB" /\ q.kind \in {"c2c", "r2c"}
      THEN [premul |-> FALSE, together |-> "sme"]
      ELSE IF sve
      THEN [premul |-> FALSE, together |-> IF q.order = "AB" THEN "sve" ELSE "one"]
      ELSE [premul |-> ~q.sme \/ ~WantUu(q), together |-> "one"]

(* What a kernel's instructions read: Neon ones load a factor and its      *)
(* rotation; SVE and SME ones load a vector of rows' factors, or, in the   *)
(* order AC, one factor for a vector of lanes.                             *)
TwiddlesRead(tier, order) ==
  IF tier = "neon" THEN NeonTwiddles
  ELSE [premul |-> FALSE, together |-> IF order = "AC" THEN "one" ELSE tier]

-----------------------------------------------------------------------------
(* What the plans and the levels ask for and call.  A stage t has kind, n, *)
(* istride, ostride, idist, odist and rows, with data and sme.             *)

Request(t, howmany, idist, odist, order) ==
  [kind |-> t.kind, data |-> t.data, n |-> t.n, howmany |-> howmany,
   istride |-> t.istride, ostride |-> t.ostride, idist |-> idist, odist |-> odist,
   order |-> order, sme |-> t.sme]

Call(kernel, q) == [kernel |-> kernel, q |-> q]

RowsKernel(t) ==
  [c2c |-> "t", r2c |-> "tfj", c2r |-> IF t.n % 2 = 0 THEN "tbil" ELSE "tbih"][t.kind]

(* direct_plan, make_1d_direct_plan and level_ab_n.                        *)
DirectCalls(t, howmany) == {Call("n", Request(t, howmany, t.idist, t.odist, "NA"))}

(* Seeded fault: the middle row's kernel is looked up with the others'.    *)
MiddleRowCall_AsOthers(t) == Call("tfol", Request(t, t.rows, t.idist, t.odist, "AB"))

(* The middle row of an even number: data_tfh.                             *)
MiddleRowCall(t) == Call("tfol", Request(t, 1, 1, 1, "AB"))

(* ab_twid_direct_plan.                                                    *)
AbTwidCalls(t) ==
  LET first(kernel, idist, odist) == Call(kernel, Request(t, 1, idist, odist, "NA"))
      rows(howmany) == Call(RowsKernel(t), Request(t, howmany, t.idist, t.odist, "AB"))
  IN  CASE t.kind = "c2c" -> {first("n", 1, 1), rows(t.rows)}
        [] t.kind = "r2c" ->
             {first("nfoh", 1, 1)} \cup (IF t.rows > 2 THEN {rows(t.rows)} ELSE {})
               \cup (IF t.rows % 2 = 0 THEN {MiddleRowCall(t)} ELSE {})
        [] t.kind = "c2r" -> {first("nbih", t.idist, t.odist), rows(Unknown)}

(* ac_twid_direct_plan, and level_ac_t, which gives no howmany.            *)
AcTwidCalls(t, howmany) ==
  LET first == [c2c |-> "n", r2c |-> "nfoh", c2r |-> "nbih"][t.kind]
      rows  == (IF t.kind = "r2c" /\ t.rows = 2 THEN {} ELSE {RowsKernel(t)})
                 \cup (IF t.kind = "r2c" /\ t.rows % 2 = 0 THEN {"tfol"} ELSE {})
  IN  {Call(first, Request(t, howmany, 1, 1, "NA"))}
        \cup {Call(kernel, Request(t, howmany, 1, 1, "AC")) : kernel \in rows}

(* A call reaches a kernel, which reads the twiddle factors as the table   *)
(* generated for the request has them.                                     *)
IsServed(call, sve) ==
  LET tier == LookupFftFunc(call.kernel, call.q, DistOf(call.q), sve)
  IN  /\ tier # "none"
      /\ call.q.order # "NA" => TwiddlesRead(tier, call.q.order) = TwidLayout(call.q, sve)

=============================================================================
