------------------------- MODULE UtilsCommonProofs -------------------------
EXTENDS UtilsCommon, TLAPS

SiteOK(c) == FieldsOK(c) /\ StartedOK(c) /\ HeapOK(c) /\ AttInMetaOK(c)

\* Every site but c is as it was, or died half read with an aborted query.
Frame(c) ==
  \A d \in Calls \ {c} :
    /\ fn_extra'[d] = fn_extra[d] /\ call_cntr'[d] = call_cntr[d]
    /\ max_calls'[d] = max_calls[d] /\ user_fctx'[d] = user_fctx[d]
    /\ attinmeta'[d] = attinmeta[d] /\ items'[d] = items[d]
    /\ thrown'[d] = thrown[d] /\ rows'[d] = rows[d]
    /\ pc'[d] = pc[d] \/ (pc[d] = "open" /\ pc'[d] = "aborted")
    /\ heap'[d] = heap[d]

LEMMA FrameLemma ==
  ASSUME IInv, NEW c \in Calls, Frame(c), NEW d \in Calls, d # c
  PROVE SiteOK(d)'
<1>1. FieldsOK(d) /\ StartedOK(d) /\ HeapOK(d) /\ AttInMetaOK(d) BY DEF IInv
<1>2. /\ fn_extra'[d] = fn_extra[d] /\ call_cntr'[d] = call_cntr[d]
      /\ max_calls'[d] = max_calls[d] /\ user_fctx'[d] = user_fctx[d]
      /\ attinmeta'[d] = attinmeta[d] /\ items'[d] = items[d]
      /\ thrown'[d] = thrown[d] /\ rows'[d] = rows[d]
      /\ pc'[d] = pc[d] \/ (pc[d] = "open" /\ pc'[d] = "aborted")
      /\ heap'[d] = heap[d]
  BY DEF Frame
<1>3. FieldsOK(d)' BY <1>1, <1>2 DEF FieldsOK, Unfilled, FirstCallSteps
<1>4. StartedOK(d)' BY <1>1, <1>2 DEF StartedOK, Started
<1>5. HeapOK(d)' BY <1>1, <1>2 DEF HeapOK, FieldsOK, Inside
<1>6. AttInMetaOK(d)' BY <1>1, <1>2 DEF AttInMetaOK, Started, FirstCallSteps
<1> QED BY <1>3, <1>4, <1>5, <1>6 DEF SiteOK

LEMMA InitIInv == Init => IInv
<1> SUFFICES ASSUME Init PROVE IInv OBVIOUS
<1> USE CallsAssumption DEF Init, Inside, Outside, FirstCallSteps
<1>1. TypeOK
  <2>1. pc \in [Calls -> Points] BY DEF Points
  <2>2. /\ call_cntr \in [Calls -> 0..1] /\ max_calls \in [Calls -> 0..1]
        /\ rows \in [Calls -> 0..1]
    OBVIOUS
  <2>3. fn_extra \in [Calls -> BOOLEAN] /\ user_fctx \in [Calls -> BOOLEAN] OBVIOUS
  <2>4. items \in [Calls -> {<<>>, <<"live">>, <<"nullptr">>}] OBVIOUS
  <2>5. attinmeta \in [Calls -> Calls \cup {Executor}] OBVIOUS
  <2>6. thrown \in [Calls -> {"none", "pg", "other"}] OBVIOUS
  <2>7. heap \in [Calls -> SUBSET What] OBVIOUS
  <2> QED BY <2>1, <2>2, <2>3, <2>4, <2>5, <2>6, <2>7 DEF TypeOK
<1>2. OneInside BY DEF OneInside
<1>3. ContextDiscipline BY DEF ContextDiscipline
<1>4. ASSUME NEW d \in Calls PROVE FieldsOK(d) BY DEF FieldsOK, Unfilled
<1>5. ASSUME NEW d \in Calls PROVE StartedOK(d) BY DEF StartedOK, Started
<1>6. ASSUME NEW d \in Calls PROVE HeapOK(d) BY DEF HeapOK
<1>7. ASSUME NEW d \in Calls PROVE AttInMetaOK(d) BY DEF AttInMetaOK, Started
<1>8. IcuOK BY DEF IcuOK
<1> QED BY <1>1, <1>2, <1>3, <1>4, <1>5, <1>6, <1>7, <1>8 DEF IInv

\* The two process-wide variables, as site c sees them while it runs.
Point(c) ==
  /\ context = IF pc[c] \in FirstCallSteps THEN c ELSE Executor
  /\ UsesIcu(c) /\ ("utility" \in heap[c] \/ pc[c] \in {"perform", "records", "fill"}) => icu
  /\ icu => UsesIcu(c) /\ pc[c] \in {"perform", "records", "fill", "delete", "cleanup"}

Acting(c) == pc[c] \in Inside \/ Idle

LEMMA PointBefore ==
  ASSUME IInv, NEW c \in Calls, Acting(c)
  PROVE SiteOK(c) /\ Point(c)
<1>1. SiteOK(c) BY DEF IInv, SiteOK
<1>2. \A d \in Calls \ {c} : pc[d] \notin Inside
  BY DEF IInv, OneInside, Acting, Idle
<1>3. FirstCallSteps \subseteq Inside BY DEF FirstCallSteps, Inside
<1>4. context = IF pc[c] \in FirstCallSteps THEN c ELSE Executor
  BY <1>2, <1>3 DEF IInv, TypeOK, ContextDiscipline
<1>5. icu => UsesIcu(c) /\ pc[c] \in {"perform", "records", "fill", "delete", "cleanup"}
  <2> SUFFICES ASSUME icu
               PROVE UsesIcu(c) /\ pc[c] \in {"perform", "records", "fill", "delete", "cleanup"}
    OBVIOUS
  <2>1. PICK d \in Calls : UsesIcu(d) /\ pc[d] \in {"perform", "records", "fill", "delete", "cleanup"}
    BY DEF IInv, IcuOK
  <2>2. d = c BY <2>1, <1>2 DEF Inside
  <2> QED BY <2>1, <2>2
<1> QED BY <1>1, <1>4, <1>5 DEF IInv, IcuOK, Point

LEMMA PointAfter ==
  ASSUME IInv, NEW c \in Calls, Acting(c),
         Frame(c), SiteOK(c)', Point(c)', TypeOK'
  PROVE IInv'
<1>1. \A d \in Calls \ {c} : pc[d] \notin Inside
  BY DEF IInv, OneInside, Acting, Idle
<1>2. "open" \notin Inside /\ "aborted" \notin Inside BY DEF Inside
<1>3. \A d \in Calls \ {c} : pc'[d] \notin Inside BY <1>1, <1>2 DEF Frame
<1>4. FirstCallSteps \subseteq Inside BY DEF FirstCallSteps, Inside
<1>5. \A d \in Calls : SiteOK(d)' BY FrameLemma
<1>6. OneInside' BY <1>3 DEF OneInside
<1>7. ContextDiscipline'
  BY <1>3, <1>4, CallsAssumption DEF ContextDiscipline, Point
<1>8. IcuOK'
  <2>1. ASSUME NEW d \in Calls, UsesIcu(d),
               "utility" \in heap'[d] \/ pc'[d] \in {"perform", "records", "fill"}
        PROVE icu'
    <3>1. pc'[d] \in Inside BY <2>1, <1>5 DEF SiteOK, HeapOK, Inside
    <3>2. d = c BY <3>1, <1>3
    <3> QED BY <2>1, <3>2 DEF Point
  <2>2. ASSUME icu'
        PROVE \E d \in Calls : UsesIcu(d) /\ pc'[d] \in {"perform", "records", "fill", "delete", "cleanup"}
    BY <2>2 DEF Point
  <2> QED BY <2>1, <2>2 DEF IcuOK, UsesIcu
<1> QED BY <1>5, <1>6, <1>7, <1>8 DEF IInv, SiteOK

LEMMA PcPoints == Inside \subseteq Points /\ Outside \subseteq Points
BY DEF Points

LEMMA WhatMembers ==
  /\ "arguments" \in What /\ "utility" \in What /\ "records" \in What
  /\ "record" \in What /\ "stray record" \in What /\ "exception" \in What
BY DEF What

LEMMA EnterIInv ==
  ASSUME IInv, NEW c \in Calls, EnterFrom(c, {"fresh", "done"}) \/ EnterFrom(c, {"open"})
  PROVE IInv'
<1>1. TypeOK /\ Acting(c) /\ SiteOK(c) /\ Point(c)
  BY PointBefore DEF IInv, EnterFrom, Acting, Inside
<1>2. /\ UNCHANGED <<fcinfoVars, thrown, rows, context, icu>>
      /\ pc[c] \in {"fresh", "done", "open"}
      /\ pc' = [pc EXCEPT ![c] = "entered"]
      /\ heap' = [heap EXCEPT ![c] = @ \cup {"arguments"}]
  BY DEF EnterFrom
<1>3. TypeOK'
  <2>1. pc' \in [Calls -> Points] BY <1>1, <1>2, PcPoints DEF TypeOK, Inside, Outside
  <2>2. heap' \in [Calls -> SUBSET What] BY <1>1, <1>2, WhatMembers DEF TypeOK
  <2> QED BY <1>1, <1>2, <2>1, <2>2 DEF TypeOK, fcinfoVars
<1>4. Frame(c) BY <1>1, <1>2 DEF Frame, TypeOK, fcinfoVars
<1>5. SiteOK(c)'
  <2> USE <1>1, <1>2 DEF TypeOK, SiteOK, fcinfoVars
  <2>1. FieldsOK(c)' BY DEF FieldsOK, Unfilled, FirstCallSteps
  <2>2. StartedOK(c)' BY DEF StartedOK, Started, FieldsOK
  <2>3. HeapOK(c)' BY DEF HeapOK, FieldsOK, Inside
  <2>4. AttInMetaOK(c)' BY DEF AttInMetaOK, Started, FirstCallSteps, FieldsOK
  <2> QED BY <2>1, <2>2, <2>3, <2>4
<1>6. Point(c)'
  BY <1>1, <1>2 DEF Point, SiteOK, HeapOK, TypeOK, FirstCallSteps, UsesIcu
<1> QED BY <1>1, <1>3, <1>4, <1>5, <1>6, PointAfter

LEMMA AbandonIInv ==
  ASSUME IInv, NEW c \in Calls, Abandon(c)
  PROVE IInv'
<1>1. TypeOK /\ Acting(c) /\ SiteOK(c) /\ Point(c)
  BY PointBefore DEF IInv, Abandon, Acting, Inside
<1>2. TypeOK'
  <2>1. pc' \in [Calls -> Points] BY <1>1, PcPoints DEF TypeOK, Inside, Outside, Abandon
  <2> QED BY <1>1, <2>1 DEF TypeOK, Abandon, fcinfoVars
<1>3. Frame(c) BY <1>1 DEF Frame, TypeOK, Abandon, fcinfoVars
<1>4. SiteOK(c)'
  <2> USE <1>1 DEF TypeOK, SiteOK, Abandon, fcinfoVars
  <2>1. FieldsOK(c)' BY DEF FieldsOK, Unfilled, FirstCallSteps
  <2>2. StartedOK(c)' BY DEF StartedOK, Started
  <2>3. HeapOK(c)' BY DEF HeapOK, FieldsOK, Inside
  <2>4. AttInMetaOK(c)' BY DEF AttInMetaOK, Started, FirstCallSteps
  <2> QED BY <2>1, <2>2, <2>3, <2>4
<1>5. Point(c)'
  BY <1>1 DEF Point, SiteOK, HeapOK, TypeOK, FirstCallSteps, UsesIcu, Abandon
<1> QED BY <1>1, <1>2, <1>3, <1>4, <1>5, PointAfter

(* An error leaves site c as "how" and may take half read sites with it.   *)
LEMMA RaiseEffect ==
  ASSUME TypeOK, NEW c \in Calls,
         NEW how \in {"failed", "aborted"}, Raise(c, how)
  PROVE /\ pc' \in [Calls -> Points]
        /\ pc'[c] = how
        /\ \A d \in Calls \ {c} : pc'[d] = pc[d] \/ (pc[d] = "open" /\ pc'[d] = "aborted")
        /\ context' = Executor
<1>1. PICK dead \in SUBSET {d \in Calls : pc[d] = "open"} :
        pc' = [d \in Calls |-> IF d = c THEN how
                               ELSE IF d \in dead THEN "aborted" ELSE pc[d]]
  BY DEF Raise
<1>2. {"failed", "aborted"} \subseteq Points BY DEF Points, Outside
<1> QED BY <1>1, <1>2 DEF Raise, TypeOK

LEMMA FirstCallInitIInv ==
  ASSUME IInv, NEW c \in Calls, FirstCallInit(c)
  PROVE IInv'
<1>1. TypeOK /\ Acting(c) /\ SiteOK(c) /\ Point(c)
  BY PointBefore DEF IInv, FirstCallInit, Acting, Inside
<1>2. TypeOK'
  <2>1. pc' \in [Calls -> Points] BY <1>1, PcPoints DEF TypeOK, Inside, Outside, FirstCallInit
  <2> QED BY <1>1, <2>1 DEF TypeOK, FirstCallInit
<1>3. Frame(c) BY <1>1 DEF Frame, TypeOK, FirstCallInit
<1>4. SiteOK(c)'
  <2> USE <1>1 DEF TypeOK, SiteOK, FirstCallInit
  <2>1. FieldsOK(c)' BY DEF FieldsOK, Unfilled, FirstCallSteps
  <2>2. StartedOK(c)' BY DEF StartedOK, Started
  <2>3. HeapOK(c)' BY DEF HeapOK, FieldsOK, Inside, Unfilled
  <2>4. AttInMetaOK(c)' BY DEF AttInMetaOK, Started, FirstCallSteps
  <2> QED BY <2>1, <2>2, <2>3, <2>4
<1>5. Point(c)'
  BY <1>1 DEF Point, SiteOK, HeapOK, TypeOK, FirstCallSteps, UsesIcu, FirstCallInit
<1> QED BY <1>1, <1>2, <1>3, <1>4, <1>5, PointAfter

LEMMA FirstCallRejectedIInv ==
  ASSUME IInv, NEW c \in Calls, FirstCallRejected(c)
  PROVE IInv'
<1>1. TypeOK /\ Acting(c) /\ SiteOK(c) /\ Point(c)
  BY PointBefore DEF IInv, FirstCallRejected, Acting, Inside
<1>2. /\ pc' \in [Calls -> Points]
      /\ pc'[c] = "failed"
      /\ \A d \in Calls \ {c} : pc'[d] = pc[d] \/ (pc[d] = "open" /\ pc'[d] = "aborted")
      /\ context' = Executor
  BY <1>1, RaiseEffect DEF FirstCallRejected
<1>3. /\ UNCHANGED <<fcinfoVars, thrown, rows, heap, icu>>
      /\ pc[c] = "entered" /\ ~fn_extra[c]
  BY DEF FirstCallRejected
<1>4. TypeOK'
  <2> QED BY <1>1, <1>2, <1>3 DEF TypeOK, fcinfoVars
<1>5. Frame(c) BY <1>1, <1>2, <1>3 DEF Frame, TypeOK, fcinfoVars
<1>6. SiteOK(c)'
  <2> USE <1>1, <1>2, <1>3 DEF TypeOK, SiteOK, fcinfoVars
  <2>1. FieldsOK(c)' BY DEF FieldsOK, Unfilled, FirstCallSteps
  <2>2. StartedOK(c)' BY DEF StartedOK, Started
  <2>3. HeapOK(c)' BY DEF HeapOK, FieldsOK, Inside
  <2>4. AttInMetaOK(c)' BY DEF AttInMetaOK, Started, FirstCallSteps
  <2> QED BY <2>1, <2>2, <2>3, <2>4
<1>7. Point(c)'
  BY <1>1, <1>2, <1>3 DEF Point, SiteOK, HeapOK, TypeOK, FirstCallSteps, UsesIcu
<1> QED BY <1>1, <1>4, <1>5, <1>6, <1>7, PointAfter

(* A throw at any step of the try block: only the path to the handler and  *)
(* the exception object are new.                                           *)
LEMMA ThrowIInv ==
  ASSUME IInv, NEW c \in Calls, NEW kind \in {"pg", "other"},
         NEW leftover \in SUBSET {"stray record"}, Throw(c, kind, leftover),
         pc[c] \in {"alloc", "perform", "records", "fill"},
         UNCHANGED <<fcinfoVars, rows, context>>,
         icu' \in BOOLEAN, icu' => UsesIcu(c),
         UsesIcu(c) /\ pc[c] # "alloc" => icu'
  PROVE IInv'
<1>1. TypeOK /\ Acting(c) /\ SiteOK(c) /\ Point(c)
  BY PointBefore DEF IInv, Acting, Inside
<1>2. leftover \subseteq What BY WhatMembers
<1>3. TypeOK'
  <2>1. "delete" \in Points BY DEF Points, Inside
  <2>2. pc' \in [Calls -> Points] BY <1>1, <2>1 DEF TypeOK, Throw
  <2>3. thrown' \in [Calls -> {"none", "pg", "other"}] BY <1>1 DEF TypeOK, Throw
  <2>4. heap' \in [Calls -> SUBSET What] BY <1>1, <1>2, WhatMembers DEF TypeOK, Throw
  <2> QED BY <1>1, <2>2, <2>3, <2>4 DEF TypeOK, fcinfoVars
<1>4. Frame(c) BY <1>1 DEF Frame, TypeOK, Throw, fcinfoVars
<1>5. pc'[c] = "delete" /\ thrown'[c] = kind /\ heap'[c] = heap[c] \cup {"exception"} \cup leftover
  BY <1>1 DEF TypeOK, Throw
<1>6. SiteOK(c)'
  <2> USE <1>1, <1>5 DEF SiteOK, fcinfoVars
  <2>1. FieldsOK(c)' BY DEF FieldsOK, Unfilled, FirstCallSteps
  <2>2. StartedOK(c)' BY DEF StartedOK, Started
  <2>3. HeapOK(c)' BY DEF HeapOK, FieldsOK, Unfilled, Inside
  <2>4. AttInMetaOK(c)' BY DEF AttInMetaOK, Started, FirstCallSteps
  <2> QED BY <2>1, <2>2, <2>3, <2>4
<1>7. Point(c)'
  <2>1. "utility" \in heap'[c] => pc[c] # "alloc"
    BY <1>1, <1>5 DEF SiteOK, HeapOK
  <2>2. context' = c BY <1>1 DEF Point, FirstCallSteps
  <2> QED BY <1>5, <2>1, <2>2 DEF Point, FirstCallSteps, UsesIcu
<1> QED BY <1>1, <1>3, <1>4, <1>6, <1>7, PointAfter

LEMMA AllocIInv ==
  ASSUME IInv, NEW c \in Calls, Alloc(c)
  PROVE IInv'
<1>1. TypeOK /\ Acting(c) /\ SiteOK(c) /\ Point(c)
  BY PointBefore DEF IInv, Alloc, Acting, Inside
<1>2. PICK result \in AllocOutcomes(Function[c]) :
        /\ IF UsesIcu(c) THEN icu' \in (IF result = "pg" THEN BOOLEAN ELSE {TRUE})
                         ELSE icu' = icu
        /\ IF result = "ok"
           THEN /\ heap' = [heap EXCEPT ![c] = @ \cup {"utility"}]
                /\ pc' = [pc EXCEPT ![c] = "perform"]
                /\ UNCHANGED thrown
           ELSE Throw(c, result, {})
  BY DEF Alloc
<1>3. /\ UNCHANGED <<fcinfoVars, rows, context>> /\ pc[c] = "alloc"
      /\ result \in {"ok", "pg", "other"}
  BY DEF Alloc, AllocOutcomes
<1>4. /\ icu' \in BOOLEAN
      /\ icu' => UsesIcu(c)
      /\ UsesIcu(c) /\ result = "ok" => icu'
  BY <1>1, <1>2, <1>3 DEF TypeOK, Point
<1>5. CASE result # "ok"
  <2>1. Throw(c, result, {}) /\ result \in {"pg", "other"} BY <1>2, <1>3, <1>5
  <2> QED BY <1>3, <1>4, <2>1, ThrowIInv
<1>6. CASE result = "ok"
  <2> /\ heap' = [heap EXCEPT ![c] = @ \cup {"utility"}]
      /\ pc' = [pc EXCEPT ![c] = "perform"]
      /\ UNCHANGED thrown
    BY <1>2, <1>6
  <2>1. TypeOK'
    <3>1. pc' \in [Calls -> Points] BY <1>1, PcPoints DEF Inside, TypeOK
    <3>2. heap' \in [Calls -> SUBSET What] BY <1>1, WhatMembers DEF TypeOK
    <3>3. thrown' \in [Calls -> {"none", "pg", "other"}] BY <1>1 DEF TypeOK
    <3> QED BY <1>1, <1>3, <1>4, <3>1, <3>2, <3>3 DEF TypeOK, fcinfoVars
  <2>2. Frame(c) BY <1>1, <1>3, <1>4 DEF Frame, TypeOK, fcinfoVars
  <2>3. pc'[c] = "perform" /\ thrown' = thrown /\ heap'[c] = heap[c] \cup {"utility"}
    BY <1>1, <1>3, <1>4 DEF TypeOK
  <2>4. SiteOK(c)'
    <3> USE <1>1, <1>3, <2>3 DEF SiteOK, fcinfoVars
    <3>1. FieldsOK(c)' BY DEF FieldsOK, Unfilled, FirstCallSteps
    <3>2. StartedOK(c)' BY DEF StartedOK, Started
    <3>3. HeapOK(c)' BY DEF HeapOK, FieldsOK, Inside
    <3>4. AttInMetaOK(c)' BY DEF AttInMetaOK, Started, FirstCallSteps
    <3> QED BY <3>1, <3>2, <3>3, <3>4
  <2>5. Point(c)' BY <1>1, <1>3, <1>4, <1>6, <2>3 DEF Point, FirstCallSteps, UsesIcu, fcinfoVars
  <2> QED BY <1>1, <2>1, <2>2, <2>4, <2>5, PointAfter
<1> QED BY <1>5, <1>6

LEMMA PerformIInv ==
  ASSUME IInv, NEW c \in Calls, Perform(c)
  PROVE IInv'
<1>1. TypeOK /\ Acting(c) /\ SiteOK(c) /\ Point(c)
  BY PointBefore DEF IInv, Perform, Acting, Inside
<1>2. UNCHANGED <<fcinfoVars, rows, context, icu>> /\ pc[c] = "perform"
  BY DEF Perform
<1>3. /\ icu \in BOOLEAN
      /\ icu <=> UsesIcu(c)
  BY <1>1, <1>2 DEF TypeOK, Point
<1>4. CASE \E kind \in {"pg", "other"} : Throw(c, kind, {})
  BY <1>2, <1>3, <1>4, ThrowIInv
<1>5. CASE pc' = [pc EXCEPT ![c] = "records"] /\ UNCHANGED <<thrown, heap>>
  <2>1. TypeOK'
    <3>1. pc' \in [Calls -> Points] BY <1>1, <1>2, <1>5, PcPoints DEF Inside, TypeOK
    <3> QED BY <1>1, <1>2, <1>5, <3>1 DEF TypeOK, fcinfoVars
  <2>2. Frame(c) BY <1>1, <1>2, <1>5 DEF Frame, TypeOK, fcinfoVars
  <2>3. pc'[c] = "records" /\ thrown' = thrown /\ heap' = heap
    BY <1>1, <1>2, <1>5 DEF TypeOK
  <2>4. SiteOK(c)'
    <3> USE <1>1, <1>2, <2>3 DEF SiteOK, fcinfoVars
    <3>1. FieldsOK(c)' BY DEF FieldsOK, Unfilled, FirstCallSteps
    <3>2. StartedOK(c)' BY DEF StartedOK, Started
    <3>3. HeapOK(c)' BY DEF HeapOK, FieldsOK, Inside
    <3>4. AttInMetaOK(c)' BY DEF AttInMetaOK, Started, FirstCallSteps
    <3> QED BY <3>1, <3>2, <3>3, <3>4
  <2>5. Point(c)' BY <1>1, <1>2, <2>3 DEF Point, FirstCallSteps, UsesIcu, fcinfoVars
  <2> QED BY <1>1, <2>1, <2>2, <2>4, <2>5, PointAfter
<1> QED BY <1>4, <1>5 DEF Perform

LEMMA AllocUserFuncContextIInv ==
  ASSUME IInv, NEW c \in Calls, AllocUserFuncContext(c)
  PROVE IInv'
<1>1. TypeOK /\ Acting(c) /\ SiteOK(c) /\ Point(c)
  BY PointBefore DEF IInv, AllocUserFuncContext, Acting, Inside
<1>2. UNCHANGED <<fn_extra, call_cntr, attinmeta, rows, context, icu>> /\ pc[c] = "records"
  BY DEF AllocUserFuncContext
<1>3. /\ icu \in BOOLEAN
      /\ icu <=> UsesIcu(c)
  BY <1>1, <1>2 DEF TypeOK, Point
<1>4. CASE Throw(c, "other", {}) /\ UNCHANGED <<user_fctx, max_calls, items>>
  BY <1>2, <1>3, <1>4, ThrowIInv DEF fcinfoVars
<1>5. CASE /\ user_fctx' = [user_fctx EXCEPT ![c] = TRUE]
           /\ max_calls' = [max_calls EXCEPT ![c] = 0]
           /\ items'     = [items     EXCEPT ![c] = <<>>]
           /\ heap'      = [heap      EXCEPT ![c] = @ \cup {"records"}]
           /\ pc'        = [pc        EXCEPT ![c] = "fill"]
           /\ UNCHANGED thrown
  <2>1. TypeOK'
    <3>1. pc' \in [Calls -> Points] BY <1>1, <1>2, <1>5, PcPoints DEF Inside, TypeOK
    <3>2. heap' \in [Calls -> SUBSET What] BY <1>1, <1>2, <1>5, WhatMembers DEF TypeOK
    <3>3. user_fctx' \in [Calls -> BOOLEAN] BY <1>1, <1>2, <1>5 DEF TypeOK
    <3>4. max_calls' \in [Calls -> 0..1] BY <1>1, <1>2, <1>5 DEF TypeOK
    <3>5. items' \in [Calls -> {<<>>, <<"live">>, <<"nullptr">>}] BY <1>1, <1>2, <1>5 DEF TypeOK
    <3> QED BY <1>1, <1>2, <1>5, <3>1, <3>2, <3>3, <3>4, <3>5 DEF TypeOK
  <2>2. Frame(c) BY <1>1, <1>2, <1>5 DEF Frame, TypeOK
  <2>3. /\ pc'[c] = "fill" /\ user_fctx'[c] /\ max_calls'[c] = 0 /\ items'[c] = <<>>
        /\ thrown' = thrown /\ heap'[c] = heap[c] \cup {"records"}
    BY <1>1, <1>2, <1>5 DEF TypeOK
  <2>4. SiteOK(c)'
    <3> USE <1>1, <1>2, <2>3 DEF SiteOK
    <3>1. FieldsOK(c)' BY DEF FieldsOK, Unfilled, FirstCallSteps
    <3>2. StartedOK(c)' BY DEF StartedOK, Started
    <3>3. HeapOK(c)'
      <4>1. /\ HeapOK(c) /\ pc[c] = "records" /\ ~user_fctx[c] /\ thrown' = thrown
        BY DEF FieldsOK, Unfilled
      <4>2. pc'[c] = "fill" /\ user_fctx'[c] /\ items'[c] = <<>> /\ heap'[c] = heap[c] \cup {"records"}
        OBVIOUS
      <4>3. items'[c] # <<"live">> BY <4>2
      <4> HIDE <1>1, <1>2, <2>3 DEF SiteOK
      <4> QED BY <4>1, <4>2, <4>3 DEF HeapOK, Inside
    <3>4. AttInMetaOK(c)' BY DEF AttInMetaOK, Started, FirstCallSteps
    <3> QED BY <3>1, <3>2, <3>3, <3>4
  <2>5. Point(c)' BY <1>1, <1>2, <2>3 DEF Point, FirstCallSteps, UsesIcu
  <2> QED BY <1>1, <2>1, <2>2, <2>4, <2>5, PointAfter
<1> QED BY <1>4, <1>5 DEF AllocUserFuncContext

LEMMA FillOutputIInv ==
  ASSUME IInv, NEW c \in Calls, FillOutput(c)
  PROVE IInv'
<1>1. TypeOK /\ Acting(c) /\ SiteOK(c) /\ Point(c)
  BY PointBefore DEF IInv, FillOutput, Acting, Inside
<1>2. UNCHANGED <<fn_extra, call_cntr, user_fctx, attinmeta, rows, context, icu>> /\ pc[c] = "fill"
  BY DEF FillOutput
<1>3. /\ icu \in BOOLEAN
      /\ icu <=> UsesIcu(c)
  BY <1>1, <1>2 DEF TypeOK, Point
<1>4. CASE /\ \E leftover \in SUBSET {"stray record"} : Throw(c, "other", leftover)
           /\ UNCHANGED <<items, max_calls>>
  BY <1>2, <1>3, <1>4, ThrowIInv DEF fcinfoVars
<1>5. CASE /\ items'     = [items     EXCEPT ![c] = Append(@, "live")]
           /\ max_calls' = [max_calls EXCEPT ![c] = @ + 1]
           /\ heap'      = [heap      EXCEPT ![c] = @ \cup {"record"}]
           /\ pc'        = [pc        EXCEPT ![c] = "delete"]
           /\ UNCHANGED thrown
  <2>6. max_calls[c] = 0 /\ items[c] = <<>> /\ user_fctx[c] BY <1>1, <1>2 DEF SiteOK, FieldsOK
  <2>7. Append(items[c], "live") = <<"live">> BY <2>6
  <2>8. items' = [items EXCEPT ![c] = <<"live">>] /\ max_calls' = [max_calls EXCEPT ![c] = 1]
    BY <1>5, <2>6, <2>7
  <2>1. TypeOK'
    <3>1. pc' \in [Calls -> Points] BY <1>1, <1>2, <1>5, PcPoints DEF Inside, TypeOK
    <3>2. heap' \in [Calls -> SUBSET What] BY <1>1, <1>2, <1>5, WhatMembers DEF TypeOK
    <3>3. max_calls' \in [Calls -> 0..1] BY <1>1, <1>2, <1>5, <2>8 DEF TypeOK
    <3>4. items' \in [Calls -> {<<>>, <<"live">>, <<"nullptr">>}] BY <1>1, <1>2, <1>5, <2>8 DEF TypeOK
    <3> QED BY <1>1, <1>2, <1>5, <3>1, <3>2, <3>3, <3>4 DEF TypeOK
  <2>2. Frame(c) BY <1>1, <1>2, <1>5 DEF Frame, TypeOK
  <2>3. /\ pc'[c] = "delete" /\ max_calls'[c] = 1 /\ items'[c] = <<"live">>
        /\ thrown' = thrown /\ heap'[c] = heap[c] \cup {"record"}
    BY <2>8, <1>1, <1>2, <1>5 DEF TypeOK
  <2>4. SiteOK(c)'
    <3> USE <2>6, <1>1, <1>2, <2>3 DEF SiteOK
    <3>1. FieldsOK(c)' BY DEF FieldsOK, Unfilled, FirstCallSteps
    <3>2. StartedOK(c)' BY DEF StartedOK, Started
    <3>3. HeapOK(c)' BY DEF HeapOK, FieldsOK, Inside
    <3>4. AttInMetaOK(c)' BY DEF AttInMetaOK, Started, FirstCallSteps
    <3> QED BY <3>1, <3>2, <3>3, <3>4
  <2>5. Point(c)' BY <1>1, <1>2, <2>3 DEF Point, FirstCallSteps, UsesIcu
  <2> QED BY <1>1, <2>1, <2>2, <2>4, <2>5, PointAfter
<1> QED BY <1>4, <1>5 DEF FillOutput

LEMMA DeleteUtilityIInv ==
  ASSUME IInv, NEW c \in Calls, DeleteUtility(c)
  PROVE IInv'
<1>1. TypeOK /\ Acting(c) /\ SiteOK(c) /\ Point(c)
  BY PointBefore DEF IInv, DeleteUtility, Acting, Inside
<1>2. /\ UNCHANGED <<fcinfoVars, thrown, rows, context, icu>>
      /\ pc[c] = "delete"
      /\ pc' = [pc EXCEPT ![c] = "cleanup"]
      /\ heap' = [heap EXCEPT ![c] = @ \ {"utility"}]
  BY DEF DeleteUtility
<1>3. TypeOK'
  <2>1. pc' \in [Calls -> Points] BY <1>1, <1>2, PcPoints DEF TypeOK, Inside, Outside
  <2>2. heap' \in [Calls -> SUBSET What] BY <1>1, <1>2, WhatMembers DEF TypeOK
  <2> QED BY <1>1, <1>2, <2>1, <2>2 DEF TypeOK, fcinfoVars
<1>4. Frame(c) BY <1>1, <1>2 DEF Frame, TypeOK, fcinfoVars
<1>5. SiteOK(c)'
  <2> USE <1>1, <1>2 DEF TypeOK, SiteOK, fcinfoVars
  <2>1. FieldsOK(c)' BY DEF FieldsOK, Unfilled, FirstCallSteps
  <2>2. StartedOK(c)' BY DEF StartedOK, Started
  <2>3. HeapOK(c)' BY DEF HeapOK, FieldsOK, Inside
  <2>4. AttInMetaOK(c)' BY DEF AttInMetaOK, Started, FirstCallSteps
  <2> QED BY <2>1, <2>2, <2>3, <2>4
<1>6. Point(c)'
  BY <1>1, <1>2 DEF Point, SiteOK, HeapOK, TypeOK, FirstCallSteps, UsesIcu
<1> QED BY <1>1, <1>3, <1>4, <1>5, <1>6, PointAfter

LEMMA CleanupIcuIInv ==
  ASSUME IInv, NEW c \in Calls, CleanupIcu(c)
  PROVE IInv'
<1>1. TypeOK /\ Acting(c) /\ SiteOK(c) /\ Point(c)
  BY PointBefore DEF IInv, CleanupIcu, LeaveFirstCall, Acting, Inside
<1>2. /\ UNCHANGED <<fcinfoVars, thrown, rows, heap>>
      /\ pc[c] = "cleanup"
      /\ icu' \in BOOLEAN /\ ~icu'
      /\ \/ /\ thrown[c] = "none" /\ context' = Executor
            /\ pc' = [pc EXCEPT ![c] = "percall"]
         \/ /\ thrown[c] # "none" /\ context' = context
            /\ pc' = [pc EXCEPT ![c] = "catch"]
  BY <1>1 DEF CleanupIcu, LeaveFirstCall, Point
<1>3. TypeOK'
  <2>1. pc' \in [Calls -> Points] BY <1>1, <1>2, PcPoints DEF TypeOK, Inside, Outside
  <2> QED BY <1>1, <1>2, <2>1 DEF TypeOK, fcinfoVars
<1>4. Frame(c) BY <1>1, <1>2 DEF Frame, TypeOK, fcinfoVars
<1>5. SiteOK(c)'
  <2> USE <1>1, <1>2 DEF TypeOK, SiteOK, fcinfoVars
  <2>1. FieldsOK(c)' BY DEF FieldsOK, Unfilled, FirstCallSteps
  <2>2. StartedOK(c)'
    <3>1. pc'[c] = "catch" \/ (pc'[c] = "percall" /\ thrown[c] = "none") OBVIOUS
    <3>2. call_cntr[c] = 0 /\ rows[c] = 0 BY DEF FieldsOK, FirstCallSteps
    <3>3. thrown[c] = "none" => user_fctx[c] /\ max_calls[c] = 1 /\ items[c] = <<"live">>
      BY DEF FieldsOK
    <3>4. UNCHANGED <<fn_extra, call_cntr, max_calls, user_fctx, items, rows>> OBVIOUS
    <3> HIDE <1>1, <1>2 DEF TypeOK, SiteOK
    <3> QED BY <3>1, <3>2, <3>3, <3>4 DEF StartedOK, Started
  <2>3. HeapOK(c)' BY DEF HeapOK, FieldsOK, Inside
  <2>4. AttInMetaOK(c)' BY DEF AttInMetaOK, Started, FirstCallSteps
  <2> QED BY <2>1, <2>2, <2>3, <2>4
<1>6. Point(c)'
  BY <1>1, <1>2 DEF Point, SiteOK, HeapOK, TypeOK, FirstCallSteps, UsesIcu
<1> QED BY <1>1, <1>3, <1>4, <1>5, <1>6, PointAfter

LEMMA EmptyIsNotLive == <<>> # <<"live">>
<1>1. Len(<<>>) = 0 /\ Len(<<"live">>) = 1 OBVIOUS
<1> QED BY <1>1

LEMMA OwnedIs ==
  ASSUME TypeOK, NEW c \in Calls
  PROVE Owned(c) = IF user_fctx[c]
                   THEN {"records"} \cup (IF items[c] = <<"live">> THEN {"record"} ELSE {})
                   ELSE {}
<1>1. CASE items[c] = <<>>
  <2>1. DOMAIN items[c] = {} BY <1>1
  <2>2. {"record" : i \in {j \in DOMAIN items[c] : items[c][j] = "live"}} = {} BY <2>1
  <2>3. items[c] # <<"live">> BY <1>1, EmptyIsNotLive
  <2> QED BY <2>2, <2>3 DEF Owned
<1>2. CASE items[c] = <<"live">>
  <2>1. DOMAIN items[c] = {1} /\ items[c][1] = "live" BY <1>2
  <2>2. {"record" : i \in {j \in DOMAIN items[c] : items[c][j] = "live"}} = {"record"} BY <2>1
  <2> QED BY <1>2, <2>2 DEF Owned
<1>3. CASE items[c] = <<"nullptr">>
  <2>1. DOMAIN items[c] = {1} /\ items[c][1] = "nullptr" BY <1>3
  <2>2. {"record" : i \in {j \in DOMAIN items[c] : items[c][j] = "live"}} = {} BY <2>1
  <2>3. items[c] # <<"live">> BY <2>1
  <2> QED BY <2>2, <2>3 DEF Owned
<1> QED BY <1>1, <1>2, <1>3 DEF TypeOK

LEMMA ReportErrorIInv ==
  ASSUME IInv, NEW c \in Calls, ReportError(c)
  PROVE IInv'
<1>1. TypeOK /\ Acting(c) /\ SiteOK(c) /\ Point(c)
  BY PointBefore DEF IInv, ReportError, Acting, Inside
<1>2. /\ pc' \in [Calls -> Points]
      /\ pc'[c] = "failed"
      /\ \A d \in Calls \ {c} : pc'[d] = pc[d] \/ (pc[d] = "open" /\ pc'[d] = "aborted")
      /\ context' = Executor
  BY <1>1, RaiseEffect DEF ReportError
<1>3. /\ UNCHANGED <<fn_extra, call_cntr, attinmeta, thrown, rows, icu>>
      /\ pc[c] = "catch" /\ items[c] = <<>> /\ max_calls[c] = 0 /\ thrown[c] # "none"
      /\ rows[c] = 0
  BY <1>1 DEF ReportError, SiteOK, FieldsOK, FirstCallSteps
<1>4. /\ user_fctx' = [user_fctx EXCEPT ![c] = FALSE]
      /\ max_calls' = [max_calls EXCEPT ![c] = 0]
      /\ items' = [items EXCEPT ![c] = <<>>]
      /\ heap' = [heap EXCEPT ![c] = @ \ (IF user_fctx[c] THEN {"records"} ELSE {})]
  <2>1. items[c] # <<"live">> BY <1>3, EmptyIsNotLive
  <2>2. Owned(c) = IF user_fctx[c] THEN {"records"} ELSE {} BY <1>1, <2>1, OwnedIs
  <2> QED BY <1>3, <2>2 DEF ReportError, DeallocUserFuncContext
<1>5. TypeOK'
  <2>1. user_fctx' \in [Calls -> BOOLEAN] BY <1>1, <1>4 DEF TypeOK
  <2>2. max_calls' \in [Calls -> 0..1] BY <1>1, <1>4 DEF TypeOK
  <2>3. items' \in [Calls -> {<<>>, <<"live">>, <<"nullptr">>}] BY <1>1, <1>4 DEF TypeOK
  <2>4. heap' \in [Calls -> SUBSET What] BY <1>1, <1>4 DEF TypeOK
  <2> QED BY <1>1, <1>2, <1>3, <2>1, <2>2, <2>3, <2>4 DEF TypeOK
<1>6. Frame(c) BY <1>1, <1>2, <1>3, <1>4 DEF Frame, TypeOK
<1>7. SiteOK(c)'
  <2>1. /\ ~user_fctx'[c] /\ max_calls'[c] = 0 /\ items'[c] = <<>>
        /\ "records" \notin heap'[c] /\ heap'[c] \subseteq heap[c]
    BY <1>1, <1>4 DEF TypeOK, SiteOK, HeapOK
  <2> USE <1>1, <1>2, <1>3, <2>1 DEF SiteOK
  <2>2. FieldsOK(c)' BY DEF FieldsOK, Unfilled, FirstCallSteps
  <2>3. StartedOK(c)' BY DEF StartedOK, Started
  <2>4. HeapOK(c)'
    <3>1. "record" \notin heap[c] BY EmptyIsNotLive DEF HeapOK
    <3>2. "utility" \notin heap[c] BY DEF HeapOK
    <3> QED BY <3>1, <3>2 DEF HeapOK, Inside
  <2>5. AttInMetaOK(c)' BY DEF AttInMetaOK, Started, FirstCallSteps
  <2> QED BY <2>2, <2>3, <2>4, <2>5
<1>8. Point(c)'
  BY <1>1, <1>2, <1>3, <1>4 DEF Point, SiteOK, HeapOK, TypeOK, FirstCallSteps, UsesIcu
<1> QED BY <1>1, <1>5, <1>6, <1>7, <1>8, PointAfter

LEMMA PerCallSetupIInv ==
  ASSUME IInv, NEW c \in Calls, PerCallSetup(c)
  PROVE IInv'
<1>1. TypeOK /\ Acting(c) /\ SiteOK(c) /\ Point(c)
  BY PointBefore DEF IInv, PerCallSetup, Acting, Inside
<1>2. /\ UNCHANGED <<fcinfoVars, thrown, rows, context, heap, icu>>
      /\ pc[c] = "entered" /\ fn_extra[c]
      /\ pc' = [pc EXCEPT ![c] = "percall"]
  BY DEF PerCallSetup
<1>3. TypeOK'
  <2>1. pc' \in [Calls -> Points] BY <1>1, <1>2, PcPoints DEF TypeOK, Inside
  <2> QED BY <1>1, <1>2, <2>1 DEF TypeOK, fcinfoVars
<1>4. Frame(c) BY <1>1, <1>2 DEF Frame, TypeOK, fcinfoVars
<1>5. SiteOK(c)'
  <2> USE <1>1, <1>2 DEF TypeOK, SiteOK, fcinfoVars
  <2>1. FieldsOK(c)' BY DEF FieldsOK, Unfilled, FirstCallSteps
  <2>2. StartedOK(c)' BY DEF StartedOK, Started
  <2>3. HeapOK(c)' BY DEF HeapOK, Inside
  <2>4. AttInMetaOK(c)' BY DEF AttInMetaOK, Started, FirstCallSteps
  <2> QED BY <2>1, <2>2, <2>3, <2>4
<1>6. Point(c)'
  BY <1>1, <1>2 DEF Point, SiteOK, HeapOK, TypeOK, FirstCallSteps, UsesIcu
<1> QED BY <1>1, <1>3, <1>4, <1>5, <1>6, PointAfter

LEMMA NextRowIInv ==
  ASSUME IInv, NEW c \in Calls, NextRow(c)
  PROVE IInv'
<1>1. TypeOK /\ Acting(c) /\ SiteOK(c) /\ Point(c)
  BY PointBefore DEF IInv, NextRow, GiveRow, Acting, Inside
<1>2. /\ UNCHANGED <<fn_extra, max_calls, user_fctx, attinmeta, thrown, context, icu>>
      /\ pc[c] = "percall" /\ call_cntr[c] < max_calls[c]
      /\ pc' = [pc EXCEPT ![c] = "open"]
      /\ call_cntr' = [call_cntr EXCEPT ![c] = @ + 1]
      /\ rows' = [rows EXCEPT ![c] = @ + 1]
  BY DEF NextRow, GiveRow
<1>3. /\ call_cntr[c] = 0 /\ rows[c] = 0 /\ items[c] = <<"live">>
      /\ user_fctx[c] /\ max_calls[c] = 1 /\ fn_extra[c]
  BY <1>1, <1>2 DEF SiteOK, StartedOK, Started, FieldsOK
<1>4. /\ items' = [items EXCEPT ![c] = <<"nullptr">>]
      /\ heap' = [heap EXCEPT ![c] = @ \ {"arguments", "record"}]
  <2>1. call_cntr[c] + 1 = 1 /\ Len(items[c]) = 1 BY <1>3
  <2>2. /\ items' = [items EXCEPT ![c][1] = "nullptr"]
        /\ heap' = [heap EXCEPT ![c] = @ \ {"arguments", "record"}]
    BY <2>1 DEF NextRow, GiveRow
  <2>3. [<<"live">> EXCEPT ![1] = "nullptr"] = <<"nullptr">> OBVIOUS
  <2> QED BY <1>3, <2>2, <2>3
<1>5. TypeOK'
  <2>1. pc' \in [Calls -> Points] BY <1>1, <1>2, PcPoints DEF TypeOK, Outside
  <2>2. items' \in [Calls -> {<<>>, <<"live">>, <<"nullptr">>}] BY <1>1, <1>4 DEF TypeOK
  <2>3. heap' \in [Calls -> SUBSET What] BY <1>1, <1>4 DEF TypeOK
  <2>4. call_cntr' \in [Calls -> 0..1] /\ rows' \in [Calls -> 0..1] BY <1>1, <1>2, <1>3 DEF TypeOK
  <2> QED BY <1>1, <1>2, <2>1, <2>2, <2>3, <2>4 DEF TypeOK
<1>6. Frame(c) BY <1>1, <1>2, <1>4 DEF Frame, TypeOK
<1>7. SiteOK(c)'
  <2>1. /\ pc'[c] = "open" /\ call_cntr'[c] = 1 /\ rows'[c] = 1 /\ items'[c] = <<"nullptr">>
        /\ heap'[c] = heap[c] \ {"arguments", "record"}
    BY <1>1, <1>2, <1>3, <1>4 DEF TypeOK
  <2>2. items'[c] # <<"live">> BY <2>1
  <2>3. UNCHANGED <<fn_extra, max_calls, user_fctx, attinmeta, thrown>> BY <1>2
  <2> USE <1>1, <1>3, <2>1, <2>2, <2>3 DEF SiteOK
  <2>4. FieldsOK(c)'
    <3>1. thrown[c] = "none" BY <1>2 DEF FieldsOK
    <3> QED BY <3>1 DEF FieldsOK, Unfilled, FirstCallSteps
  <2>5. StartedOK(c)' BY DEF StartedOK, Started
  <2>6. HeapOK(c)' BY <1>2 DEF HeapOK, Inside
  <2>7. AttInMetaOK(c)' BY <1>2 DEF AttInMetaOK, Started, FirstCallSteps
  <2> QED BY <2>4, <2>5, <2>6, <2>7
<1>8. Point(c)'
  BY <1>1, <1>2, <1>4 DEF Point, SiteOK, HeapOK, TypeOK, FirstCallSteps, UsesIcu
<1> QED BY <1>1, <1>5, <1>6, <1>7, <1>8, PointAfter

LEMMA RowErrorIInv ==
  ASSUME IInv, NEW c \in Calls, RowError(c)
  PROVE IInv'
<1>1. TypeOK /\ Acting(c) /\ SiteOK(c) /\ Point(c)
  BY PointBefore DEF IInv, RowError, Acting, Inside
<1>2. /\ pc' \in [Calls -> Points]
      /\ pc'[c] = "aborted"
      /\ \A d \in Calls \ {c} : pc'[d] = pc[d] \/ (pc[d] = "open" /\ pc'[d] = "aborted")
      /\ context' = Executor
  BY <1>1, RaiseEffect DEF RowError
<1>3. /\ UNCHANGED <<fcinfoVars, thrown, rows, heap, icu>>
      /\ pc[c] = "percall"
  BY DEF RowError
<1>4. TypeOK' BY <1>1, <1>2, <1>3 DEF TypeOK, fcinfoVars
<1>5. Frame(c) BY <1>2, <1>3 DEF Frame, fcinfoVars
<1>6. SiteOK(c)'
  <2> USE <1>1, <1>2, <1>3 DEF SiteOK, fcinfoVars
  <2>1. FieldsOK(c)' BY DEF FieldsOK, Unfilled, FirstCallSteps
  <2>2. StartedOK(c)' BY DEF StartedOK, Started
  <2>3. HeapOK(c)' BY DEF HeapOK, Inside
  <2>4. AttInMetaOK(c)' BY DEF AttInMetaOK, Started, FirstCallSteps
  <2> QED BY <2>1, <2>2, <2>3, <2>4
<1>7. Point(c)'
  BY <1>1, <1>2, <1>3 DEF Point, SiteOK, HeapOK, FirstCallSteps, UsesIcu
<1> QED BY <1>1, <1>4, <1>5, <1>6, <1>7, PointAfter

LEMMA LastCallIInv ==
  ASSUME IInv, NEW c \in Calls, LastCall(c)
  PROVE IInv'
<1>1. TypeOK /\ Acting(c) /\ SiteOK(c) /\ Point(c)
  BY PointBefore DEF IInv, LastCall, Acting, Inside
<1>2. /\ UNCHANGED <<call_cntr, attinmeta, thrown, context, icu>>
      /\ pc[c] = "percall" /\ call_cntr[c] >= max_calls[c]
      /\ pc' = [pc EXCEPT ![c] = "done"]
      /\ fn_extra' = [fn_extra EXCEPT ![c] = FALSE]
      /\ rows' = [rows EXCEPT ![c] = 0]
  BY DEF LastCall
<1>3. /\ items[c] = <<"nullptr">> /\ user_fctx[c] /\ thrown[c] = "none"
  BY <1>1, <1>2 DEF SiteOK, StartedOK, Started, FieldsOK
<1>4. /\ user_fctx' = [user_fctx EXCEPT ![c] = FALSE]
      /\ max_calls' = [max_calls EXCEPT ![c] = 0]
      /\ items' = [items EXCEPT ![c] = <<>>]
      /\ heap' = [heap EXCEPT ![c] = @ \ {"records", "arguments"}]
  <2>1. items[c] # <<"live">> BY <1>3
  <2>2. Owned(c) = {"records"} BY <1>1, <1>3, <2>1, OwnedIs
  <2>3. heap' = [heap EXCEPT ![c] = @ \ ({"records"} \cup {"arguments"})] BY <2>2 DEF LastCall
  <2>4. {"records"} \cup {"arguments"} = {"records", "arguments"} OBVIOUS
  <2> QED BY <1>3, <2>3, <2>4 DEF LastCall, DeallocUserFuncContext
<1>5. TypeOK'
  <2>1. pc' \in [Calls -> Points] BY <1>1, <1>2, PcPoints DEF TypeOK, Outside
  <2>2. user_fctx' \in [Calls -> BOOLEAN] /\ fn_extra' \in [Calls -> BOOLEAN] BY <1>1, <1>2, <1>4 DEF TypeOK
  <2>3. max_calls' \in [Calls -> 0..1] /\ rows' \in [Calls -> 0..1] BY <1>1, <1>2, <1>4 DEF TypeOK
  <2>4. items' \in [Calls -> {<<>>, <<"live">>, <<"nullptr">>}] BY <1>1, <1>4 DEF TypeOK
  <2>5. heap' \in [Calls -> SUBSET What] BY <1>1, <1>4 DEF TypeOK
  <2> QED BY <1>1, <1>2, <2>1, <2>2, <2>3, <2>4, <2>5 DEF TypeOK
<1>6. Frame(c) BY <1>1, <1>2, <1>4 DEF Frame, TypeOK
<1>7. SiteOK(c)'
  <2>1. /\ pc'[c] = "done" /\ ~fn_extra'[c] /\ rows'[c] = 0
        /\ ~user_fctx'[c] /\ max_calls'[c] = 0 /\ items'[c] = <<>>
        /\ heap'[c] = heap[c] \ {"records", "arguments"}
    BY <1>1, <1>2, <1>4 DEF TypeOK
  <2>2. items[c] # <<"live">> BY <1>3
  <2> USE <1>1, <1>2, <1>3, <2>1, <2>2 DEF SiteOK
  <2>3. FieldsOK(c)' BY DEF FieldsOK, Unfilled, FirstCallSteps
  <2>4. StartedOK(c)' BY DEF StartedOK, Started
  <2>5. HeapOK(c)' BY DEF HeapOK, Inside
  <2>6. AttInMetaOK(c)' BY DEF AttInMetaOK, Started, FirstCallSteps
  <2> QED BY <2>3, <2>4, <2>5, <2>6
<1>8. Point(c)'
  BY <1>1, <1>2, <1>4 DEF Point, SiteOK, HeapOK, TypeOK, FirstCallSteps, UsesIcu
<1> QED BY <1>1, <1>5, <1>6, <1>7, <1>8, PointAfter

-----------------------------------------------------------------------------
THEOREM Invariance == Spec => []IInv
<1>1. Init => IInv BY InitIInv
<1>2. IInv /\ [Next]_vars => IInv'
  <2> SUFFICES ASSUME IInv, [Next]_vars PROVE IInv' OBVIOUS
  <2>1. CASE UNCHANGED vars
    BY <2>1 DEF vars, fcinfoVars, IInv, TypeOK, OneInside, ContextDiscipline, FieldsOK,
                StartedOK, Started, Unfilled, HeapOK, AttInMetaOK, IcuOK, UsesIcu
  <2>2. ASSUME NEW c \in Calls, Begin(c) \/ Resume(c) PROVE IInv'
    BY <2>2, EnterIInv DEF Begin, Resume
  <2>3. ASSUME NEW c \in Calls, Step(c) PROVE IInv'
    BY <2>3, FirstCallInitIInv, FirstCallRejectedIInv, AllocIInv, PerformIInv,
       AllocUserFuncContextIInv, FillOutputIInv, DeleteUtilityIInv, CleanupIcuIInv,
       ReportErrorIInv, PerCallSetupIInv, NextRowIInv, RowErrorIInv, LastCallIInv DEF Step
  <2> QED BY <2>1, <2>2, <2>3, AbandonIInv DEF Next
<1> QED BY <1>1, <1>2, PTL DEF Spec

\* Type correctness of the driver.
THEOREM TypeCorrect == Spec => []TypeOK
<1>1. IInv => TypeOK BY DEF IInv
<1> QED BY <1>1, Invariance, PTL

\* Every row a site still owes is backed by live Records and a live record.
THEOREM RowsAreLive == Spec => []OwedRowsAreLive
<1>1. IInv => OwedRowsAreLive
  <2> SUFFICES ASSUME IInv, NEW c \in Calls, Started(c)
               PROVE /\ user_fctx[c]
                     /\ "records" \in heap[c]
                     /\ \A i \in (call_cntr[c] + 1)..max_calls[c] :
                          /\ i \in DOMAIN items[c]
                          /\ items[c][i] = "live"
                          /\ "record" \in heap[c]
    BY DEF OwedRowsAreLive
  <2>1. StartedOK(c) /\ HeapOK(c) BY DEF IInv
  <2>2. CASE call_cntr[c] = 0 /\ items[c] = <<"live">>
    <3>1. user_fctx[c] /\ max_calls[c] = 1 BY <2>1 DEF StartedOK
    <3>2. \A i \in (call_cntr[c] + 1)..max_calls[c] : i = 1 BY <2>2, <3>1
    <3>3. 1 \in DOMAIN items[c] /\ items[c][1] = "live" BY <2>2
    <3> QED BY <2>1, <2>2, <3>1, <3>2, <3>3 DEF HeapOK
  <2>3. CASE call_cntr[c] = 1
    <3>1. user_fctx[c] /\ max_calls[c] = 1 BY <2>1 DEF StartedOK
    <3>2. \A i \in (call_cntr[c] + 1)..max_calls[c] : FALSE BY <2>3, <3>1
    <3> QED BY <2>1, <3>1, <3>2 DEF HeapOK
  <2> QED BY <2>1, <2>2, <2>3 DEF StartedOK
<1> QED BY <1>1, Invariance, PTL

\* ICU is up for every live ICU utility and down whenever control is outside.
THEOREM IcuIsBracketed == Spec => []IcuBracketsUtilities
<1>1. IInv => IcuBracketsUtilities
  BY DEF IInv, IcuOK, IcuBracketsUtilities, Idle, Inside
<1> QED BY <1>1, Invariance, PTL

\* What a site leaves on the C++ heap when control is back at the executor.
THEOREM HeapRelease == Spec => []HeapIsReleased
<1>1. IInv => HeapIsReleased
  <2> SUFFICES ASSUME IInv, NEW c \in Calls
               PROVE /\ pc[c] \in {"fresh", "done"} => heap[c] = {}
                     /\ pc[c] \in {"open", "abandoned"} => heap[c] = {"records"}
                     /\ pc[c] = "failed" => heap[c] \subseteq {"arguments", "exception", "stray record"}
    BY DEF HeapIsReleased
  <2>1. heap[c] \subseteq What BY DEF IInv, TypeOK
  <2>2. FieldsOK(c) /\ StartedOK(c) /\ HeapOK(c) BY DEF IInv
  <2>3. ASSUME pc[c] \in {"fresh", "done", "failed"} PROVE "record" \notin heap[c] /\ "records" \notin heap[c]
    BY <2>2, <2>3 DEF FieldsOK, Unfilled, HeapOK
  <2>4. ASSUME pc[c] \in {"open", "abandoned"} PROVE "record" \notin heap[c] /\ "records" \in heap[c]
    <3>1. user_fctx[c] /\ items[c] = <<"nullptr">> BY <2>2, <2>4 DEF StartedOK, Started
    <3>2. items[c] # <<"live">> BY <3>1
    <3> QED BY <2>2, <3>1, <3>2 DEF HeapOK
  <2>5. ASSUME pc[c] \in {"fresh", "done", "open", "abandoned"}
        PROVE "exception" \notin heap[c] /\ "stray record" \notin heap[c] /\ "arguments" \notin heap[c]
    BY <2>2, <2>5 DEF FieldsOK, HeapOK, Inside
  <2>6. pc[c] \in Outside => "utility" \notin heap[c] BY <2>2 DEF HeapOK, Outside
  <2> QED BY <2>1, <2>3, <2>4, <2>5, <2>6 DEF What, Outside
<1> QED BY <1>1, Invariance, PTL

\* The current memory context is a site's own exactly during its first call.
THEOREM ContextIsDisciplined == Spec => []ContextDiscipline
<1>1. IInv => ContextDiscipline BY DEF IInv
<1> QED BY <1>1, Invariance, PTL

\* Attribute metadata a later call uses lives as long as the site.
THEOREM AttInMetaLives == Spec => []AttInMetaPersists
<1>1. IInv => AttInMetaPersists BY DEF IInv, AttInMetaOK, AttInMetaPersists
<1> QED BY <1>1, Invariance, PTL

-----------------------------------------------------------------------------
LEMMA SetOfCases ==
  ASSUME NEW n
  PROVE /\ SetOf("done", n) = "end"
        /\ SetOf("failed", n) = "error"
        /\ SetOf("abandoned", n) = "cut"
        /\ SetOf("aborted", n) = IF n = 0 THEN "error" ELSE "cut"
        /\ \A p \in Inside \cup {"fresh", "open"} : SetOf(p, n) = IF n = 0 THEN "pending" ELSE "row"
BY DEF SetOf, Inside

\* The promised state of every site, and the abstract steps as seen on it.
set == [c \in Calls |-> SetOf(pc[c], rows[c])]

\* Steps of c between points the executor cannot tell apart.
LEMMA SilentStep ==
  ASSUME NEW c \in Calls, TypeOK,
         \A d \in Calls \ {c} : pc'[d] = pc[d] /\ rows'[d] = rows[d],
         SetOf(pc'[c], rows'[c]) = SetOf(pc[c], rows[c])
  PROVE set' = set
BY DEF set

\* A step that changes what c has given, and nothing else.
LEMMA LoudStep ==
  ASSUME NEW c \in Calls, TypeOK,
         \A d \in Calls \ {c} : pc'[d] = pc[d] /\ rows'[d] = rows[d]
  PROVE set' = [set EXCEPT ![c] = SetOf(pc'[c], rows'[c])]
BY DEF set

\* An error of c, with the half read sites it takes along.
LEMMA FailStep ==
  ASSUME IInv, NEW c \in Calls, NEW how \in {"failed", "aborted"}, Raise(c, how),
         pc[c] \in Inside, rows[c] = 0, rows' = rows
  PROVE Promised!Fail(c)
<1>1. PICK dead \in SUBSET {d \in Calls : pc[d] = "open"} :
        pc' = [d \in Calls |-> IF d = c THEN how
                               ELSE IF d \in dead THEN "aborted" ELSE pc[d]]
  BY DEF Raise
<1>2. set[c] = "pending" BY SetOfCases DEF set
<1>3. \A d \in dead : d # c /\ rows[d] = 1 /\ set[d] = "row"
  <2> TAKE d \in dead
  <2>1. pc[d] = "open" /\ d \in Calls BY <1>1
  <2>2. "open" \notin Inside BY DEF Inside
  <2>3. rows[d] = 1 BY <2>1 DEF IInv, StartedOK, Started
  <2> QED BY <2>1, <2>2, <2>3, SetOfCases DEF set
<1>4. set' = [d \in Calls |-> IF d = c THEN "error" ELSE IF d \in dead THEN "cut" ELSE set[d]]
  <2>1. SetOf(how, rows[c]) = "error" BY SetOfCases
  <2>2. \A d \in dead : SetOf("aborted", rows[d]) = "cut" BY <1>3, SetOfCases
  <2> QED BY <1>1, <2>1, <2>2 DEF set
<1>5. dead \in SUBSET {d \in Calls : set[d] = "row"} BY <1>1, <1>3
<1> QED BY <1>2, <1>4, <1>5 DEF Promised!Fail, set

LEMMA RefinementStep == IInv /\ [Next]_vars => [Promised!Next]_set
<1> SUFFICES ASSUME IInv, [Next]_vars PROVE Promised!Next \/ set' = set OBVIOUS
<1>0. TypeOK BY DEF IInv
<1>1. CASE UNCHANGED vars BY <1>1 DEF vars, set
<1>2. ASSUME NEW c \in Calls, Begin(c) PROVE Promised!Next \/ set' = set
  <2>1. \A d \in Calls \ {c} : pc'[d] = pc[d] /\ rows'[d] = rows[d]
    BY <1>0, <1>2 DEF Begin, EnterFrom, TypeOK
  <2>2. pc'[c] = "entered" /\ rows'[c] = rows[c] /\ pc[c] \in {"fresh", "done"}
    BY <1>0, <1>2 DEF Begin, EnterFrom, TypeOK
  <2>3. rows[c] = 0 BY <2>2 DEF IInv, FieldsOK, Unfilled
  <2>4. SetOf(pc'[c], rows'[c]) = "pending" BY <2>2, <2>3, SetOfCases DEF Inside
  <2>5. CASE pc[c] = "fresh"
    <3>1. SetOf(pc[c], rows[c]) = "pending" BY <2>3, <2>5, SetOfCases
    <3> QED BY <1>0, <2>1, <2>4, <3>1, SilentStep
  <2>6. CASE pc[c] = "done"
    <3>1. set[c] = "end" BY <2>6, SetOfCases DEF set
    <3>2. set' = [set EXCEPT ![c] = "pending"] BY <1>0, <2>1, <2>4, LoudStep
    <3>3. Promised!Rescan(c) BY <3>1, <3>2 DEF Promised!Rescan, set
    <3> QED BY <3>3 DEF Promised!Next
  <2> QED BY <2>2, <2>5, <2>6
<1>3. ASSUME NEW c \in Calls, Abandon(c) PROVE Promised!Next
  <2>1. \A d \in Calls \ {c} : pc'[d] = pc[d] /\ rows'[d] = rows[d]
    BY <1>0, <1>3 DEF Abandon, TypeOK
  <2>2. pc'[c] = "abandoned" /\ pc[c] = "open" BY <1>0, <1>3 DEF Abandon, TypeOK
  <2>3. rows[c] = 1 BY <2>2 DEF IInv, StartedOK, Started
  <2>4. set[c] = "row" BY <2>2, <2>3, SetOfCases DEF set
  <2>5. set' = [set EXCEPT ![c] = "cut"] BY <1>0, <2>1, <2>2, LoudStep, SetOfCases
  <2>6. Promised!Cut(c) BY <2>4, <2>5 DEF Promised!Cut, set
  <2> QED BY <2>6 DEF Promised!Next
<1>4. ASSUME NEW c \in Calls,
             \/ Resume(c) \/ FirstCallInit(c) \/ Alloc(c) \/ Perform(c)
             \/ AllocUserFuncContext(c) \/ FillOutput(c)
             \/ DeleteUtility(c) \/ CleanupIcu(c) \/ PerCallSetup(c)
      PROVE set' = set
  <2>1. /\ rows' = rows
        /\ \A d \in Calls \ {c} : pc'[d] = pc[d]
        /\ pc[c] \in Inside \cup {"fresh", "open"}
        /\ pc'[c] \in Inside \cup {"fresh", "open"}
    <3>1. CASE Resume(c) BY <1>0, <3>1 DEF Resume, EnterFrom, TypeOK, Inside
    <3>2. CASE FirstCallInit(c) BY <1>0, <3>2 DEF FirstCallInit, TypeOK, Inside
    <3>3. CASE Alloc(c) BY <1>0, <3>3 DEF Alloc, Throw, TypeOK, Inside
    <3>4. CASE Perform(c) BY <1>0, <3>4 DEF Perform, Throw, TypeOK, Inside
    <3>5. CASE AllocUserFuncContext(c) BY <1>0, <3>5 DEF AllocUserFuncContext, Throw, TypeOK, Inside
    <3>6. CASE FillOutput(c) BY <1>0, <3>6 DEF FillOutput, Throw, TypeOK, Inside
    <3>7. CASE DeleteUtility(c) BY <1>0, <3>7 DEF DeleteUtility, TypeOK, Inside
    <3>8. CASE CleanupIcu(c) BY <1>0, <3>8 DEF CleanupIcu, LeaveFirstCall, TypeOK, Inside
    <3>9. CASE PerCallSetup(c) BY <1>0, <3>9 DEF PerCallSetup, TypeOK, Inside
    <3> QED BY <1>4, <3>1, <3>2, <3>3, <3>4, <3>5, <3>6, <3>7, <3>8, <3>9
  <2>2. SetOf(pc'[c], rows'[c]) = SetOf(pc[c], rows[c]) BY <2>1, SetOfCases
  <2> QED BY <1>0, <2>1, <2>2, SilentStep
<1>5. ASSUME NEW c \in Calls, FirstCallRejected(c) \/ ReportError(c) \/ RowError(c)
      PROVE Promised!Next
  <2>1. rows' = rows /\ pc[c] \in Inside /\ \E how \in {"failed", "aborted"} : Raise(c, how)
    BY <1>5 DEF FirstCallRejected, ReportError, RowError, Inside
  <2>2. rows[c] = 0
    <3>1. CASE FirstCallRejected(c) BY <3>1 DEF FirstCallRejected, IInv, FieldsOK, Unfilled
    <3>2. CASE ReportError(c) BY <3>2 DEF ReportError, IInv, FieldsOK, FirstCallSteps
    <3>3. CASE RowError(c) BY <3>3 DEF RowError, IInv, StartedOK, Started
    <3> QED BY <1>5, <3>1, <3>2, <3>3
  <2> QED BY <2>1, <2>2, FailStep DEF Promised!Next
<1>6. ASSUME NEW c \in Calls, NextRow(c) PROVE Promised!Next
  <2>1. \A d \in Calls \ {c} : pc'[d] = pc[d] /\ rows'[d] = rows[d]
    BY <1>0, <1>6 DEF NextRow, GiveRow, TypeOK
  <2>2. rows[c] = 0 /\ pc[c] = "percall" BY <1>6 DEF NextRow, GiveRow, IInv, StartedOK, Started
  <2>3. pc'[c] = "open" /\ rows'[c] = 1 BY <1>0, <1>6, <2>2 DEF NextRow, GiveRow, TypeOK
  <2>4. set[c] = "pending" BY <2>2, SetOfCases DEF set, Inside
  <2>5. set' = [set EXCEPT ![c] = "row"] BY <1>0, <2>1, <2>3, LoudStep, SetOfCases
  <2>6. Promised!Deliver(c) BY <2>4, <2>5 DEF Promised!Deliver, set
  <2> QED BY <2>6 DEF Promised!Next
<1>7. ASSUME NEW c \in Calls, LastCall(c) PROVE Promised!Next
  <2>1. \A d \in Calls \ {c} : pc'[d] = pc[d] /\ rows'[d] = rows[d]
    BY <1>0, <1>7 DEF LastCall, TypeOK
  <2>2. rows[c] = 1 /\ pc[c] = "percall" BY <1>7 DEF LastCall, IInv, StartedOK, Started
  <2>3. pc'[c] = "done" BY <1>0, <1>7 DEF LastCall, TypeOK
  <2>4. set[c] = "row" BY <2>2, SetOfCases DEF set, Inside
  <2>5. set' = [set EXCEPT ![c] = "end"] BY <1>0, <2>1, <2>3, LoudStep, SetOfCases
  <2>6. Promised!Finish(c) BY <2>4, <2>5 DEF Promised!Finish, set
  <2> QED BY <2>6 DEF Promised!Next
<1> QED BY <1>1, <1>2, <1>3, <1>4, <1>5, <1>6, <1>7 DEF Next, Step

\* Whatever fails or interleaves, each scan gives one row and the end of
\* the set, or an error and no row: the driver implements ResultSet.
THEOREM Refinement == Spec => ImplementsResultSet
<1>1. Init => Promised!Init BY SetOfCases DEF Init, Promised!Init
<1>2. IInv /\ [Next]_vars => [Promised!Next]_set BY RefinementStep
<1> QED BY <1>1, <1>2, Invariance, PTL DEF Spec, ImplementsResultSet, Promised!Spec, set
=============================================================================
