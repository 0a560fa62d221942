------------------------- MODULE EntryPointsProofs -------------------------
(***************************************************************************)
(* What a call of an entry point that is performed has read, when one can  *)
(* crash the backend, and which ids a link holds, for any arguments it may *)
(* receive, any number of them and any widths of the numbers.              *)
(***************************************************************************)
EXTENDS MCEntryPoints, FiniteSetTheorems, WellFoundedInduction, TLAPS

-----------------------------------------------------------------------------
(* What the lists of steps say: a test of the number of arguments comes    *)
(* first and covers every text; the functions that format test every text  *)
(* for NULL before; and only two functions read an override.               *)
Covered(s, n) ==
  /\ DOMAIN s \subseteq Nat \ {0}
  /\ \A k \in DOMAIN s : s[k].op = "text" =>
       /\ 1 \in DOMAIN s /\ 1 < k
       /\ s[1].op \in {"exactly", "at least"} /\ s[1].count = n
       /\ s[k].arg \in 0..(n - 1)

Tested(s) ==
  \A k \in DOMAIN s : s[k].op = "text" =>
    \E j \in DOMAIN s : j < k /\ s[j].op = "not null" /\ s[j].arg = s[k].arg

Overrides(s, n, i) ==
  \A k \in DOMAIN s : s[k].op = "override" => s[k].count = n /\ s[k].arg = i

NoOverride(s) == \A k \in DOMAIN s : s[k].op # "override"

(* A position that is read as a text is read in no other way.              *)
Others == {"float", "array", "override"}
TextsApart(s) ==
  \A j, k \in DOMAIN s : s[j].op = "text" /\ s[k].op \in Others => s[j].arg # s[k].arg

Listed(s) == Len(s) \in Nat /\ DOMAIN s = 1..Len(s)
ReadBy(s) == {s[k].arg : k \in {j \in DOMAIN s : s[j].op \in Reads}}

LEMMA InvoiceHashReads ==
  /\ Covered(InvoiceHashSteps, 2) /\ NoOverride(InvoiceHashSteps)
  /\ Listed(InvoiceHashSteps) /\ TextsApart(InvoiceHashSteps)
  /\ ReadBy(InvoiceHashSteps) \subseteq 0..8
<1> DEFINE
  s == InvoiceHashSteps
  Said(k) ==
    /\ s[k].op = "text" => k \in 2..3 /\ s[k].arg \in {0, 1}
    /\ s[k].op # "override"
    /\ s[k].op \in Others => s[k].arg \notin {0, 1}
    /\ s[k].op \in Reads => s[k].arg \in 0..8
<1>1. /\ s[1] = Exactly(2)
      /\ s[2] = Text(0, "pem uri")
      /\ s[3] = Text(1, "payload")
  BY DEF InvoiceHashSteps
<1>0. DOMAIN s = 1..3
  BY DEF InvoiceHashSteps
<1> HIDE DEF s
<1>2. /\ Exactly(2).op = "exactly" /\ Exactly(2).count = 2
      /\ Text(0, "pem uri").op = "text" /\ Text(0, "pem uri").arg = 0
      /\ Text(1, "payload").op = "text" /\ Text(1, "payload").arg = 1
  BY DEF Exactly, Text
<1>3. Said(1)
  <2>1. s[1].op = "exactly" /\ s[1].count = 2
    BY <1>1, <1>2
  <2> QED BY <2>1 DEF Others, Reads
<1>4. Said(2)
  <2>1. s[2].op = "text" /\ s[2].arg = 0
    BY <1>1, <1>2
  <2> QED BY <2>1 DEF Others, Reads
<1>5. Said(3)
  <2>1. s[3].op = "text" /\ s[3].arg = 1
    BY <1>1, <1>2
  <2> QED BY <2>1 DEF Others, Reads
<1> HIDE DEF Said
<1>6. \A k \in DOMAIN s : Said(k)
  <2> SUFFICES ASSUME NEW k \in 1..3 PROVE Said(k)
    BY <1>0
  <2>1. k = 1 \/ k = 2 \/ k = 3
    OBVIOUS
  <2> QED BY <2>1, <1>3, <1>4, <1>5
<1>7. s[1].op = "exactly" /\ s[1].count = 2
  BY <1>1, <1>2
<1>8. {0, 1} \subseteq 0..(2 - 1)
  OBVIOUS
<1>9. Covered(s, 2)
  <2>1. ASSUME NEW k \in DOMAIN s, s[k].op = "text"
        PROVE  1 < k /\ s[k].arg \in {0, 1}
    <3>1. k \in 2..3 /\ s[k].arg \in {0, 1}
      BY <1>6, <2>1 DEF Said
    <3> QED BY <3>1
  <2>2. DOMAIN s \subseteq Nat \ {0} /\ 1 \in DOMAIN s
    BY <1>0
  <2> QED BY <2>1, <2>2, <1>7, <1>8 DEF Covered
<1>10. NoOverride(s)
  BY <1>6 DEF NoOverride, Said
<1>11. Listed(s)
  <2>1. Len(s) = 3
    BY DEF s, InvoiceHashSteps
  <2> QED BY <1>0, <2>1 DEF Listed
<1>12. TextsApart(s)
  BY <1>6 DEF TextsApart, Said
<1>13. ReadBy(s) \subseteq 0..8
  BY <1>6 DEF ReadBy, Said
<1> QED BY <1>9, <1>10, <1>11, <1>12, <1>13 DEF s

LEMMA PublicLinkReads ==
  /\ Covered(PublicLinkSteps, 6) /\ NoOverride(PublicLinkSteps)
  /\ Listed(PublicLinkSteps) /\ TextsApart(PublicLinkSteps)
  /\ ReadBy(PublicLinkSteps) \subseteq 0..8
<1> DEFINE
  s == PublicLinkSteps
  Said(k) ==
    /\ s[k].op = "text" => k \in 2..9 /\ s[k].arg \in {0, 2, 4, 5}
    /\ s[k].op # "override"
    /\ s[k].op \in Others => s[k].arg \notin {0, 2, 4, 5}
    /\ s[k].op \in Reads => s[k].arg \in 0..8
<1>1. /\ s[1] = Exactly(6)
      /\ s[2] = NotNull(1, "company id")
      /\ s[3] = NotNull(3, "entity id")
      /\ s[4] = Text(0, "base url")
      /\ s[5] = Float(1, "company id")
      /\ s[6] = Text(2, "entity type")
      /\ s[7] = Float(3, "entity id")
      /\ s[8] = Text(4, "key")
      /\ s[9] = Text(5, "iv")
  BY DEF PublicLinkSteps
<1>0. DOMAIN s = 1..9
  BY DEF PublicLinkSteps
<1> HIDE DEF s
<1>2. /\ Exactly(6).op = "exactly" /\ Exactly(6).count = 6
      /\ NotNull(1, "company id").op = "not null" /\ NotNull(1, "company id").arg = 1
      /\ NotNull(3, "entity id").op = "not null" /\ NotNull(3, "entity id").arg = 3
      /\ Text(0, "base url").op = "text" /\ Text(0, "base url").arg = 0
      /\ Float(1, "company id").op = "float" /\ Float(1, "company id").arg = 1
      /\ Text(2, "entity type").op = "text" /\ Text(2, "entity type").arg = 2
      /\ Float(3, "entity id").op = "float" /\ Float(3, "entity id").arg = 3
      /\ Text(4, "key").op = "text" /\ Text(4, "key").arg = 4
      /\ Text(5, "iv").op = "text" /\ Text(5, "iv").arg = 5
  BY DEF Exactly, NotNull, Text, Float
<1>3. Said(1)
  <2>1. s[1].op = "exactly" /\ s[1].count = 6
    BY <1>1, <1>2
  <2> QED BY <2>1 DEF Others, Reads
<1>4. Said(2)
  <2>1. s[2].op = "not null" /\ s[2].arg = 1
    BY <1>1, <1>2
  <2> QED BY <2>1 DEF Others, Reads
<1>5. Said(3)
  <2>1. s[3].op = "not null" /\ s[3].arg = 3
    BY <1>1, <1>2
  <2> QED BY <2>1 DEF Others, Reads
<1>6. Said(4)
  <2>1. s[4].op = "text" /\ s[4].arg = 0
    BY <1>1, <1>2
  <2> QED BY <2>1 DEF Others, Reads
<1>7. Said(5)
  <2>1. s[5].op = "float" /\ s[5].arg = 1
    BY <1>1, <1>2
  <2> QED BY <2>1 DEF Others, Reads
<1>8. Said(6)
  <2>1. s[6].op = "text" /\ s[6].arg = 2
    BY <1>1, <1>2
  <2> QED BY <2>1 DEF Others, Reads
<1>9. Said(7)
  <2>1. s[7].op = "float" /\ s[7].arg = 3
    BY <1>1, <1>2
  <2> QED BY <2>1 DEF Others, Reads
<1>10. Said(8)
  <2>1. s[8].op = "text" /\ s[8].arg = 4
    BY <1>1, <1>2
  <2> QED BY <2>1 DEF Others, Reads
<1>11. Said(9)
  <2>1. s[9].op = "text" /\ s[9].arg = 5
    BY <1>1, <1>2
  <2> QED BY <2>1 DEF Others, Reads
<1> HIDE DEF Said
<1>12. \A k \in DOMAIN s : Said(k)
  <2> SUFFICES ASSUME NEW k \in 1..9 PROVE Said(k)
    BY <1>0
  <2>1. k = 1 \/ k = 2 \/ k = 3 \/ k = 4 \/ k = 5 \/ k = 6 \/ k = 7 \/ k = 8 \/ k = 9
    OBVIOUS
  <2> QED BY <2>1, <1>3, <1>4, <1>5, <1>6, <1>7, <1>8, <1>9, <1>10, <1>11
<1>13. s[1].op = "exactly" /\ s[1].count = 6
  BY <1>1, <1>2
<1>14. {0, 2, 4, 5} \subseteq 0..(6 - 1)
  OBVIOUS
<1>15. Covered(s, 6)
  <2>1. ASSUME NEW k \in DOMAIN s, s[k].op = "text"
        PROVE  1 < k /\ s[k].arg \in {0, 2, 4, 5}
    <3>1. k \in 2..9 /\ s[k].arg \in {0, 2, 4, 5}
      BY <1>12, <2>1 DEF Said
    <3> QED BY <3>1
  <2>2. DOMAIN s \subseteq Nat \ {0} /\ 1 \in DOMAIN s
    BY <1>0
  <2> QED BY <2>1, <2>2, <1>13, <1>14 DEF Covered
<1>16. NoOverride(s)
  BY <1>12 DEF NoOverride, Said
<1>17. Listed(s)
  <2>1. Len(s) = 9
    BY DEF s, PublicLinkSteps
  <2> QED BY <1>0, <2>1 DEF Listed
<1>18. TextsApart(s)
  BY <1>12 DEF TextsApart, Said
<1>19. ReadBy(s) \subseteq 0..8
  BY <1>12 DEF ReadBy, Said
<1> QED BY <1>15, <1>16, <1>17, <1>18, <1>19 DEF s

LEMMA NumberSpelloutReads ==
  /\ Covered(NumberSpelloutSteps, 2) /\ Overrides(NumberSpelloutSteps, 2, 2)
  /\ Listed(NumberSpelloutSteps) /\ TextsApart(NumberSpelloutSteps)
  /\ ReadBy(NumberSpelloutSteps) = 0..2
<1> DEFINE
  s == NumberSpelloutSteps
  Said(k) ==
    /\ s[k].op = "text" => k \in 2..4 /\ s[k].arg \in {0}
    /\ (s[k].op = "override" => s[k].count = 2 /\ s[k].arg = 2)
    /\ s[k].op \in Others => s[k].arg \notin {0}
    /\ s[k].op \in Reads => s[k].arg \in 0..2
<1>1. /\ s[1] = AtLeast(2)
      /\ s[2] = Text(0, "locale")
      /\ s[3] = Float(1, "number")
      /\ s[4] = Override(2, 2)
  BY DEF NumberSpelloutSteps
<1>0. DOMAIN s = 1..4
  BY DEF NumberSpelloutSteps
<1> HIDE DEF s
<1>2. /\ AtLeast(2).op = "at least" /\ AtLeast(2).count = 2
      /\ Text(0, "locale").op = "text" /\ Text(0, "locale").arg = 0
      /\ Float(1, "number").op = "float" /\ Float(1, "number").arg = 1
      /\ Override(2, 2).op = "override" /\ Override(2, 2).count = 2 /\ Override(2, 2).arg = 2
  BY DEF AtLeast, Text, Float, Override
<1>3. Said(1)
  <2>1. s[1].op = "at least" /\ s[1].count = 2
    BY <1>1, <1>2
  <2> QED BY <2>1 DEF Others, Reads
<1>4. Said(2)
  <2>1. s[2].op = "text" /\ s[2].arg = 0
    BY <1>1, <1>2
  <2> QED BY <2>1 DEF Others, Reads
<1>5. Said(3)
  <2>1. s[3].op = "float" /\ s[3].arg = 1
    BY <1>1, <1>2
  <2> QED BY <2>1 DEF Others, Reads
<1>6. Said(4)
  <2>1. s[4].op = "override" /\ s[4].count = 2 /\ s[4].arg = 2
    BY <1>1, <1>2
  <2> QED BY <2>1 DEF Others, Reads
<1> HIDE DEF Said
<1>7. \A k \in DOMAIN s : Said(k)
  <2> SUFFICES ASSUME NEW k \in 1..4 PROVE Said(k)
    BY <1>0
  <2>1. k = 1 \/ k = 2 \/ k = 3 \/ k = 4
    OBVIOUS
  <2> QED BY <2>1, <1>3, <1>4, <1>5, <1>6
<1>8. s[1].op = "at least" /\ s[1].count = 2
  BY <1>1, <1>2
<1>9. {0} \subseteq 0..(2 - 1)
  OBVIOUS
<1>10. Covered(s, 2)
  <2>1. ASSUME NEW k \in DOMAIN s, s[k].op = "text"
        PROVE  1 < k /\ s[k].arg \in {0}
    <3>1. k \in 2..4 /\ s[k].arg \in {0}
      BY <1>7, <2>1 DEF Said
    <3> QED BY <3>1
  <2>2. DOMAIN s \subseteq Nat \ {0} /\ 1 \in DOMAIN s
    BY <1>0
  <2> QED BY <2>1, <2>2, <1>8, <1>9 DEF Covered
<1>11. Overrides(s, 2, 2)
  BY <1>7 DEF Overrides, Said
<1>12. Listed(s)
  <2>1. Len(s) = 4
    BY DEF s, NumberSpelloutSteps
  <2> QED BY <1>0, <2>1 DEF Listed
<1>13. TextsApart(s)
  BY <1>7 DEF TextsApart, Said
<1>14. ReadBy(s) = 0..2
  <2>1. ReadBy(s) \subseteq 0..2
    BY <1>7 DEF ReadBy, Said
  <2>2. ASSUME NEW i \in 0..2 PROVE \E k \in DOMAIN s : s[k].op \in Reads /\ s[k].arg = i
    <3>1. 2 \in DOMAIN s /\ s[2].op \in Reads /\ s[2].arg = 0
      <4>1. 2 \in DOMAIN s
        BY <1>0
      <4>2. s[2].op = "text" /\ s[2].arg = 0
        BY <1>1, <1>2
      <4> QED BY <4>1, <4>2 DEF Reads
    <3>2. 3 \in DOMAIN s /\ s[3].op \in Reads /\ s[3].arg = 1
      <4>1. 3 \in DOMAIN s
        BY <1>0
      <4>2. s[3].op = "float" /\ s[3].arg = 1
        BY <1>1, <1>2
      <4> QED BY <4>1, <4>2 DEF Reads
    <3>3. 4 \in DOMAIN s /\ s[4].op \in Reads /\ s[4].arg = 2
      <4>1. 4 \in DOMAIN s
        BY <1>0
      <4>2. s[4].op = "override" /\ s[4].arg = 2
        BY <1>1, <1>2
      <4> QED BY <4>1, <4>2 DEF Reads
    <3>4. i = 0 \/ i = 1 \/ i = 2
      OBVIOUS
    <3> QED BY <3>1, <3>2, <3>3, <3>4
  <2>3. 0..2 \subseteq ReadBy(s)
    BY <2>2 DEF ReadBy
  <2> QED BY <2>1, <2>3
<1> QED BY <1>10, <1>11, <1>12, <1>13, <1>14 DEF s

LEMMA CurrencySpelloutReads ==
  /\ Covered(CurrencySpelloutSteps, 8) /\ Overrides(CurrencySpelloutSteps, 9, 8)
  /\ Listed(CurrencySpelloutSteps) /\ TextsApart(CurrencySpelloutSteps)
  /\ ReadBy(CurrencySpelloutSteps) = 0..8
<1> DEFINE
  s == CurrencySpelloutSteps
  Said(k) ==
    /\ s[k].op = "text" => k \in 2..10 /\ s[k].arg \in {0, 2, 3, 5, 6, 7}
    /\ (s[k].op = "override" => s[k].count = 9 /\ s[k].arg = 8)
    /\ s[k].op \in Others => s[k].arg \notin {0, 2, 3, 5, 6, 7}
    /\ s[k].op \in Reads => s[k].arg \in 0..8
<1>1. /\ s[1] = AtLeast(8)
      /\ s[2] = Text(0, "locale")
      /\ s[3] = Float(1, "major")
      /\ s[4] = Text(2, "major singular")
      /\ s[5] = Text(3, "major plural")
      /\ s[6] = Float(4, "minor")
      /\ s[7] = Text(5, "minor singular")
      /\ s[8] = Text(6, "minor plural")
      /\ s[9] = Text(7, "format")
      /\ s[10] = Override(9, 8)
  BY DEF CurrencySpelloutSteps
<1>0. DOMAIN s = 1..10
  BY DEF CurrencySpelloutSteps
<1> HIDE DEF s
<1>2. /\ AtLeast(8).op = "at least" /\ AtLeast(8).count = 8
      /\ Text(0, "locale").op = "text" /\ Text(0, "locale").arg = 0
      /\ Float(1, "major").op = "float" /\ Float(1, "major").arg = 1
      /\ Text(2, "major singular").op = "text" /\ Text(2, "major singular").arg = 2
      /\ Text(3, "major plural").op = "text" /\ Text(3, "major plural").arg = 3
      /\ Float(4, "minor").op = "float" /\ Float(4, "minor").arg = 4
      /\ Text(5, "minor singular").op = "text" /\ Text(5, "minor singular").arg = 5
      /\ Text(6, "minor plural").op = "text" /\ Text(6, "minor plural").arg = 6
      /\ Text(7, "format").op = "text" /\ Text(7, "format").arg = 7
      /\ Override(9, 8).op = "override" /\ Override(9, 8).count = 9 /\ Override(9, 8).arg = 8
  BY DEF AtLeast, Text, Float, Override
<1>3. Said(1)
  <2>1. s[1].op = "at least" /\ s[1].count = 8
    BY <1>1, <1>2
  <2> QED BY <2>1 DEF Others, Reads
<1>4. Said(2)
  <2>1. s[2].op = "text" /\ s[2].arg = 0
    BY <1>1, <1>2
  <2> QED BY <2>1 DEF Others, Reads
<1>5. Said(3)
  <2>1. s[3].op = "float" /\ s[3].arg = 1
    BY <1>1, <1>2
  <2> QED BY <2>1 DEF Others, Reads
<1>6. Said(4)
  <2>1. s[4].op = "text" /\ s[4].arg = 2
    BY <1>1, <1>2
  <2> QED BY <2>1 DEF Others, Reads
<1>7. Said(5)
  <2>1. s[5].op = "text" /\ s[5].arg = 3
    BY <1>1, <1>2
  <2> QED BY <2>1 DEF Others, Reads
<1>8. Said(6)
  <2>1. s[6].op = "float" /\ s[6].arg = 4
    BY <1>1, <1>2
  <2> QED BY <2>1 DEF Others, Reads
<1>9. Said(7)
  <2>1. s[7].op = "text" /\ s[7].arg = 5
    BY <1>1, <1>2
  <2> QED BY <2>1 DEF Others, Reads
<1>10. Said(8)
  <2>1. s[8].op = "text" /\ s[8].arg = 6
    BY <1>1, <1>2
  <2> QED BY <2>1 DEF Others, Reads
<1>11. Said(9)
  <2>1. s[9].op = "text" /\ s[9].arg = 7
    BY <1>1, <1>2
  <2> QED BY <2>1 DEF Others, Reads
<1>12. Said(10)
  <2>1. s[10].op = "override" /\ s[10].count = 9 /\ s[10].arg = 8
    BY <1>1, <1>2
  <2> QED BY <2>1 DEF Others, Reads
<1> HIDE DEF Said
<1>13. \A k \in DOMAIN s : Said(k)
  <2> SUFFICES ASSUME NEW k \in 1..10 PROVE Said(k)
    BY <1>0
  <2>1. k = 1 \/ k = 2 \/ k = 3 \/ k = 4 \/ k = 5 \/ k = 6 \/ k = 7 \/ k = 8 \/ k = 9 \/ k = 10
    OBVIOUS
  <2> QED BY <2>1, <1>3, <1>4, <1>5, <1>6, <1>7, <1>8, <1>9, <1>10, <1>11, <1>12
<1>14. s[1].op = "at least" /\ s[1].count = 8
  BY <1>1, <1>2
<1>15. {0, 2, 3, 5, 6, 7} \subseteq 0..(8 - 1)
  OBVIOUS
<1>16. Covered(s, 8)
  <2>1. ASSUME NEW k \in DOMAIN s, s[k].op = "text"
        PROVE  1 < k /\ s[k].arg \in {0, 2, 3, 5, 6, 7}
    <3>1. k \in 2..10 /\ s[k].arg \in {0, 2, 3, 5, 6, 7}
      BY <1>13, <2>1 DEF Said
    <3> QED BY <3>1
  <2>2. DOMAIN s \subseteq Nat \ {0} /\ 1 \in DOMAIN s
    BY <1>0
  <2> QED BY <2>1, <2>2, <1>14, <1>15 DEF Covered
<1>17. Overrides(s, 9, 8)
  BY <1>13 DEF Overrides, Said
<1>18. Listed(s)
  <2>1. Len(s) = 10
    BY DEF s, CurrencySpelloutSteps
  <2> QED BY <1>0, <2>1 DEF Listed
<1>19. TextsApart(s)
  BY <1>13 DEF TextsApart, Said
<1>20. ReadBy(s) = 0..8
  <2>1. ReadBy(s) \subseteq 0..8
    BY <1>13 DEF ReadBy, Said
  <2>2. ASSUME NEW i \in 0..8 PROVE \E k \in DOMAIN s : s[k].op \in Reads /\ s[k].arg = i
    <3>1. 2 \in DOMAIN s /\ s[2].op \in Reads /\ s[2].arg = 0
      <4>1. 2 \in DOMAIN s
        BY <1>0
      <4>2. s[2].op = "text" /\ s[2].arg = 0
        BY <1>1, <1>2
      <4> QED BY <4>1, <4>2 DEF Reads
    <3>2. 3 \in DOMAIN s /\ s[3].op \in Reads /\ s[3].arg = 1
      <4>1. 3 \in DOMAIN s
        BY <1>0
      <4>2. s[3].op = "float" /\ s[3].arg = 1
        BY <1>1, <1>2
      <4> QED BY <4>1, <4>2 DEF Reads
    <3>3. 4 \in DOMAIN s /\ s[4].op \in Reads /\ s[4].arg = 2
      <4>1. 4 \in DOMAIN s
        BY <1>0
      <4>2. s[4].op = "text" /\ s[4].arg = 2
        BY <1>1, <1>2
      <4> QED BY <4>1, <4>2 DEF Reads
    <3>4. 5 \in DOMAIN s /\ s[5].op \in Reads /\ s[5].arg = 3
      <4>1. 5 \in DOMAIN s
        BY <1>0
      <4>2. s[5].op = "text" /\ s[5].arg = 3
        BY <1>1, <1>2
      <4> QED BY <4>1, <4>2 DEF Reads
    <3>5. 6 \in DOMAIN s /\ s[6].op \in Reads /\ s[6].arg = 4
      <4>1. 6 \in DOMAIN s
        BY <1>0
      <4>2. s[6].op = "float" /\ s[6].arg = 4
        BY <1>1, <1>2
      <4> QED BY <4>1, <4>2 DEF Reads
    <3>6. 7 \in DOMAIN s /\ s[7].op \in Reads /\ s[7].arg = 5
      <4>1. 7 \in DOMAIN s
        BY <1>0
      <4>2. s[7].op = "text" /\ s[7].arg = 5
        BY <1>1, <1>2
      <4> QED BY <4>1, <4>2 DEF Reads
    <3>7. 8 \in DOMAIN s /\ s[8].op \in Reads /\ s[8].arg = 6
      <4>1. 8 \in DOMAIN s
        BY <1>0
      <4>2. s[8].op = "text" /\ s[8].arg = 6
        BY <1>1, <1>2
      <4> QED BY <4>1, <4>2 DEF Reads
    <3>8. 9 \in DOMAIN s /\ s[9].op \in Reads /\ s[9].arg = 7
      <4>1. 9 \in DOMAIN s
        BY <1>0
      <4>2. s[9].op = "text" /\ s[9].arg = 7
        BY <1>1, <1>2
      <4> QED BY <4>1, <4>2 DEF Reads
    <3>9. 10 \in DOMAIN s /\ s[10].op \in Reads /\ s[10].arg = 8
      <4>1. 10 \in DOMAIN s
        BY <1>0
      <4>2. s[10].op = "override" /\ s[10].arg = 8
        BY <1>1, <1>2
      <4> QED BY <4>1, <4>2 DEF Reads
    <3>10. i = 0 \/ i = 1 \/ i = 2 \/ i = 3 \/ i = 4 \/ i = 5 \/ i = 6 \/ i = 7 \/ i = 8
      OBVIOUS
    <3> QED BY <3>1, <3>2, <3>3, <3>4, <3>5, <3>6, <3>7, <3>8, <3>9, <3>10
  <2>3. 0..8 \subseteq ReadBy(s)
    BY <2>2 DEF ReadBy
  <2> QED BY <2>1, <2>3
<1> QED BY <1>16, <1>17, <1>18, <1>19, <1>20 DEF s

LEMMA FormatNumberReads ==
  /\ Covered(FormatNumberSteps, 3) /\ Tested(FormatNumberSteps) /\ NoOverride(FormatNumberSteps)
  /\ Listed(FormatNumberSteps) /\ TextsApart(FormatNumberSteps)
  /\ ReadBy(FormatNumberSteps) \subseteq 0..8
<1> DEFINE
  s == FormatNumberSteps
  Said(k) ==
    /\ s[k].op = "text" => k \in 5..7 /\ s[k].arg \in {0, 2}
    /\ s[k].op # "override"
    /\ s[k].op \in Others => s[k].arg \notin {0, 2}
    /\ s[k].op \in Reads => s[k].arg \in 0..8
<1>1. /\ s[1] = AtLeast(3)
      /\ s[2] = NotNull(0, "value")
      /\ s[3] = NotNull(1, "pattern")
      /\ s[4] = NotNull(2, "locale")
      /\ s[5] = Text(0, "locale")
      /\ s[6] = Float(1, "value")
      /\ s[7] = Text(2, "pattern")
  BY DEF FormatNumberSteps
<1>0. DOMAIN s = 1..7
  BY DEF FormatNumberSteps
<1> HIDE DEF s
<1>2. /\ AtLeast(3).op = "at least" /\ AtLeast(3).count = 3
      /\ NotNull(0, "value").op = "not null" /\ NotNull(0, "value").arg = 0
      /\ NotNull(1, "pattern").op = "not null" /\ NotNull(1, "pattern").arg = 1
      /\ NotNull(2, "locale").op = "not null" /\ NotNull(2, "locale").arg = 2
      /\ Text(0, "locale").op = "text" /\ Text(0, "locale").arg = 0
      /\ Float(1, "value").op = "float" /\ Float(1, "value").arg = 1
      /\ Text(2, "pattern").op = "text" /\ Text(2, "pattern").arg = 2
  BY DEF AtLeast, NotNull, Text, Float
<1>3. Said(1)
  <2>1. s[1].op = "at least" /\ s[1].count = 3
    BY <1>1, <1>2
  <2> QED BY <2>1 DEF Others, Reads
<1>4. Said(2)
  <2>1. s[2].op = "not null" /\ s[2].arg = 0
    BY <1>1, <1>2
  <2> QED BY <2>1 DEF Others, Reads
<1>5. Said(3)
  <2>1. s[3].op = "not null" /\ s[3].arg = 1
    BY <1>1, <1>2
  <2> QED BY <2>1 DEF Others, Reads
<1>6. Said(4)
  <2>1. s[4].op = "not null" /\ s[4].arg = 2
    BY <1>1, <1>2
  <2> QED BY <2>1 DEF Others, Reads
<1>7. Said(5)
  <2>1. s[5].op = "text" /\ s[5].arg = 0
    BY <1>1, <1>2
  <2> QED BY <2>1 DEF Others, Reads
<1>8. Said(6)
  <2>1. s[6].op = "float" /\ s[6].arg = 1
    BY <1>1, <1>2
  <2> QED BY <2>1 DEF Others, Reads
<1>9. Said(7)
  <2>1. s[7].op = "text" /\ s[7].arg = 2
    BY <1>1, <1>2
  <2> QED BY <2>1 DEF Others, Reads
<1> HIDE DEF Said
<1>10. \A k \in DOMAIN s : Said(k)
  <2> SUFFICES ASSUME NEW k \in 1..7 PROVE Said(k)
    BY <1>0
  <2>1. k = 1 \/ k = 2 \/ k = 3 \/ k = 4 \/ k = 5 \/ k = 6 \/ k = 7
    OBVIOUS
  <2> QED BY <2>1, <1>3, <1>4, <1>5, <1>6, <1>7, <1>8, <1>9
<1>11. s[1].op = "at least" /\ s[1].count = 3
  BY <1>1, <1>2
<1>12. {0, 2} \subseteq 0..(3 - 1)
  OBVIOUS
<1>13. Covered(s, 3)
  <2>1. ASSUME NEW k \in DOMAIN s, s[k].op = "text"
        PROVE  1 < k /\ s[k].arg \in {0, 2}
    <3>1. k \in 5..7 /\ s[k].arg \in {0, 2}
      BY <1>10, <2>1 DEF Said
    <3> QED BY <3>1
  <2>2. DOMAIN s \subseteq Nat \ {0} /\ 1 \in DOMAIN s
    BY <1>0
  <2> QED BY <2>1, <2>2, <1>11, <1>12 DEF Covered
<1>14. NoOverride(s)
  BY <1>10 DEF NoOverride, Said
<1>15. Tested(s)
  <2> SUFFICES ASSUME NEW k \in DOMAIN s, s[k].op = "text"
               PROVE  \E j \in DOMAIN s : j < k /\ s[j].op = "not null" /\ s[j].arg = s[k].arg
    BY DEF Tested
  <2>1. k \in 5..7 /\ s[k].arg \in {0, 2}
    BY <1>10 DEF Said
  <2>2. CASE s[k].arg = 0
    <3>1. s[2].op = "not null" /\ s[2].arg = 0
      BY <1>1, <1>2
    <3>2. 2 \in DOMAIN s /\ 2 < k
      BY <1>0, <2>1
    <3> QED BY <2>2, <3>1, <3>2
  <2>3. CASE s[k].arg = 2
    <3>1. s[4].op = "not null" /\ s[4].arg = 2
      BY <1>1, <1>2
    <3>2. 4 \in DOMAIN s /\ 4 < k
      BY <1>0, <2>1
    <3> QED BY <2>3, <3>1, <3>2
  <2> QED BY <2>1, <2>2, <2>3
<1>16. Listed(s)
  <2>1. Len(s) = 7
    BY DEF s, FormatNumberSteps
  <2> QED BY <1>0, <2>1 DEF Listed
<1>17. TextsApart(s)
  BY <1>10 DEF TextsApart, Said
<1>18. ReadBy(s) \subseteq 0..8
  BY <1>10 DEF ReadBy, Said
<1> QED BY <1>13, <1>14, <1>15, <1>16, <1>17, <1>18 DEF s

LEMMA FormatMessageReads ==
  /\ Covered(FormatMessageSteps, 3) /\ Tested(FormatMessageSteps) /\ NoOverride(FormatMessageSteps)
  /\ Listed(FormatMessageSteps) /\ TextsApart(FormatMessageSteps)
  /\ ReadBy(FormatMessageSteps) \subseteq 0..8
<1> DEFINE
  s == FormatMessageSteps
  Said(k) ==
    /\ s[k].op = "text" => k \in 5..7 /\ s[k].arg \in {0, 1}
    /\ s[k].op # "override"
    /\ s[k].op \in Others => s[k].arg \notin {0, 1}
    /\ s[k].op \in Reads => s[k].arg \in 0..8
<1>1. /\ s[1] = AtLeast(3)
      /\ s[2] = NotNull(0, "locale")
      /\ s[3] = NotNull(1, "key")
      /\ s[4] = NotNull(2, "args")
      /\ s[5] = Text(0, "locale")
      /\ s[6] = Text(1, "key")
      /\ s[7] = Array(2, "args")
  BY DEF FormatMessageSteps
<1>0. DOMAIN s = 1..7
  BY DEF FormatMessageSteps
<1> HIDE DEF s
<1>2. /\ AtLeast(3).op = "at least" /\ AtLeast(3).count = 3
      /\ NotNull(0, "locale").op = "not null" /\ NotNull(0, "locale").arg = 0
      /\ NotNull(1, "key").op = "not null" /\ NotNull(1, "key").arg = 1
      /\ NotNull(2, "args").op = "not null" /\ NotNull(2, "args").arg = 2
      /\ Text(0, "locale").op = "text" /\ Text(0, "locale").arg = 0
      /\ Text(1, "key").op = "text" /\ Text(1, "key").arg = 1
      /\ Array(2, "args").op = "array" /\ Array(2, "args").arg = 2
  BY DEF AtLeast, NotNull, Text, Array
<1>3. Said(1)
  <2>1. s[1].op = "at least" /\ s[1].count = 3
    BY <1>1, <1>2
  <2> QED BY <2>1 DEF Others, Reads
<1>4. Said(2)
  <2>1. s[2].op = "not null" /\ s[2].arg = 0
    BY <1>1, <1>2
  <2> QED BY <2>1 DEF Others, Reads
<1>5. Said(3)
  <2>1. s[3].op = "not null" /\ s[3].arg = 1
    BY <1>1, <1>2
  <2> QED BY <2>1 DEF Others, Reads
<1>6. Said(4)
  <2>1. s[4].op = "not null" /\ s[4].arg = 2
    BY <1>1, <1>2
  <2> QED BY <2>1 DEF Others, Reads
<1>7. Said(5)
  <2>1. s[5].op = "text" /\ s[5].arg = 0
    BY <1>1, <1>2
  <2> QED BY <2>1 DEF Others, Reads
<1>8. Said(6)
  <2>1. s[6].op = "text" /\ s[6].arg = 1
    BY <1>1, <1>2
  <2> QED BY <2>1 DEF Others, Reads
<1>9. Said(7)
  <2>1. s[7].op = "array" /\ s[7].arg = 2
    BY <1>1, <1>2
  <2> QED BY <2>1 DEF Others, Reads
<1> HIDE DEF Said
<1>10. \A k \in DOMAIN s : Said(k)
  <2> SUFFICES ASSUME NEW k \in 1..7 PROVE Said(k)
    BY <1>0
  <2>1. k = 1 \/ k = 2 \/ k = 3 \/ k = 4 \/ k = 5 \/ k = 6 \/ k = 7
    OBVIOUS
  <2> QED BY <2>1, <1>3, <1>4, <1>5, <1>6, <1>7, <1>8, <1>9
<1>11. s[1].op = "at least" /\ s[1].count = 3
  BY <1>1, <1>2
<1>12. {0, 1} \subseteq 0..(3 - 1)
  OBVIOUS
<1>13. Covered(s, 3)
  <2>1. ASSUME NEW k \in DOMAIN s, s[k].op = "text"
        PROVE  1 < k /\ s[k].arg \in {0, 1}
    <3>1. k \in 5..7 /\ s[k].arg \in {0, 1}
      BY <1>10, <2>1 DEF Said
    <3> QED BY <3>1
  <2>2. DOMAIN s \subseteq Nat \ {0} /\ 1 \in DOMAIN s
    BY <1>0
  <2> QED BY <2>1, <2>2, <1>11, <1>12 DEF Covered
<1>14. NoOverride(s)
  BY <1>10 DEF NoOverride, Said
<1>15. Tested(s)
  <2> SUFFICES ASSUME NEW k \in DOMAIN s, s[k].op = "text"
               PROVE  \E j \in DOMAIN s : j < k /\ s[j].op = "not null" /\ s[j].arg = s[k].arg
    BY DEF Tested
  <2>1. k \in 5..7 /\ s[k].arg \in {0, 1}
    BY <1>10 DEF Said
  <2>2. CASE s[k].arg = 0
    <3>1. s[2].op = "not null" /\ s[2].arg = 0
      BY <1>1, <1>2
    <3>2. 2 \in DOMAIN s /\ 2 < k
      BY <1>0, <2>1
    <3> QED BY <2>2, <3>1, <3>2
  <2>3. CASE s[k].arg = 1
    <3>1. s[3].op = "not null" /\ s[3].arg = 1
      BY <1>1, <1>2
    <3>2. 3 \in DOMAIN s /\ 3 < k
      BY <1>0, <2>1
    <3> QED BY <2>3, <3>1, <3>2
  <2> QED BY <2>1, <2>2, <2>3
<1>16. Listed(s)
  <2>1. Len(s) = 7
    BY DEF s, FormatMessageSteps
  <2> QED BY <1>0, <2>1 DEF Listed
<1>17. TextsApart(s)
  BY <1>10 DEF TextsApart, Said
<1>18. ReadBy(s) \subseteq 0..8
  BY <1>10 DEF ReadBy, Said
<1> QED BY <1>13, <1>14, <1>15, <1>16, <1>17, <1>18 DEF s
-----------------------------------------------------------------------------
(* The same, of whichever entry point.                                     *)
LEMMA Lists ==
  /\ StepsOf("invoice_hash") = InvoiceHashSteps
  /\ StepsOf("public_link") = PublicLinkSteps
  /\ StepsOf("number_spellout") = NumberSpelloutSteps
  /\ StepsOf("currency_spellout") = CurrencySpelloutSteps
  /\ StepsOf("format_number") = FormatNumberSteps
  /\ StepsOf("format_message") = FormatMessageSteps
  /\ StepsOf("version") = VersionSteps /\ DOMAIN VersionSteps = {}
BY DEF StepsOf, VersionSteps

LEMMA AllCovered ==
  ASSUME NEW f \in Entries
  PROVE  \E n \in Nat : Covered(StepsOf(f), n)
<1>1. CASE f = "invoice_hash"
  BY <1>1, Lists, InvoiceHashReads
<1>2. CASE f = "public_link"
  BY <1>2, Lists, PublicLinkReads
<1>3. CASE f = "number_spellout"
  BY <1>3, Lists, NumberSpelloutReads
<1>4. CASE f = "currency_spellout"
  BY <1>4, Lists, CurrencySpelloutReads
<1>5. CASE f = "format_number"
  BY <1>5, Lists, FormatNumberReads
<1>6. CASE f = "format_message"
  BY <1>6, Lists, FormatMessageReads
<1>7. CASE f = "version"
  <2>1. Covered(StepsOf(f), 0)
    BY <1>7, Lists DEF Covered
  <2> QED BY <2>1
<1> QED BY <1>1, <1>2, <1>3, <1>4, <1>5, <1>6, <1>7 DEF Entries

LEMMA AllListed ==
  ASSUME NEW f \in Entries
  PROVE  Listed(StepsOf(f)) /\ TextsApart(StepsOf(f)) /\ ReadBy(StepsOf(f)) \subseteq 0..8
<1>1. CASE f = "invoice_hash"
  BY <1>1, Lists, InvoiceHashReads
<1>2. CASE f = "public_link"
  BY <1>2, Lists, PublicLinkReads
<1>3. CASE f = "number_spellout"
  <2>1. 0..2 \subseteq 0..8
    OBVIOUS
  <2> QED BY <1>3, <2>1, Lists, NumberSpelloutReads
<1>4. CASE f = "currency_spellout"
  BY <1>4, Lists, CurrencySpelloutReads
<1>5. CASE f = "format_number"
  BY <1>5, Lists, FormatNumberReads
<1>6. CASE f = "format_message"
  BY <1>6, Lists, FormatMessageReads
<1>7. CASE f = "version"
  <2>1. Listed(VersionSteps)
    BY DEF Listed, VersionSteps
  <2>2. TextsApart(VersionSteps) /\ ReadBy(VersionSteps) = {}
    BY Lists DEF TextsApart, ReadBy
  <2> QED BY <1>7, <2>1, <2>2, Lists
<1> QED BY <1>1, <1>2, <1>3, <1>4, <1>5, <1>6, <1>7 DEF Entries

LEMMA StepsAreCounted ==
  ASSUME fn \in Entries
  PROVE  Len(Steps) \in Nat /\ DOMAIN Steps = 1..Len(Steps)
BY AllListed DEF Listed, Steps

(* How many positions a function reads.                                    *)
LEMMA Arities ==
  ASSUME NEW f \in Entries
  PROVE  /\ Arity(f) \in Nat
         /\ f = "number_spellout" => Arity(f) = 3
         /\ f = "currency_spellout" => Arity(f) = 9
<1>1. Positions(f) = ReadBy(StepsOf(f))
  BY DEF Positions, ReadBy
<1>2. IsFiniteSet(0..8) /\ Cardinality(0..2) = 3 /\ Cardinality(0..8) = 9
  <2>1. 0 \in Int /\ 2 \in Int /\ 8 \in Int
    OBVIOUS
  <2>2. /\ IsFiniteSet(0..8) /\ Cardinality(0..8) = IF 0 > 8 THEN 0 ELSE 8 - 0 + 1
        /\ Cardinality(0..2) = IF 0 > 2 THEN 0 ELSE 2 - 0 + 1
    BY <2>1, FS_Interval, Zenon
  <2> QED BY <2>2
<1>3. Arity(f) \in Nat
  <2>1. IsFiniteSet(Positions(f))
    BY <1>1, <1>2, AllListed, FS_Subset
  <2> QED BY <2>1, FS_CardinalityType DEF Arity
<1>4. f = "number_spellout" => Positions(f) = 0..2
  BY <1>1, Lists, NumberSpelloutReads
<1>5. f = "currency_spellout" => Positions(f) = 0..8
  BY <1>1, Lists, CurrencySpelloutReads
<1> QED BY <1>2, <1>3, <1>4, <1>5 DEF Arity

LEMMA TextKinds ==
  ASSUME NEW f \in Entries, NEW k \in DOMAIN StepsOf(f), StepsOf(f)[k].op = "text"
  PROVE  KindsAt(f, StepsOf(f)[k].arg) \subseteq {"null", "text"}
<1> DEFINE i == StepsOf(f)[k].arg
           ways == {o \in Reads : \E j \in DOMAIN StepsOf(f) :
                                    StepsOf(f)[j].op = o /\ StepsOf(f)[j].arg = i}
<1>1. TextsApart(StepsOf(f))
  BY AllListed
<1>2. Reads = Others \cup {"text"}
  BY DEF Reads, Others
<1>3. ways \subseteq {"text"}
  BY <1>1, <1>2 DEF TextsApart
<1>4. Kinds["text"] = {"null", "text"}
  BY DEF Kinds
<1>5. KindsAt(f, i) \subseteq (UNION {Kinds[op] : op \in ways}) \cup {"text"}
  BY DEF KindsAt
<1> HIDE DEF i, ways
<1>6. UNION {Kinds[op] : op \in ways} \subseteq {"null", "text"}
  BY <1>3, <1>4
<1>7. KindsAt(f, i) \subseteq {"null", "text"}
  BY <1>5, <1>6
<1> QED BY <1>7 DEF i

LEMMA FormatsAreTested ==
  ASSUME NEW f \in {"format_number", "format_message"}
  PROVE  Tested(StepsOf(f))
BY Lists, FormatNumberReads, FormatMessageReads

LEMMA AllOverrides ==
  ASSUME NEW f \in Entries, NEW k \in DOMAIN StepsOf(f), StepsOf(f)[k].op = "override"
  PROVE  \/ f = "number_spellout" /\ StepsOf(f)[k].count = 2 /\ StepsOf(f)[k].arg = 2
         \/ f = "currency_spellout" /\ StepsOf(f)[k].count = 9 /\ StepsOf(f)[k].arg = 8
<1>1. CASE f = "number_spellout"
  BY <1>1, Lists, NumberSpelloutReads DEF Overrides
<1>2. CASE f = "currency_spellout"
  BY <1>2, Lists, CurrencySpelloutReads DEF Overrides
<1>3. f = "version" \/ NoOverride(StepsOf(f)) \/ f \in {"number_spellout", "currency_spellout"}
  BY Lists, InvoiceHashReads, PublicLinkReads, FormatNumberReads, FormatMessageReads DEF Entries
<1>4. CASE f = "version"
  BY <1>4, Lists
<1> QED BY <1>1, <1>2, <1>3, <1>4 DEF NoOverride

-----------------------------------------------------------------------------
(* A text that is read was received, and a NULL can only reach it in a     *)
(* function that is neither STRICT nor one of the two that format.         *)
LEMMA KindsAreKinds ==
  ASSUME NEW f, NEW i
  PROVE  KindsAt(f, i) \subseteq AllKinds
<1>1. "text" \in AllKinds
  <2>1. "text" \in Reads
    BY DEF Reads
  <2>2. "text" \in Kinds["text"]
    BY DEF Kinds
  <2> QED BY <2>1, <2>2 DEF AllKinds
<1>2. KindsAt(f, i) \subseteq AllKinds \cup {"text"}
  BY DEF KindsAt, AllKinds
<1> QED BY <1>1, <1>2

LEMMA TextIsReceived ==
  ASSUME TypeOK, ReceivedOK, PassedOK, At("text")
  PROVE  Step.arg \in Nat /\ Received(Step.arg)
<1>1. PICK n \in Nat : Covered(Steps, n)
  BY AllCovered DEF TypeOK, Steps
<1>2. /\ 1 \in DOMAIN Steps /\ 1 < at
      /\ Steps[1].op \in {"exactly", "at least"} /\ Steps[1].count = n
      /\ Step.arg \in 0..(n - 1)
  BY <1>1 DEF Covered, At, Step
<1>3. Passed(Steps[1])
  BY <1>2 DEF PassedOK
<1>4. Len(args) \in Nat
  BY DEF ReceivedOK
<1>5. Len(args) = n \/ Len(args) >= n
  <2>1. Len(args) = Steps[1].count \/ Len(args) >= Steps[1].count
    BY <1>2, <1>3 DEF Passed
  <2> QED BY <1>2, <2>1, Zenon
<1>6. \A i \in 0..(n - 1) : i \in Nat /\ i < Len(args)
  BY <1>4, <1>5
<1> QED BY <1>2, <1>6, Zenon DEF Received

LEMMA TextOrNull ==
  ASSUME TypeOK, ReceivedOK, PassedOK, At("text")
  PROVE  Arg(Step.arg) \in {"null", "text"}
<1>1. Step.arg \in Nat /\ Step.arg + 1 \in DOMAIN args
  BY TextIsReceived DEF ReceivedOK, Received
<1>2. args[Step.arg + 1] \in KindsAt(fn, Step.arg)
  <2>1. args[Step.arg + 1] \in KindsAt(fn, Step.arg + 1 - 1)
    BY <1>1 DEF TypeOK
  <2>2. Step.arg + 1 - 1 = Step.arg
    BY <1>1
  <2> QED BY <2>1, <2>2
<1>3. KindsAt(fn, Step.arg) \subseteq {"null", "text"}
  BY TextKinds DEF TypeOK, At, Step, Steps
<1> QED BY <1>2, <1>3 DEF Arg

LEMMA NullText ==
  ASSUME TypeOK, ReceivedOK, PassedOK, At("text"), Arg(Step.arg) = "null"
  PROVE  ~strict /\ fn \notin {"format_number", "format_message"}
<1>1. ~strict
  <2>1. Step.arg + 1 \in DOMAIN args
    BY TextIsReceived DEF ReceivedOK, Received
  <2> QED BY <2>1 DEF ReceivedOK, Arg
<1>2. ASSUME fn \in {"format_number", "format_message"} PROVE FALSE
  <2>1. Tested(Steps)
    BY <1>2, FormatsAreTested DEF Steps
  <2>2. PICK j \in DOMAIN Steps : /\ j < at
                                  /\ Steps[j].op = "not null"
                                  /\ Steps[j].arg = Step.arg
    BY <2>1 DEF Tested, At, Step
  <2>3. Passed(Steps[j])
    BY <2>2 DEF PassedOK
  <2> QED BY <2>2, <2>3 DEF Passed
<1> QED BY <1>1, <1>2

(* An override is the last position of its function, and memory behind the *)
(* arguments is only read for it in number_spellout.                       *)
LEMMA OverrideIsLast ==
  ASSUME TypeOK, At("override")
  PROVE  Step.arg = Arity(fn) - 1
<1>1. \/ fn = "number_spellout" /\ Step.arg = 2
      \/ fn = "currency_spellout" /\ Step.arg = 8
  BY AllOverrides DEF TypeOK, At, Step, Steps
<1>2. /\ fn = "number_spellout" => Arity(fn) = 3
      /\ fn = "currency_spellout" => Arity(fn) = 9
  BY Arities DEF TypeOK
<1>3. CASE fn = "number_spellout" /\ Step.arg = 2
  BY <1>2, <1>3
<1>4. CASE fn = "currency_spellout" /\ Step.arg = 8
  BY <1>2, <1>4
<1> QED BY <1>1, <1>3, <1>4

LEMMA OverrideIsReceived ==
  ASSUME TypeOK, ReceivedOK, At("override"), Len(args) >= Step.count, ~Received(Step.arg)
  PROVE  fn = "number_spellout" /\ Len(args) = 2
<1>1. \/ fn = "number_spellout" /\ Step.count = 2 /\ Step.arg = 2
      \/ Step.count = 9 /\ Step.arg = 8
  BY AllOverrides DEF TypeOK, At, Step, Steps
<1>2. Len(args) \in Nat
  BY DEF ReceivedOK
<1>3. CASE fn = "number_spellout" /\ Step.count = 2 /\ Step.arg = 2
  <2>1. Len(args) >= 2 /\ ~(2 < Len(args))
    BY <1>3, Zenon DEF Received
  <2>2. \A m \in Nat : m >= 2 /\ ~(2 < m) => m = 2
    OBVIOUS
  <2>3. Len(args) = 2
    BY <1>2, <2>1, <2>2, Zenon
  <2> QED BY <1>3, <2>3
<1>4. CASE Step.count = 9 /\ Step.arg = 8
  <2>1. Len(args) >= 9 /\ ~(8 < Len(args))
    BY <1>4, Zenon DEF Received
  <2> QED BY <1>2, <2>1
<1> QED BY <1>1, <1>3, <1>4

-----------------------------------------------------------------------------
LEMMA Initially == Init => IInv
<1> SUFFICES ASSUME Init PROVE IInv
  OBVIOUS
<1>1. TypeOK
  <2>1. Len(Steps) \in Nat /\ Arity(fn) \in Nat
    BY StepsAreCounted, Arities DEF Init
  <2>2. at \in 1..(Len(Steps) + 1)
    BY <2>1 DEF Init
  <2>3. Len(args) <= Arity(fn) + MaxExtra /\ DOMAIN args = {}
    BY <2>1, EntryPointsAssumption DEF Init
  <2> QED BY <2>2, <2>3 DEF Init, TypeOK
<1>2. ReceivedOK
  BY DEF Init, ReceivedOK
<1>3. PassedOK
  <2>1. DOMAIN Steps \subseteq Nat \ {0}
    BY AllCovered DEF Init, Steps, Covered
  <2>2. \A k \in Nat \ {0} : ~(k < 1)
    OBVIOUS
  <2> QED BY <2>1, <2>2 DEF Init, PassedOK
<1>4. OverrideOK /\ CrashesOnNullsOnly /\ PerformsOnWholeArguments
  BY DEF Init, OverrideOK, CrashesOnNullsOnly, PerformsOnWholeArguments
<1> QED BY <1>1, <1>2, <1>3, <1>4 DEF IInv

(* A step that goes on must show what Passed says of it, and where its     *)
(* override is from.                                                       *)
LEMMA Going ==
  ASSUME IInv, outcome = "running", at \in DOMAIN Steps, Pass, Passed(Step),
         override' \in {"none", "text", "memory"}, OverrideOK'
  PROVE  IInv'
<1> USE DEF IInv, Pass
<1>1. Steps' = Steps /\ (\A s : Passed(s)' = Passed(s))
  BY DEF Steps, Passed, Arg
<1>2. TypeOK'
  <2>1. at' \in 1..(Len(Steps) + 1)
    BY StepsAreCounted DEF TypeOK
  <2> QED BY <1>1, <2>1 DEF TypeOK
<1>3. ReceivedOK'
  BY DEF ReceivedOK
<1>4. PassedOK'
  <2> SUFFICES ASSUME NEW k \in DOMAIN Steps, k < at' PROVE Passed(Steps[k])
    BY <1>1 DEF PassedOK
  <2>1. k \in Nat /\ at \in Nat
    BY StepsAreCounted DEF TypeOK
  <2>2. k < at \/ k = at
    BY <2>1
  <2> QED BY <2>2 DEF PassedOK, Step
<1>5. CrashesOnNullsOnly' /\ PerformsOnWholeArguments'
  BY DEF CrashesOnNullsOnly, PerformsOnWholeArguments
<1> QED BY <1>2, <1>3, <1>4, <1>5

LEMMA GoingOn ==
  ASSUME IInv, outcome = "running", at \in DOMAIN Steps, Pass, Passed(Step),
         UNCHANGED override
  PROVE  IInv'
<1>1. override' \in {"none", "text", "memory"} /\ OverrideOK'
  BY DEF IInv, TypeOK, OverrideOK, Arg, Pass
<1> QED BY <1>1, Going

(* A call that ends leaves what it was given as it was.                    *)
LEMMA Ending ==
  ASSUME IInv, outcome # "receiving", UNCHANGED <<fn, args, strict, at, override>>,
         outcome' \in Ends,
         refusal' = refusal \/ refusal' \in {Steps[k] : k \in DOMAIN Steps},
         CrashesOnNullsOnly', PerformsOnWholeArguments'
  PROVE  IInv'
<1>1. TypeOK'
  BY DEF IInv, TypeOK, Steps, Ends
<1>2. ReceivedOK'
  BY DEF IInv, ReceivedOK, Ends
<1>3. PassedOK'
  BY DEF IInv, PassedOK, Steps, Passed, Arg
<1>4. OverrideOK'
  BY DEF IInv, OverrideOK, Arg
<1> QED BY <1>1, <1>2, <1>3, <1>4 DEF IInv

LEMMA Refusing ==
  ASSUME IInv, outcome = "running", at \in DOMAIN Steps, Refuse, UNCHANGED override
  PROVE  IInv'
<1>1. CrashesOnNullsOnly' /\ PerformsOnWholeArguments'
  BY DEF Refuse, CrashesOnNullsOnly, PerformsOnWholeArguments
<1>2. refusal' \in {Steps[k] : k \in DOMAIN Steps}
  BY DEF Refuse, Step
<1> QED BY <1>1, <1>2, Ending DEF Refuse, Ends

LEMMA Crashing ==
  ASSUME IInv, outcome = "running", Crash, UNCHANGED override, CrashesOnNullsOnly'
  PROVE  IInv'
<1>1. PerformsOnWholeArguments'
  BY DEF Crash, PerformsOnWholeArguments
<1> QED BY <1>1, Ending DEF Crash, Ends

(* When a call is performed all its steps were passed.                     *)
LEMMA Performing ==
  ASSUME IInv, Perform
  PROVE  IInv'
<1>1. CrashesOnNullsOnly'
  BY DEF Perform, CrashesOnNullsOnly
<1>2. Steps' = Steps /\ (\A i : Arg(i)' = Arg(i)) /\ UNCHANGED <<override, fn, args>>
  BY DEF Perform, Steps, Arg
<1>3. \A k \in DOMAIN Steps : Passed(Steps[k])
  <2>1. /\ Len(Steps) \in Nat /\ DOMAIN Steps = 1..Len(Steps)
        /\ at \in 1..(Len(Steps) + 1) /\ at \notin DOMAIN Steps
    BY StepsAreCounted DEF IInv, TypeOK, Perform
  <2>2. \A k \in DOMAIN Steps : k < at
    BY <2>1
  <2> QED BY <2>2 DEF IInv, PassedOK
<1>4. /\ \A k \in DOMAIN Steps : Steps[k].op = "text"  => Arg(Steps[k].arg) = "text"
      /\ \A k \in DOMAIN Steps : Steps[k].op = "array" => Arg(Steps[k].arg) = "texts"
  BY <1>3 DEF Passed
<1>5. /\ override = "text" => Arg(Arity(fn) - 1) = "text"
      /\ override = "memory" => fn = "number_spellout" /\ Len(args) = 2
  BY DEF IInv, OverrideOK
<1>6. Arity(fn)' = Arity(fn)
  BY <1>2
<1>7. PerformsOnWholeArguments'
  BY <1>2, <1>4, <1>5, <1>6, Zenon DEF PerformsOnWholeArguments
<1> QED BY <1>1, <1>7, Ending DEF Perform, Ends

LEMMA Receiving ==
  ASSUME IInv, Receive
  PROVE  IInv'
<1>1. /\ at = 1 /\ outcome = "receiving" /\ override = "none"
      /\ UNCHANGED <<fn, strict, at, outcome, refusal, override>>
  BY DEF Receive, IInv, ReceivedOK
<1>2. PICK kind \in KindsAt(fn, Len(args)) : (strict => kind # "null") /\ args' = Append(args, kind)
  BY DEF Receive
<1>3. kind \in AllKinds
  BY KindsAreKinds
<1>4. /\ args \in Seq(AllKinds) /\ Len(args) \in Nat /\ DOMAIN args = 1..Len(args)
      /\ Len(args') = Len(args) + 1 /\ DOMAIN args' = 1..(Len(args) + 1)
      /\ \A i \in 1..Len(args) : args'[i] = args[i]
      /\ args'[Len(args) + 1] = kind
  BY <1>2, <1>3 DEF IInv, ReceivedOK
<1>5. \A i \in DOMAIN args' : i \in DOMAIN args \/ i = Len(args) + 1
  BY <1>4
<1>6. TypeOK'
  <2>1. Len(args') <= Arity(fn) + MaxExtra
    BY <1>4, Arities, EntryPointsAssumption DEF Receive, IInv, TypeOK
  <2>2. \A i \in DOMAIN args' : args'[i] \in KindsAt(fn, i - 1)
    <3> SUFFICES ASSUME NEW i \in DOMAIN args' PROVE args'[i] \in KindsAt(fn, i - 1)
      OBVIOUS
    <3>1. CASE i \in DOMAIN args
      BY <3>1, <1>4 DEF IInv, TypeOK
    <3>2. CASE i = Len(args) + 1
      <4>1. i - 1 = Len(args)
        BY <3>2, <1>4
      <4> QED BY <3>2, <4>1, <1>2, <1>4
    <3> QED BY <3>1, <3>2, <1>5
  <2>3. /\ KindsAt(fn, 0)' = KindsAt(fn, 0) /\ Steps' = Steps
        /\ Arity(fn)' = Arity(fn)
    BY <1>1 DEF Steps
  <2>4. \A i \in DOMAIN args' : args'[i] \in KindsAt(fn', i - 1)
    BY <1>1, <2>2
  <2> QED BY <1>1, <2>1, <2>3, <2>4 DEF IInv, TypeOK
<1>7. ReceivedOK'
  <2>1. strict => \A i \in DOMAIN args' : args'[i] # "null"
    BY <1>2, <1>4, <1>5 DEF IInv, ReceivedOK
  <2>2. args' \in Seq(AllKinds)
    BY <1>2, <1>3, <1>4
  <2> QED BY <1>1, <2>1, <2>2 DEF IInv, ReceivedOK
<1>8. PassedOK'
  <2>1. DOMAIN Steps \subseteq Nat \ {0} /\ Steps' = Steps
    BY <1>1, AllCovered DEF IInv, TypeOK, Steps, Covered
  <2>2. \A k \in Nat \ {0} : ~(k < 1)
    OBVIOUS
  <2> QED BY <1>1, <2>1, <2>2 DEF PassedOK
<1>9. OverrideOK' /\ CrashesOnNullsOnly' /\ PerformsOnWholeArguments'
  BY <1>1 DEF OverrideOK, CrashesOnNullsOnly, PerformsOnWholeArguments
<1> QED BY <1>6, <1>7, <1>8, <1>9 DEF IInv

LEMMA Called ==
  ASSUME IInv, Call
  PROVE  IInv'
<1>1. TypeOK'
  BY DEF Call, IInv, TypeOK, Steps
<1>2. ReceivedOK'
  BY DEF Call, IInv, ReceivedOK
<1>3. PassedOK'
  BY DEF Call, IInv, PassedOK, Steps, Passed, Arg
<1>4. OverrideOK'
  BY DEF Call, IInv, OverrideOK, Arg
<1>5. CrashesOnNullsOnly' /\ PerformsOnWholeArguments'
  BY DEF Call, CrashesOnNullsOnly, PerformsOnWholeArguments
<1> QED BY <1>1, <1>2, <1>3, <1>4, <1>5 DEF IInv

LEMMA Overriding ==
  ASSUME IInv, ReadOverride
  PROVE  IInv'
<1>1. At("override") /\ outcome = "running" /\ at \in DOMAIN Steps /\ Passed(Step)
  BY DEF ReadOverride, At, Passed
<1>2. CASE Pass /\ UNCHANGED override
  BY <1>1, <1>2, GoingOn
<1>3. CASE Received(Step.arg) /\ Arg(Step.arg) = "text" /\ Pass /\ override' = "text"
  <2>1. Arg(Arity(fn) - 1) = "text"
    BY <1>1, <1>3, OverrideIsLast DEF IInv
  <2>2. OverrideOK'
    BY <1>3, <2>1 DEF OverrideOK, Arg, Pass
  <2> QED BY <1>1, <1>3, <2>2, Going
<1>4. CASE Len(args) >= Step.count /\ ~Received(Step.arg) /\ Pass /\ override' \in {"none", "memory"}
  <2>1. fn = "number_spellout" /\ Len(args) = 2
    BY <1>1, <1>4, OverrideIsReceived DEF IInv
  <2>2. OverrideOK'
    BY <1>4, <2>1 DEF OverrideOK, Pass
  <2> QED BY <1>1, <1>4, <2>2, Going
<1>5. CASE Len(args) >= Step.count /\ ~Received(Step.arg) /\ Crash /\ UNCHANGED override
  <2>1. fn = "number_spellout" /\ Len(args) = 2
    BY <1>1, <1>5, OverrideIsReceived DEF IInv
  <2>2. CrashesOnNullsOnly'
    BY <1>5, <2>1 DEF CrashesOnNullsOnly, Crash
  <2> QED BY <1>1, <1>5, <2>2, Crashing
<1> QED BY <1>2, <1>3, <1>4, <1>5 DEF ReadOverride

LEMMA ReadingText ==
  ASSUME IInv, ReadText
  PROVE  IInv'
<1>1. At("text") /\ outcome = "running" /\ at \in DOMAIN Steps /\ Step.op = "text" /\ UNCHANGED override
  BY DEF ReadText, At
<1>2. CASE Arg(Step.arg) = "null"
  <2>1. Crash
    BY <1>2 DEF ReadText
  <2>2. ~strict /\ fn \notin {"format_number", "format_message"}
    BY <1>1, <1>2, NullText DEF IInv
  <2>3. CrashesOnNullsOnly'
    BY <1>1, <1>2, <2>1, <2>2 DEF CrashesOnNullsOnly, Crash, Step, Steps, Arg
  <2> QED BY <1>1, <2>1, <2>3, Crashing
<1>3. CASE Arg(Step.arg) # "null"
  <2>1. Arg(Step.arg) = "text"
    BY <1>1, <1>3, TextOrNull DEF IInv
  <2>2. Pass /\ Passed(Step)
    BY <1>1, <1>3, <2>1 DEF ReadText, Passed
  <2> QED BY <1>1, <2>2, GoingOn
<1> QED BY <1>2, <1>3

THEOREM Invariance == Spec => []IInv
<1>1. Init => IInv
  BY Initially
<1>2. IInv /\ [Next]_vars => IInv'
  <2> SUFFICES ASSUME IInv, [Next]_vars PROVE IInv'
    OBVIOUS
  <2>1. CASE Receive
    BY <2>1, Receiving
  <2>2. CASE Call
    BY <2>2, Called
  <2>3. CASE TestCount
    <3>1. CASE Pass
      <4>1. /\ Passed(Step) /\ outcome = "running" /\ at \in DOMAIN Steps
            /\ UNCHANGED override
        BY <2>3, <3>1 DEF TestCount, At, Passed, Pass, Refuse
      <4> QED BY <3>1, <4>1, GoingOn
    <3>2. CASE Refuse
      BY <2>3, <3>2, Refusing DEF TestCount, At
    <3> QED BY <2>3, <3>1, <3>2 DEF TestCount
  <2>4. CASE TestNull
    <3>1. CASE Pass
      <4>1. /\ Passed(Step) /\ outcome = "running" /\ at \in DOMAIN Steps
            /\ UNCHANGED override
        BY <2>4, <3>1 DEF TestNull, At, Passed, Pass, Refuse
      <4> QED BY <3>1, <4>1, GoingOn
    <3>2. CASE Refuse
      BY <2>4, <3>2, Refusing DEF TestNull, At
    <3> QED BY <2>4, <3>1, <3>2 DEF TestNull
  <2>5. CASE ReadText
    BY <2>5, ReadingText
  <2>6. CASE ReadFloat
    <3>1. /\ Passed(Step) /\ outcome = "running" /\ at \in DOMAIN Steps /\ Pass
          /\ UNCHANGED override
      BY <2>6 DEF ReadFloat, At, Passed
    <3> QED BY <3>1, GoingOn
  <2>7. CASE ReadArray
    <3>1. CASE Pass
      <4>1. /\ Passed(Step) /\ outcome = "running" /\ at \in DOMAIN Steps
            /\ UNCHANGED override
        BY <2>7, <3>1 DEF ReadArray, At, Passed, Pass, Refuse
      <4> QED BY <3>1, <4>1, GoingOn
    <3>2. CASE Refuse
      BY <2>7, <3>2, Refusing DEF ReadArray, At
    <3> QED BY <2>7, <3>1, <3>2 DEF ReadArray
  <2>8. CASE ReadOverride
    BY <2>8, Overriding
  <2>9. CASE Perform
    BY <2>9, Performing
  <2>10. CASE UNCHANGED vars
    <3>1. TypeOK' /\ ReceivedOK'
      BY <2>10 DEF vars, IInv, TypeOK, ReceivedOK, Steps
    <3>2. PassedOK' /\ OverrideOK'
      BY <2>10 DEF vars, IInv, PassedOK, OverrideOK, Steps, Passed, Arg
    <3>3. CrashesOnNullsOnly' /\ PerformsOnWholeArguments'
      BY <2>10 DEF vars, IInv, CrashesOnNullsOnly, PerformsOnWholeArguments, Step, Steps, Arg
    <3> QED BY <3>1, <3>2, <3>3 DEF IInv
  <2> QED BY <2>1, <2>2, <2>3, <2>4, <2>5, <2>6, <2>7, <2>8, <2>9, <2>10 DEF Next
<1> QED BY <1>1, <1>2, PTL DEF Spec

(* TypeOK: what was received has the kinds its positions take, and the     *)
(* step a call is at, or was refused by, is one of its function's.         *)
THEOREM TypeCorrect == Spec => []TypeOK
<1>1. IInv => TypeOK
  BY DEF IInv
<1> QED BY <1>1, Invariance, PTL

(* A call that reaches the driver had every text it uses and a whole array *)
(* of texts, and an override its caller gave, whatever it is called with.  *)
THEOREM Performs == Spec => []PerformsOnWholeArguments
<1>1. IInv => PerformsOnWholeArguments
  BY DEF IInv
<1> QED BY <1>1, Invariance, PTL

(* An entry point that is STRICT, or that tests its arguments, never       *)
(* crashes the backend on a NULL, whatever it is called with.              *)
THEOREM Crashes == Spec => []CrashesOnNullsOnly
<1>1. IInv => CrashesOnNullsOnly
  BY DEF IInv
<1> QED BY <1>1, Invariance, PTL

-----------------------------------------------------------------------------
(***************************************************************************)
(* The numbers of a link: induction, recursion, powers of two and what     *)
(* rounding to a double keeps.                                             *)
(***************************************************************************)
(* A set of numbers that holds 0, and the next of each, holds them all.    *)
LEMMA SetInduction ==
  ASSUME NEW S \in SUBSET Nat, 0 \in S, \A n \in S : n + 1 \in S
  PROVE  S = Nat
<1> DEFINE T == Nat \ S
<1>1. SUFFICES ASSUME T # {} PROVE FALSE
  OBVIOUS
<1>2. PICK x \in T : \A y \in T : ~ (<<y, x>> \in OpToRel(<,Nat))
  BY <1>1, WFMin, NatLessThanWellFounded
<1>3. \A y \in T : ~(y < x)
  BY <1>2 DEF OpToRel
<1>4. x # 0 /\ x - 1 \in Nat /\ x - 1 < x
  OBVIOUS
<1>5. x - 1 \in S
  BY <1>3, <1>4
<1> QED
  BY <1>4, <1>5

(* f starts at a, and each value of it comes from the one before, to n or  *)
(* for good.                                                               *)
IsPrefixOf(f, a, h, n) == f[0] = a /\ \A k \in 0 .. n - 1 : f[k + 1] = h[k][f[k]]
RecursiveFrom(f, a, h) == f[0] = a /\ \A n \in Nat : f[n + 1] = h[n][f[n]]

(* There is a function that starts at a and goes on by h.                  *)
LEMMA Recursion ==
  ASSUME NEW T, NEW a \in T, NEW h \in [Nat -> [T -> T]]
  PROVE  \E f \in [Nat -> T] : RecursiveFrom(f, a, h)
<1> DEFINE S == {n \in Nat : \E f \in [Nat -> T] : IsPrefixOf(f, a, h, n)}
<1>1. 0 \in S
  <2>1. IsPrefixOf([k \in Nat |-> a], a, h, 0)
    BY DEF IsPrefixOf
  <2> QED BY <2>1
<1>2. ASSUME NEW n \in S PROVE n + 1 \in S
  <2>0. n \in Nat OBVIOUS
  <2>1. PICK f \in [Nat -> T] : IsPrefixOf(f, a, h, n)
    OBVIOUS
  <2> DEFINE g == [k \in Nat |-> IF k = n + 1 THEN h[n][f[n]] ELSE f[k]]
  <2>2. g \in [Nat -> T]
    BY <2>0
  <2>3. \A k \in Nat : k # n + 1 => g[k] = f[k]
    OBVIOUS
  <2>4. g[n + 1] = h[n][g[n]]
    BY <2>0
  <2>5. g[0] = a
    BY <2>0, <2>1 DEF IsPrefixOf
  <2>6. ASSUME NEW k \in 0 .. n PROVE g[k + 1] = h[k][g[k]]
    BY <2>0, <2>1, <2>3, <2>4 DEF IsPrefixOf
  <2> HIDE DEF g
  <2>7. IsPrefixOf(g, a, h, n + 1)
    BY <2>0, <2>5, <2>6 DEF IsPrefixOf
  <2> QED BY <2>0, <2>2, <2>7
<1> HIDE DEF S
<1>3. S = Nat
  BY <1>1, <1>2, SetInduction DEF S
<1> DEFINE F(n) == CHOOSE f \in [Nat -> T] : IsPrefixOf(f, a, h, n)
<1>4. ASSUME NEW n \in Nat PROVE F(n) \in [Nat -> T] /\ IsPrefixOf(F(n), a, h, n)
  BY <1>3 DEF S
<1> HIDE DEF F
<1>5. ASSUME NEW n \in Nat PROVE \A k \in 0 .. n : F(n)[k] = F(n + 1)[k]
  <2> DEFINE R == {k \in Nat : k <= n => F(n)[k] = F(n + 1)[k]}
  <2>1. 0 \in R
    BY <1>4 DEF IsPrefixOf
  <2>2. ASSUME NEW k \in R PROVE k + 1 \in R
    <3>1. SUFFICES ASSUME k + 1 <= n PROVE F(n)[k + 1] = F(n + 1)[k + 1]
      OBVIOUS
    <3>2. k \in 0 .. n - 1 /\ k \in 0 .. (n + 1) - 1 /\ n + 1 \in Nat
      BY <3>1
    <3>3. F(n)[k + 1] = h[k][F(n)[k]]
      BY <1>4, <3>2 DEF IsPrefixOf
    <3>4. F(n + 1)[k + 1] = h[k][F(n + 1)[k]]
      BY <1>4, <3>2 DEF IsPrefixOf
    <3> QED BY <3>1, <3>3, <3>4
  <2> HIDE DEF R
  <2>3. R = Nat
    BY <2>1, <2>2, SetInduction DEF R
  <2> QED BY <2>3 DEF R
<1> DEFINE f == [n \in Nat |-> F(n)[n]]
<1>6. f \in [Nat -> T]
  BY <1>4
<1>7. f[0] = a
  BY <1>4 DEF IsPrefixOf
<1>8. ASSUME NEW n \in Nat PROVE f[n + 1] = h[n][f[n]]
  <2>1. F(n + 1)[n + 1] = h[n][F(n + 1)[n]]
    BY <1>4 DEF IsPrefixOf
  <2>2. F(n + 1)[n] = F(n)[n]
    BY <1>5
  <2> QED BY <2>1, <2>2
<1> QED
  <2> HIDE DEF f
  <2>1. RecursiveFrom(f, a, h)
    BY <1>7, <1>8 DEF RecursiveFrom
  <2> QED BY <1>6, <2>1

(* Pow2 is what its definition says.                                       *)
LEMMA Pow2Def == /\ Pow2 \in [Nat -> Nat] /\ Pow2[0] = 1
                 /\ \A k \in Nat : Pow2[k + 1] = 2 * Pow2[k]
<1> DEFINE h == [n \in Nat |-> [x \in Nat |-> 2 * x]]
           D(g) == [k \in Nat |-> IF k = 0 THEN 1 ELSE 2 * g[k - 1]]
<1>1. PICK f \in [Nat -> Nat] : RecursiveFrom(f, 1, h)
  <2>1. h \in [Nat -> [Nat -> Nat]]
    OBVIOUS
  <2>2. 1 \in Nat
    OBVIOUS
  <2> HIDE DEF h
  <2> QED BY <2>1, <2>2, Recursion, Zenon
<1>2. f[0] = 1 /\ \A n \in Nat : f[n + 1] = 2 * f[n]
  BY <1>1 DEF RecursiveFrom
<1>3. \A n \in Nat \ {0} : n - 1 \in Nat /\ n = (n - 1) + 1
  OBVIOUS
<1>4. f = D(f)
  BY <1>1, <1>2, <1>3
<1>5. Pow2 = D(Pow2)
  <2>1. Pow2 = CHOOSE g : g = D(g)
    BY DEF Pow2
  <2> HIDE DEF D
  <2> QED BY <2>1, <1>4
<1>6. Pow2[0] = 1 /\ \A k \in Nat : Pow2[k + 1] = 2 * Pow2[k]
  BY <1>5
<1> DEFINE S == {k \in Nat : Pow2[k] \in Nat}
<1>7. S = Nat
  <2>1. 0 \in S /\ \A k \in S : k + 1 \in S
    BY <1>6
  <2> HIDE DEF S
  <2> QED BY <2>1, SetInduction DEF S
<1>8. Pow2 \in [Nat -> Nat]
  <2>1. Pow2 = [k \in Nat |-> Pow2[k]]
    BY <1>5
  <2> QED BY <2>1, <1>7
<1> QED BY <1>6, <1>8

(* Powers of two grow, past their exponents.                               *)
LEMMA Pow2Grows ==
  /\ \A k \in Nat : Pow2[k] \in Nat /\ Pow2[k] >= 1 /\ k < Pow2[k]
  /\ \A k, j \in Nat : k <= j => Pow2[k] <= Pow2[j]
<1> DEFINE S == {k \in Nat : Pow2[k] >= 1 /\ k < Pow2[k]}
<1>1. S = Nat
  <2>1. 0 \in S /\ \A k \in S : k + 1 \in S
    BY Pow2Def
  <2> HIDE DEF S
  <2> QED BY <2>1, SetInduction DEF S
<1>2. ASSUME NEW k \in Nat PROVE \A j \in Nat : k <= j => Pow2[k] <= Pow2[j]
  <2> DEFINE T == {j \in Nat : k <= j => Pow2[k] <= Pow2[j]}
  <2>1. 0 \in T /\ \A j \in T : j + 1 \in T
    <3>1. 0 \in T
      <4>1. k <= 0 => k = 0
        OBVIOUS
      <4> QED BY <4>1, Pow2Def
    <3>2. ASSUME NEW j \in T PROVE j + 1 \in T
      <4>1. Pow2[j] <= Pow2[j + 1]
        BY Pow2Def, <1>1
      <4> QED BY <4>1, Pow2Def
    <3> QED BY <3>1, <3>2
  <2> HIDE DEF T
  <2> QED BY <2>1, SetInduction DEF T
<1> QED BY <1>1, <1>2, Pow2Def

(* The power of a sum.                                                     *)
LEMMA Pow2Sum == \A k, j \in Nat : Pow2[k + j] = Pow2[k] * Pow2[j]
<1> TAKE k \in Nat
<1> DEFINE T == {j \in Nat : Pow2[k + j] = Pow2[k] * Pow2[j]}
<1>1. 0 \in T
  BY Pow2Def
<1>2. ASSUME NEW j \in T PROVE j + 1 \in T
  <2>1. Pow2[k + (j + 1)] = 2 * Pow2[k + j]
    <3>1. k + (j + 1) = (k + j) + 1 /\ k + j \in Nat
      OBVIOUS
    <3> QED BY <3>1, Pow2Def
  <2>2. Pow2[k] * Pow2[j + 1] = Pow2[k] * (2 * Pow2[j])
    BY Pow2Def
  <2>3. Pow2[k] \in Nat /\ Pow2[j] \in Nat /\ Pow2[k + j] = Pow2[k] * Pow2[j]
    BY Pow2Def
  <2>4. Pow2[k] * (2 * Pow2[j]) = 2 * (Pow2[k] * Pow2[j])
    BY <2>3
  <2> QED BY <2>1, <2>2, <2>3, <2>4
<1> HIDE DEF T
<1>3. T = Nat
  BY <1>1, <1>2, SetInduction DEF T
<1> QED BY <1>3 DEF T

(* Scale(n) is the first at which n fits in the significand.               *)
LEMMA ScaleFacts ==
  ASSUME NEW n \in Nat
  PROVE  /\ Scale(n) \in Nat /\ n < Pow2[Scale(n) + Significand]
         /\ \A j \in Nat : n < Pow2[j + Significand] => Scale(n) <= j
<1> USE SignificandAssumption
<1> DEFINE T == {k \in Nat : n < Pow2[k + Significand]}
<1>1. n \in T
  <2>1. n < Pow2[n] /\ Pow2[n] <= Pow2[n + Significand] /\ Pow2[n + Significand] \in Nat /\ Pow2[n] \in Nat
    BY Pow2Grows
  <2> QED BY <2>1
<1>2. PICK k \in T : \A j \in T : ~ (<<j, k>> \in OpToRel(<, Nat))
  BY <1>1, WFMin, NatLessThanWellFounded
<1>3. \A j \in T : k <= j
  <2>1. T \subseteq Nat
    OBVIOUS
  <2> HIDE DEF T
  <2>2. \A j \in T : ~ (j < k)
    BY <1>2, <2>1 DEF OpToRel
  <2> QED BY <2>1, <2>2
<1>4. k <= n
  BY <1>1, <1>3
<1>5. \A j \in 0 .. k - 1 : n >= Pow2[j + Significand]
  <2> SUFFICES ASSUME NEW j \in 0 .. k - 1 PROVE n >= Pow2[j + Significand]
    OBVIOUS
  <2>1. j \notin T /\ j \in Nat
    BY <1>3
  <2>2. Pow2[j + Significand] \in Nat
    BY Pow2Grows
  <2> QED BY <2>1, <2>2
<1>6. k \in 0 .. n /\ n < Pow2[k + Significand]
  BY <1>4
<1> HIDE DEF T
<1>7. /\ Scale(n) \in 0 .. n /\ n < Pow2[Scale(n) + Significand]
      /\ \A j \in 0 .. Scale(n) - 1 : n >= Pow2[j + Significand]
  BY <1>5, <1>6 DEF Scale
<1>8. \A j \in Nat : Pow2[j + Significand] \in Nat
  BY Pow2Grows
<1> QED BY <1>7, <1>8

(* Rounding a number of units below the next is to one of both.            *)
LEMMA RoundedNatUnits ==
  ASSUME NEW n \in Nat, NEW u \in Nat, u >= 1, u = Pow2[Scale(n)]
  PROVE  /\ \E q \in Nat : /\ q * u <= n /\ n < (q + 1) * u
                           /\ RoundedNat(n) \in {q * u, (q + 1) * u}
                           /\ n = q * u => RoundedNat(n) = n
<1> DEFINE q == n \div u
           r == n % u
<1>1. q \in Nat /\ r \in 0 .. u - 1 /\ n = (u * q) + r
  <2>1. q \in Int /\ q >= 0
    OBVIOUS
  <2>2. r \in 0 .. u - 1
    OBVIOUS
  <2>3. n = (u * q) + r
    OBVIOUS
  <2> QED BY <2>1, <2>2, <2>3
<1>2. RoundedNat(n) = u * (IF RoundUp(q, r, u) THEN q + 1 ELSE q)
  BY DEF RoundedNat
<1> HIDE DEF q, r
<1>3. n = q * u => r = 0
  BY <1>1
<1>4. r = 0 => ~RoundUp(q, r, u)
  BY <1>1 DEF RoundUp
<1>5. u * q = q * u /\ u * (q + 1) = (q + 1) * u /\ (q + 1) * u = q * u + u
  BY <1>1
<1>6. q * u <= n /\ n < (q + 1) * u
  BY <1>1, <1>5
<1>7. RoundedNat(n) \in {q * u, (q + 1) * u}
  BY <1>1, <1>2, <1>5
<1>8. n = q * u => RoundedNat(n) = n
  BY <1>1, <1>2, <1>3, <1>4, <1>5
<1> QED BY <1>1, <1>6, <1>7, <1>8

(* A number that fits in the significand, or its double, is exact.         *)
LEMMA RoundedNatExact ==
  /\ \A n \in Nat : n < Pow2[Significand] => RoundedNat(n) = n
  /\ \A m \in Nat : m < Pow2[Significand] => RoundedNat(2 * m) = 2 * m
<1> USE SignificandAssumption
<1>1. ASSUME NEW n \in Nat, n < Pow2[Significand] PROVE RoundedNat(n) = n
  <2>1. Scale(n) = 0
    BY <1>1, ScaleFacts
  <2>2. Pow2[Scale(n)] = 1
    BY <2>1, Pow2Def
  <2>3. PICK q \in Nat : q * 1 <= n /\ n < (q + 1) * 1 /\ (n = q * 1 => RoundedNat(n) = n)
    BY <2>2, RoundedNatUnits
  <2> QED BY <2>3
<1>2. ASSUME NEW m \in Nat, m < Pow2[Significand] PROVE RoundedNat(2 * m) = 2 * m
  <2>1. 2 * m \in Nat /\ 2 * m < Pow2[1 + Significand]
    <3>1. Pow2[Significand + 1] = 2 * Pow2[Significand] /\ Pow2[Significand] \in Nat
      BY Pow2Def
    <3> QED BY <1>2, <3>1
  <2> DEFINE n == 2 * m
             u == Pow2[Scale(n)]
  <2> HIDE DEF n
  <2>2. Scale(n) \in {0, 1}
    <3>1. Scale(n) \in Nat /\ \A j \in Nat : n < Pow2[j + Significand] => Scale(n) <= j
      BY <2>1, ScaleFacts DEF n
    <3>2. Scale(n) <= 1
      BY <2>1, <3>1 DEF n
    <3> QED BY <3>1, <3>2
  <2>3. u \in {1, 2}
    <3>1. Pow2[0] = 1 /\ Pow2[1] = 2
      <4>1. Pow2[0 + 1] = 2 * Pow2[0]
        BY Pow2Def
      <4> QED BY <4>1, Pow2Def
    <3> QED BY <2>2, <3>1
  <2>4. PICK q \in Nat : q * u <= n /\ n < (q + 1) * u /\ (n = q * u => RoundedNat(n) = n)
    <3>1. n \in Nat
      BY <2>1 DEF n
    <3>2. u \in Nat /\ u >= 1 /\ u = Pow2[Scale(n)]
      BY <2>3
    <3> HIDE DEF u
    <3> QED BY <3>1, <3>2, RoundedNatUnits
  <2> HIDE DEF u
  <2>5. CASE u = 1
    BY <2>4, <2>5 DEF n
  <2>6. CASE u = 2
    BY <2>4, <2>6 DEF n
  <2> QED BY <2>3, <2>5, <2>6 DEF n
<1> QED BY <1>1, <1>2

(* A multiple of u up to another is no more of them.                       *)
LEMMA Multiples ==
  ASSUME NEW q \in Nat, NEW d \in Nat, NEW u \in Nat, u >= 1
  PROVE  /\ q * u \in Nat /\ (q + 1) * u \in Nat /\ d * u \in Nat
         /\ q < d => (q + 1) * u <= d * u
         /\ q > d => q * u > d * u
<1>1. q * u \in Nat /\ (q + 1) * u \in Nat /\ d * u \in Nat
  OBVIOUS
<1>2. q < d => (q + 1) * u <= d * u
  OBVIOUS
<1>3. q > d => q * u > d * u
  <2>1. q > d => q * u >= (d + 1) * u
    OBVIOUS
  <2>2. (d + 1) * u = (d * u) + u
    OBVIOUS
  <2> QED BY <1>1, <2>1, <2>2
<1> QED BY <1>1, <1>2, <1>3

(* A power of two is exact, and what is below one is not rounded past it.  *)
LEMMA RoundedNatPow2 ==
  ASSUME NEW k \in Nat
  PROVE  /\ RoundedNat(Pow2[k]) = Pow2[k]
         /\ \A n \in Nat : n <= Pow2[k] => RoundedNat(n) \in Nat /\ RoundedNat(n) <= Pow2[k]
<1> USE SignificandAssumption
<1>1. Pow2[k] \in Nat
  BY Pow2Grows
<1>2. CASE k < Significand
  <2>1. Pow2[k] < Pow2[Significand]
    <3>1. Pow2[k + 1] <= Pow2[Significand] /\ Pow2[k + 1] = 2 * Pow2[k] /\ Pow2[k] >= 1
      BY <1>2, Pow2Grows, Pow2Def
    <3> QED BY <1>1, <3>1, Pow2Grows
  <2>2. \A n \in Nat : n <= Pow2[k] => RoundedNat(n) = n
    BY <1>1, <2>1, RoundedNatExact, Pow2Grows
  <2> QED BY <1>1, <2>2
<1>3. CASE k >= Significand
  <2>1. ASSUME NEW n \in Nat, n <= Pow2[k]
        PROVE  /\ Scale(n) \in Nat /\ Scale(n) <= k
               /\ \E q \in Nat : \E d \in Nat :
                    /\ Pow2[k] = d * Pow2[Scale(n)]
                    /\ q * Pow2[Scale(n)] <= n /\ n < (q + 1) * Pow2[Scale(n)]
                    /\ RoundedNat(n) \in {q * Pow2[Scale(n)], (q + 1) * Pow2[Scale(n)]}
                    /\ n = q * Pow2[Scale(n)] => RoundedNat(n) = n
    <3>1. Scale(n) \in Nat /\ Scale(n) <= k
      <4>1. (k - Significand) + 1 \in Nat /\ ((k - Significand) + 1) + Significand = k + 1
        BY <1>3
      <4>2. Pow2[k + 1] = 2 * Pow2[k] /\ Pow2[k] >= 1
        BY Pow2Def, Pow2Grows
      <4>3. n < Pow2[((k - Significand) + 1) + Significand]
        BY <1>1, <2>1, <4>1, <4>2
      <4>4. Scale(n) \in Nat /\ Scale(n) <= (k - Significand) + 1
        BY <4>1, <4>3, ScaleFacts
      <4> QED BY <1>3, <4>4
    <3>0. k - Scale(n) \in Nat
      BY <3>1
    <3>2. k - Scale(n) \in Nat /\ Pow2[(k - Scale(n)) + Scale(n)] = Pow2[k - Scale(n)] * Pow2[Scale(n)]
      BY <3>0, <3>1, Pow2Sum
    <3>3. (k - Scale(n)) + Scale(n) = k
      BY <3>1
    <3>4. Pow2[k - Scale(n)] \in Nat /\ Pow2[Scale(n)] \in Nat /\ Pow2[Scale(n)] >= 1
      BY <3>1, <3>2, Pow2Grows
    <3>5. PICK q \in Nat : /\ q * Pow2[Scale(n)] <= n /\ n < (q + 1) * Pow2[Scale(n)]
                           /\ RoundedNat(n) \in {q * Pow2[Scale(n)], (q + 1) * Pow2[Scale(n)]}
                           /\ n = q * Pow2[Scale(n)] => RoundedNat(n) = n
      BY <3>4, RoundedNatUnits
    <3> QED BY <3>1, <3>2, <3>3, <3>4, <3>5
  <2>2. ASSUME NEW n \in Nat, n <= Pow2[k]
        PROVE  RoundedNat(n) \in Nat /\ RoundedNat(n) <= Pow2[k] /\ (n = Pow2[k] => RoundedNat(n) = n)
    <3> DEFINE u == Pow2[Scale(n)]
    <3>1. Scale(n) \in Nat
      BY <2>1, <2>2
    <3>2. u \in Nat /\ u >= 1
      BY <3>1, Pow2Grows
    <3>3. PICK q \in Nat, d \in Nat :
            /\ Pow2[k] = d * u /\ q * u <= n /\ n < (q + 1) * u
            /\ RoundedNat(n) \in {q * u, (q + 1) * u}
            /\ n = q * u => RoundedNat(n) = n
      BY <2>1, <2>2
    <3> HIDE DEF u
    <3> DEFINE a == q * u
               b == (q + 1) * u
               c == d * u
    <3>4. /\ Pow2[k] = c /\ a <= n /\ n < b
          /\ RoundedNat(n) \in {a, b} /\ (n = a => RoundedNat(n) = n)
      BY <1>1, <3>2, <3>3
    <3>5. /\ a \in Nat /\ b \in Nat /\ c \in Nat
          /\ (q < d => b <= c) /\ (q > d => a > c) /\ (q = d => a = c)
      BY <3>2, Multiples
    <3> HIDE DEF a, b, c
    <3> QED BY <1>1, <2>2, <3>4, <3>5
  <2> QED BY <1>1, <2>2
<1> QED BY <1>2, <1>3

-----------------------------------------------------------------------------
(* The floats of a link are those of this module.                          *)
LEMMA LinkFloats ==
  /\ L!Pow2 = Pow2
  /\ \A n : L!Scale(n) = Scale(n) /\ L!RoundedNat(n) = RoundedNat(n) /\ L!Rounded(n) = Rounded(n)
<1>1. L!Pow2 = Pow2
  BY DEF Pow2, L!Pow2
<1>2. \A n : L!Scale(n) = Scale(n)
  BY <1>1 DEF Scale, L!Scale
<1>3. \A n : L!RoundedNat(n) = RoundedNat(n)
  BY <1>1, <1>2 DEF RoundedNat, L!RoundedNat, RoundUp, L!RoundUp
<1>4. \A n : L!Rounded(n) = Rounded(n)
  BY <1>3 DEF Rounded, L!Rounded
<1> QED BY <1>1, <1>2, <1>3, <1>4

(* Twice an integer up to 2^53 is a double.                                *)
LEMMA RoundedExact ==
  ASSUME NEW w \in -Pow2[Significand] .. Pow2[Significand]
  PROVE  Rounded(2 * w) = 2 * w
<1> USE SignificandAssumption
<1>1. Pow2[Significand] \in Nat /\ Pow2[Significand + 1] = 2 * Pow2[Significand]
  BY Pow2Def
<1>2. ASSUME NEW m \in Nat, m <= Pow2[Significand] PROVE RoundedNat(2 * m) = 2 * m
  <2>1. CASE m < Pow2[Significand]
    BY <2>1, RoundedNatExact
  <2>2. CASE m = Pow2[Significand]
    <3>1. Significand + 1 \in Nat
      OBVIOUS
    <3>2. RoundedNat(Pow2[Significand + 1]) = Pow2[Significand + 1]
      BY <3>1, RoundedNatPow2
    <3> QED BY <1>1, <2>2, <3>2
  <2> QED BY <1>1, <1>2, <2>1, <2>2
<1>3. CASE w >= 0
  <2>1. w \in Nat /\ w <= Pow2[Significand] /\ 2 * w >= 0
    BY <1>1, <1>3
  <2> QED BY <1>2, <2>1 DEF Rounded
<1>4. CASE w < 0
  <2>1. -w \in Nat /\ -w <= Pow2[Significand] /\ -(2 * w) = 2 * (-w) /\ ~(2 * w >= 0)
    BY <1>1, <1>4
  <2>2. RoundedNat(2 * (-w)) = 2 * (-w)
    BY <1>2, <2>1
  <2>3. Rounded(2 * w) = -(2 * (-w))
    BY <2>1, <2>2 DEF Rounded
  <2> QED BY <2>1, <2>3
<1> QED BY <1>1, <1>3, <1>4

(* Every integer up to 2^53 is an int64_t.                                 *)
LEMMA ExactFits == -Pow2[Significand] .. Pow2[Significand] \subseteq L!Int64s
<1> USE SignificandAssumption, BitsAssumption
<1>1. Significand + 1 \in Nat /\ Bits - 1 \in Nat /\ Significand + 1 <= Bits - 1
  OBVIOUS
<1>2. Pow2[Significand + 1] <= Pow2[Bits - 1] /\ Pow2[Bits - 1] \in Nat
  BY <1>1, Pow2Grows
<1>3. Pow2[Significand + 1] = 2 * Pow2[Significand] /\ Pow2[Significand] >= 1
      /\ Pow2[Significand] \in Nat
  BY Pow2Def, Pow2Grows
<1>4. Pow2[Significand] <= Pow2[Bits - 1] - 1 /\ -Pow2[Bits - 1] <= -Pow2[Significand]
  BY <1>2, <1>3
<1> QED BY <1>2, <1>3, <1>4, LinkFloats DEF L!Int64s

(* How far the ids have come: each step keeps the id of each argument.     *)
LinkInv ==
  /\ linked \in {"no", "received", "converted", "yes"}
  /\ linked # "no" => \A i \in L!Ids : given[i] \in Int /\ float[i] = Rounded(given[i])
  /\ linked \in {"converted", "yes"} => \A i \in L!Ids : int[i] \in L!ToInt64(float[i])
  /\ linked = "yes" => payload = int

(* Each step takes the ids a step further.                                 *)
LEMMA LinkStep == LinkInv /\ (L!Next \/ UNCHANGED linkVars) => LinkInv'
<1> SUFFICES ASSUME LinkInv, L!Next \/ UNCHANGED linkVars PROVE LinkInv'
  OBVIOUS
<1>1. CASE L!Receive
  <2>1. Passing \subseteq Int
    <3>1. Pow2[Bits] \in Nat
      BY BitsAssumption, Pow2Grows
    <3> QED BY <3>1 DEF Passing
  <2>2. \A i \in L!Ids : given'[i] \in Int /\ float'[i] = Rounded(given'[i])
    BY <1>1, <2>1, LinkFloats DEF L!Receive
  <2> QED BY <1>1, <2>2 DEF L!Receive, LinkInv
<1>2. CASE L!Convert
  <2>1. \A i \in L!Ids : int'[i] \in L!ToInt64(float[i])
    BY <1>2 DEF L!Convert, L!Ids
  <2> QED BY <1>2, <2>1 DEF L!Convert, LinkInv
<1>3. CASE L!Calculate
  BY <1>3 DEF L!Calculate, LinkInv
<1>4. CASE UNCHANGED linkVars
  BY <1>4 DEF linkVars, LinkInv
<1> QED
  BY <1>1, <1>2, <1>3, <1>4 DEF L!Next

(* Which makes the ids of a link the caller's.                             *)
LEMMA LinkInvImplies == LinkInv => LinkIsForIds
<1> SUFFICES ASSUME LinkInv, linked = "yes", NEW i \in L!Ids
             PROVE  LET wanted == given[i] \div 2
                    IN  /\ (given[i] = 2 * wanted
                             /\ wanted \in -L!Pow2[Significand] .. L!Pow2[Significand])
                              => payload[i] = wanted
                        /\ L!Truncated(L!Rounded(given[i])) \in L!Int64s
                              => payload[i] = L!Truncated(L!Rounded(given[i]))
  BY DEF LinkIsForIds, L!LinkIsForIds
<1> DEFINE wanted == given[i] \div 2
<1>1. given[i] \in Int /\ payload[i] \in L!ToInt64(Rounded(given[i]))
  BY DEF LinkInv
<1>2. ASSUME L!Truncated(Rounded(given[i])) \in L!Int64s
      PROVE  payload[i] = L!Truncated(Rounded(given[i]))
  BY <1>1, <1>2 DEF L!ToInt64
<1>3. ASSUME given[i] = 2 * wanted, wanted \in -Pow2[Significand] .. Pow2[Significand]
      PROVE  payload[i] = wanted
  <2>1. wanted \in Int
    BY <1>1
  <2> HIDE DEF wanted
  <2>2. Rounded(given[i]) = 2 * wanted
    BY <1>3, RoundedExact
  <2>3. L!Truncated(2 * wanted) = wanted
    BY <2>1 DEF L!Truncated
  <2>4. wanted \in L!Int64s
    BY <1>3, ExactFits
  <2> QED BY <1>2, <2>2, <2>3, <2>4
<1> QED
  BY <1>2, <1>3, LinkFloats

(* The ids in a link are those the caller of public_link gave, whenever a  *)
(* double and an int64_t hold them, at any widths of both.                 *)
THEOREM LinksAreForIds == MCSpec => []LinkIsForIds
<1>1. MCInit => LinkInv
  BY DEF MCInit, L!Init, LinkInv
<1>2. LinkInv /\ [EntryStep \/ IdsStep]_<<entryVars, linkVars>> => LinkInv'
  BY LinkStep DEF EntryStep, IdsStep
<1> QED
  BY <1>1, <1>2, LinkInvImplies, PTL DEF MCSpec
=============================================================================
