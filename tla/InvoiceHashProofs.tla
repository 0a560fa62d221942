-------------------------- MODULE InvoiceHashProofs --------------------------
(***************************************************************************)
(* InvoiceHash::Calculate releases what it makes, and a result it returns  *)
(* is whole, for any set of key sizes and any number of calls.             *)
(***************************************************************************)
EXTENDS InvoiceHash, SequenceTheorems, TLAPS

(* 172 characters encode 127 to 129 bytes.                                 *)
LEMMA LengthOfSignature ==
  ASSUME NEW n \in Nat
  PROVE  /\ EncodedSize(n) \in Nat
         /\ EncodedSize(n) = ExpectedLength <=> n \in 127..129
BY SMT DEF EncodedSize, ExpectedLength

(* The resources, and the one that is not a local of the try block.        *)
LEMMA ResourceNames ==
  /\ Resources = {"pkey", "file", "rsa", "ctx", "signature", "buffer"}
  /\ Locals \subseteq Resources
  /\ "buffer" \notin Locals
BY DEF Resources, Locals

(* The short hash is made of four characters every long hash has.          *)
LEMMA Positions ==
  /\ <<>> \o ShortPositions = ShortPositions
  /\ \A i \in DOMAIN ShortPositions : ShortPositions[i] < ExpectedLength
<1>1. ShortPositions \in Seq(Nat)
  BY DEF ShortPositions
<1>2. <<>> \o ShortPositions = ShortPositions
  BY <1>1, ConcatEmptySeq, Zenon
<1>3. \A i \in DOMAIN ShortPositions : ShortPositions[i] < ExpectedLength
  BY DEF ShortPositions, ExpectedLength
<1> QED
  BY <1>2, <1>3

(* Key sizes are numbers.                                                  *)
LEMMA ModulusType == TypeOK => modulus \in Nat
BY InvoiceHashAssumption DEF TypeOK

(* What making a resource does to the types.                               *)
LEMMA MakeType ==
  ASSUME TypeOK, NEW r \in Resources
  PROVE  /\ held \cup {r} \subseteq Resources
         /\ [live EXCEPT ![r] = @ + 1] \in [Resources -> Int]
BY DEF TypeOK

(* A new object satisfies the invariant.                                   *)
LEMMA InitInvariant == Init => IInv
<1> SUFFICES ASSUME Init PROVE IInv
  OBVIOUS
<1>1. TypeOK
  BY InvoiceHashAssumption DEF Init, TypeOK, Outside, Resources, Locals
<1>2. HeldOK /\ LiveOK
  BY DEF Init, HeldOK, LiveOK, Unowned, Outside, AfterFile
<1>3. ResultOK /\ ResultsAreWhole
  BY DEF Init, ResultOK, ResultsAreWhole, AfterOwner
<1>4. refused + (IF pc \in Steps \ {"catch", "cleanup", "return"} THEN 1 ELSE 0) <= calls
  BY DEF Init, Steps
<1> QED
  BY <1>1, <1>2, <1>3, <1>4 DEF IInv

(* A call starts with nothing held and no result.                          *)
LEMMA CalculateStep == IInv /\ Calculate => IInv'
<1> SUFFICES ASSUME IInv, Calculate PROVE IInv'
  OBVIOUS
<1> USE DEF Calculate, Outside, Steps, results
<1>0. TypeOK /\ HeldOK /\ LiveOK /\ ResultOK /\ ResultsAreWhole
  BY DEF IInv
<1>1. TypeOK'
  BY <1>0, InvoiceHashAssumption, ResourceNames DEF TypeOK
<1>2. HeldOK'
  BY <1>0, ResourceNames DEF HeldOK, AfterFile, TypeOK, Locals
<1>6. LiveOK'
  BY <1>0, ResourceNames DEF LiveOK, HeldOK, AfterFile, Unowned, TypeOK, Locals
<1>3. ResultOK'
  BY <1>0 DEF ResultOK, AfterOwner, TypeOK
<1>4. ResultsAreWhole'
  BY <1>0 DEF ResultsAreWhole, ResultOK
<1>5. (refused + (IF pc \in Steps \ {"catch", "cleanup", "return"} THEN 1 ELSE 0) <= calls)'
  BY InvoiceHashAssumption DEF IInv, TypeOK
<1> QED
  BY <1>1, <1>2, <1>3, <1>4, <1>5, <1>6 DEF IInv

(* The EVP_PKEY is held when there is one.                                 *)
LEMMA NewPkeyStep == IInv /\ NewPkey => IInv'
<1> SUFFICES ASSUME IInv, NewPkey PROVE IInv'
  OBVIOUS
<1> USE DEF NewPkey, GoTo, Make, Outside, Steps, results
<1>0. TypeOK /\ HeldOK /\ LiveOK /\ ResultOK /\ ResultsAreWhole
  BY DEF IInv
<1>1. TypeOK'
  <2>1. pc' \in Steps \cup Outside /\ calls' \in 0..MaxCalls /\ refused' \in 0..MaxCalls
    BY InvoiceHashAssumption DEF IInv, TypeOK
  <2>2. held' \subseteq Resources /\ live' \in [Resources -> Int]
    BY <1>0, ResourceNames, MakeType DEF TypeOK
  <2>3. modulus' \in KeySizes \cup {0} /\ long' \in Nat
    BY <1>0, InvoiceHashAssumption DEF TypeOK
  <2>4. short' \in {<<>>, ShortPositions} /\ tmp_ss' \in {<<>>, ShortPositions}
    BY <1>0 DEF TypeOK, ResultOK, AfterOwner
  <2>5. records' \subseteq [long : Nat, short : {<<>>, ShortPositions}]
    BY <1>0 DEF TypeOK
  <2> QED
    BY <2>1, <2>2, <2>3, <2>4, <2>5, Zenon DEF TypeOK
<1>2. HeldOK'
  BY <1>0, ResourceNames DEF HeldOK, AfterFile, TypeOK, Locals
<1>6. LiveOK'
  BY <1>0, ResourceNames DEF LiveOK, HeldOK, AfterFile, Unowned, TypeOK, Locals
<1>3. ResultOK'
  BY <1>0 DEF ResultOK, AfterOwner, TypeOK
<1>4. ResultsAreWhole'
  BY <1>0 DEF ResultsAreWhole, ResultOK
<1>5. (refused + (IF pc \in Steps \ {"catch", "cleanup", "return"} THEN 1 ELSE 0) <= calls)'
  BY InvoiceHashAssumption DEF IInv, TypeOK
<1> QED
  BY <1>1, <1>2, <1>3, <1>4, <1>5, <1>6 DEF IInv

(* The file is held once opened.                                           *)
LEMMA OpenFileStep == IInv /\ OpenFile => IInv'
<1> SUFFICES ASSUME IInv, OpenFile PROVE IInv'
  OBVIOUS
<1> USE DEF OpenFile, GoTo, Make, Throw, Outside, Steps, results
<1>0. TypeOK /\ HeldOK /\ LiveOK /\ ResultOK /\ ResultsAreWhole
  BY DEF IInv
<1>1. TypeOK'
  <2>1. pc' \in Steps \cup Outside /\ calls' \in 0..MaxCalls /\ refused' \in 0..MaxCalls
    BY InvoiceHashAssumption DEF IInv, TypeOK
  <2>2. held' \subseteq Resources /\ live' \in [Resources -> Int]
    BY <1>0, ResourceNames, MakeType DEF TypeOK
  <2>3. modulus' \in KeySizes \cup {0} /\ long' \in Nat
    BY <1>0, InvoiceHashAssumption DEF TypeOK
  <2>4. short' \in {<<>>, ShortPositions} /\ tmp_ss' \in {<<>>, ShortPositions}
    BY <1>0 DEF TypeOK, ResultOK, AfterOwner
  <2>5. records' \subseteq [long : Nat, short : {<<>>, ShortPositions}]
    BY <1>0 DEF TypeOK
  <2> QED
    BY <2>1, <2>2, <2>3, <2>4, <2>5, Zenon DEF TypeOK
<1>2. HeldOK'
  BY <1>0, ResourceNames DEF HeldOK, AfterFile, TypeOK, Locals
<1>6. LiveOK'
  BY <1>0, ResourceNames DEF LiveOK, HeldOK, AfterFile, Unowned, TypeOK, Locals
<1>3. ResultOK'
  BY <1>0 DEF ResultOK, AfterOwner, TypeOK
<1>4. ResultsAreWhole'
  BY <1>0 DEF ResultsAreWhole, ResultOK
<1>5. (refused + (IF pc \in Steps \ {"catch", "cleanup", "return"} THEN 1 ELSE 0) <= calls)'
  BY InvoiceHashAssumption DEF IInv, TypeOK
<1> QED
  BY <1>1, <1>2, <1>3, <1>4, <1>5, <1>6 DEF IInv

(* The RSA key is live and not held.                                       *)
LEMMA ReadPrivateKeyStep == IInv /\ ReadPrivateKey => IInv'
<1> SUFFICES ASSUME IInv, ReadPrivateKey PROVE IInv'
  OBVIOUS
<1> USE DEF ReadPrivateKey, GoTo, Throw, Outside, Steps, results
<1>0. TypeOK /\ HeldOK /\ LiveOK /\ ResultOK /\ ResultsAreWhole
  BY DEF IInv
<1>1. TypeOK'
  <2>1. pc' \in Steps \cup Outside /\ calls' \in 0..MaxCalls /\ refused' \in 0..MaxCalls
    BY InvoiceHashAssumption DEF IInv, TypeOK
  <2>2. held' \subseteq Resources /\ live' \in [Resources -> Int]
    BY <1>0, ResourceNames, MakeType DEF TypeOK
  <2>3. modulus' \in KeySizes \cup {0} /\ long' \in Nat
    BY <1>0, InvoiceHashAssumption DEF TypeOK
  <2>4. short' \in {<<>>, ShortPositions} /\ tmp_ss' \in {<<>>, ShortPositions}
    BY <1>0 DEF TypeOK, ResultOK, AfterOwner
  <2>5. records' \subseteq [long : Nat, short : {<<>>, ShortPositions}]
    BY <1>0 DEF TypeOK
  <2> QED
    BY <2>1, <2>2, <2>3, <2>4, <2>5, Zenon DEF TypeOK
<1>2. HeldOK'
  BY <1>0, ResourceNames DEF HeldOK, AfterFile, TypeOK, Locals
<1>6. LiveOK'
  BY <1>0, ResourceNames DEF LiveOK, HeldOK, AfterFile, Unowned, TypeOK, Locals
<1>3. ResultOK'
  BY <1>0 DEF ResultOK, AfterOwner, TypeOK
<1>4. ResultsAreWhole'
  BY <1>0 DEF ResultsAreWhole, ResultOK
<1>5. (refused + (IF pc \in Steps \ {"catch", "cleanup", "return"} THEN 1 ELSE 0) <= calls)'
  BY InvoiceHashAssumption DEF IInv, TypeOK
<1> QED
  BY <1>1, <1>2, <1>3, <1>4, <1>5, <1>6 DEF IInv

(* The RSA key is held once owned, or counted as refused.                  *)
LEMMA AssignRsaStep == IInv /\ AssignRsa => IInv'
<1> SUFFICES ASSUME IInv, AssignRsa PROVE IInv'
  OBVIOUS
<1> USE DEF AssignRsa, GoTo, Outside, Steps, results
<1>0. TypeOK /\ HeldOK /\ LiveOK /\ ResultOK /\ ResultsAreWhole
  BY DEF IInv
<1>1. TypeOK'
  <2>1. pc' \in Steps \cup Outside /\ calls' \in 0..MaxCalls /\ refused' \in 0..MaxCalls
    BY InvoiceHashAssumption DEF IInv, TypeOK
  <2>2. held' \subseteq Resources /\ live' \in [Resources -> Int]
    BY <1>0, ResourceNames, MakeType DEF TypeOK
  <2>3. modulus' \in KeySizes \cup {0} /\ long' \in Nat
    BY <1>0, InvoiceHashAssumption DEF TypeOK
  <2>4. short' \in {<<>>, ShortPositions} /\ tmp_ss' \in {<<>>, ShortPositions}
    BY <1>0 DEF TypeOK, ResultOK, AfterOwner
  <2>5. records' \subseteq [long : Nat, short : {<<>>, ShortPositions}]
    BY <1>0 DEF TypeOK
  <2> QED
    BY <2>1, <2>2, <2>3, <2>4, <2>5, Zenon DEF TypeOK
<1>2. HeldOK'
  BY <1>0, ResourceNames DEF HeldOK, AfterFile, TypeOK, Locals
<1>6. LiveOK'
  BY <1>0, ResourceNames DEF LiveOK, HeldOK, AfterFile, Unowned, TypeOK, Locals
<1>3. ResultOK'
  BY <1>0 DEF ResultOK, AfterOwner, TypeOK
<1>4. ResultsAreWhole'
  BY <1>0 DEF ResultsAreWhole, ResultOK
<1>5. (refused + (IF pc \in Steps \ {"catch", "cleanup", "return"} THEN 1 ELSE 0) <= calls)'
  BY InvoiceHashAssumption DEF IInv, TypeOK
<1> QED
  BY <1>1, <1>2, <1>3, <1>4, <1>5, <1>6 DEF IInv

(* The context is held once initialised.                                   *)
LEMMA InitContextStep == IInv /\ InitContext => IInv'
<1> SUFFICES ASSUME IInv, InitContext PROVE IInv'
  OBVIOUS
<1> USE DEF InitContext, GoTo, Make, Outside, Steps, results
<1>0. TypeOK /\ HeldOK /\ LiveOK /\ ResultOK /\ ResultsAreWhole
  BY DEF IInv
<1>1. TypeOK'
  BY <1>0, InvoiceHashAssumption, ResourceNames DEF TypeOK
<1>2. HeldOK'
  BY <1>0, ResourceNames DEF HeldOK, AfterFile, TypeOK, Locals
<1>6. LiveOK'
  BY <1>0, ResourceNames DEF LiveOK, HeldOK, AfterFile, Unowned, TypeOK, Locals
<1>3. ResultOK'
  BY <1>0 DEF ResultOK, AfterOwner, TypeOK
<1>4. ResultsAreWhole'
  BY <1>0 DEF ResultsAreWhole, ResultOK
<1>5. (refused + (IF pc \in Steps \ {"catch", "cleanup", "return"} THEN 1 ELSE 0) <= calls)'
  BY InvoiceHashAssumption DEF IInv, TypeOK
<1> QED
  BY <1>1, <1>2, <1>3, <1>4, <1>5, <1>6 DEF IInv

(* Signing, first part: nothing made.                                      *)
LEMMA SignInitStep == IInv /\ SignInit => IInv'
<1> SUFFICES ASSUME IInv, SignInit PROVE IInv'
  OBVIOUS
<1> USE DEF SignInit, Sign, GoTo, Throw, Outside, Steps, results
<1>0. TypeOK /\ HeldOK /\ LiveOK /\ ResultOK /\ ResultsAreWhole
  BY DEF IInv
<1>1. TypeOK'
  BY <1>0, InvoiceHashAssumption, ResourceNames DEF TypeOK
<1>2. HeldOK'
  BY <1>0, ResourceNames DEF HeldOK, AfterFile, TypeOK, Locals
<1>6. LiveOK'
  BY <1>0, ResourceNames DEF LiveOK, HeldOK, AfterFile, Unowned, TypeOK, Locals
<1>3. ResultOK'
  BY <1>0 DEF ResultOK, AfterOwner, TypeOK
<1>4. ResultsAreWhole'
  BY <1>0 DEF ResultsAreWhole, ResultOK
<1>5. (refused + (IF pc \in Steps \ {"catch", "cleanup", "return"} THEN 1 ELSE 0) <= calls)'
  BY InvoiceHashAssumption DEF IInv, TypeOK
<1> QED
  BY <1>1, <1>2, <1>3, <1>4, <1>5, <1>6 DEF IInv

(* Signing, second part: nothing made.                                     *)
LEMMA SignUpdateStep == IInv /\ SignUpdate => IInv'
<1> SUFFICES ASSUME IInv, SignUpdate PROVE IInv'
  OBVIOUS
<1> USE DEF SignUpdate, Sign, GoTo, Throw, Outside, Steps, results
<1>0. TypeOK /\ HeldOK /\ LiveOK /\ ResultOK /\ ResultsAreWhole
  BY DEF IInv
<1>1. TypeOK'
  BY <1>0, InvoiceHashAssumption, ResourceNames DEF TypeOK
<1>2. HeldOK'
  BY <1>0, ResourceNames DEF HeldOK, AfterFile, TypeOK, Locals
<1>6. LiveOK'
  BY <1>0, ResourceNames DEF LiveOK, HeldOK, AfterFile, Unowned, TypeOK, Locals
<1>3. ResultOK'
  BY <1>0 DEF ResultOK, AfterOwner, TypeOK
<1>4. ResultsAreWhole'
  BY <1>0 DEF ResultsAreWhole, ResultOK
<1>5. (refused + (IF pc \in Steps \ {"catch", "cleanup", "return"} THEN 1 ELSE 0) <= calls)'
  BY InvoiceHashAssumption DEF IInv, TypeOK
<1> QED
  BY <1>1, <1>2, <1>3, <1>4, <1>5, <1>6 DEF IInv

(* The signature bytes are held.                                           *)
LEMMA NewSignatureStep == IInv /\ NewSignature => IInv'
<1> SUFFICES ASSUME IInv, NewSignature PROVE IInv'
  OBVIOUS
<1> USE DEF NewSignature, GoTo, Make, Throw, Outside, Steps, results
<1>0. TypeOK /\ HeldOK /\ LiveOK /\ ResultOK /\ ResultsAreWhole
  BY DEF IInv
<1>1. TypeOK'
  <2>1. pc' \in Steps \cup Outside /\ calls' \in 0..MaxCalls /\ refused' \in 0..MaxCalls
    BY InvoiceHashAssumption DEF IInv, TypeOK
  <2>2. held' \subseteq Resources /\ live' \in [Resources -> Int]
    BY <1>0, ResourceNames, MakeType DEF TypeOK
  <2>3. modulus' \in KeySizes \cup {0} /\ long' \in Nat
    BY <1>0, InvoiceHashAssumption DEF TypeOK
  <2>4. short' \in {<<>>, ShortPositions} /\ tmp_ss' \in {<<>>, ShortPositions}
    BY <1>0 DEF TypeOK, ResultOK, AfterOwner
  <2>5. records' \subseteq [long : Nat, short : {<<>>, ShortPositions}]
    BY <1>0 DEF TypeOK
  <2> QED
    BY <2>1, <2>2, <2>3, <2>4, <2>5, Zenon DEF TypeOK
<1>2. HeldOK'
  BY <1>0, ResourceNames DEF HeldOK, AfterFile, TypeOK, Locals
<1>6. LiveOK'
  BY <1>0, ResourceNames DEF LiveOK, HeldOK, AfterFile, Unowned, TypeOK, Locals
<1>3. ResultOK'
  BY <1>0 DEF ResultOK, AfterOwner, TypeOK
<1>4. ResultsAreWhole'
  BY <1>0 DEF ResultsAreWhole, ResultOK
<1>5. (refused + (IF pc \in Steps \ {"catch", "cleanup", "return"} THEN 1 ELSE 0) <= calls)'
  BY InvoiceHashAssumption DEF IInv, TypeOK
<1> QED
  BY <1>1, <1>2, <1>3, <1>4, <1>5, <1>6 DEF IInv

(* Signing, last part: nothing made.                                       *)
LEMMA SignFinalStep == IInv /\ SignFinal => IInv'
<1> SUFFICES ASSUME IInv, SignFinal PROVE IInv'
  OBVIOUS
<1> USE DEF SignFinal, Sign, GoTo, Throw, Outside, Steps, results
<1>0. TypeOK /\ HeldOK /\ LiveOK /\ ResultOK /\ ResultsAreWhole
  BY DEF IInv
<1>1. TypeOK'
  BY <1>0, InvoiceHashAssumption, ResourceNames DEF TypeOK
<1>2. HeldOK'
  BY <1>0, ResourceNames DEF HeldOK, AfterFile, TypeOK, Locals
<1>6. LiveOK'
  BY <1>0, ResourceNames DEF LiveOK, HeldOK, AfterFile, Unowned, TypeOK, Locals
<1>3. ResultOK'
  BY <1>0 DEF ResultOK, AfterOwner, TypeOK
<1>4. ResultsAreWhole'
  BY <1>0 DEF ResultsAreWhole, ResultOK
<1>5. (refused + (IF pc \in Steps \ {"catch", "cleanup", "return"} THEN 1 ELSE 0) <= calls)'
  BY InvoiceHashAssumption DEF IInv, TypeOK
<1> QED
  BY <1>1, <1>2, <1>3, <1>4, <1>5, <1>6 DEF IInv

(* The buffer is held, and long_ is as long as the encoding.               *)
LEMMA EncodeStep == IInv /\ Encode => IInv'
<1> SUFFICES ASSUME IInv, Encode PROVE IInv'
  OBVIOUS
<1> USE DEF Encode, GoTo, Make, Throw, Outside, Steps, results
<1>0. TypeOK /\ HeldOK /\ LiveOK /\ ResultOK /\ ResultsAreWhole
  BY DEF IInv
<1>1. TypeOK'
  <2>1. pc' \in Steps \cup Outside /\ calls' \in 0..MaxCalls /\ refused' \in 0..MaxCalls
    BY InvoiceHashAssumption DEF IInv, TypeOK
  <2>2. held' \subseteq Resources /\ live' \in [Resources -> Int]
    BY <1>0, ResourceNames, MakeType DEF TypeOK
  <2>3. modulus' \in KeySizes \cup {0} /\ long' \in Nat
    BY <1>0, InvoiceHashAssumption, LengthOfSignature, ModulusType DEF TypeOK
  <2>4. short' \in {<<>>, ShortPositions} /\ tmp_ss' \in {<<>>, ShortPositions}
    BY <1>0, LengthOfSignature, ModulusType DEF TypeOK, ResultOK, AfterOwner
  <2>5. records' \subseteq [long : Nat, short : {<<>>, ShortPositions}]
    BY <1>0 DEF TypeOK
  <2> QED
    BY <2>1, <2>2, <2>3, <2>4, <2>5, Zenon DEF TypeOK
<1>2. HeldOK'
  BY <1>0, ResourceNames DEF HeldOK, AfterFile, TypeOK, Locals
<1>6. LiveOK'
  BY <1>0, ResourceNames DEF LiveOK, HeldOK, AfterFile, Unowned, TypeOK, Locals
<1>3. ResultOK'
  BY <1>0, LengthOfSignature, ModulusType DEF ResultOK, AfterOwner, TypeOK
<1>4. ResultsAreWhole'
  BY <1>0, LengthOfSignature, ModulusType DEF ResultsAreWhole, ResultOK
<1>5. (refused + (IF pc \in Steps \ {"catch", "cleanup", "return"} THEN 1 ELSE 0) <= calls)'
  BY InvoiceHashAssumption DEF IInv, TypeOK
<1> QED
  BY <1>1, <1>2, <1>3, <1>4, <1>5, <1>6 DEF IInv

(* Past the check long_ has the expected length.                           *)
LEMMA CheckLengthStep == IInv /\ CheckLength => IInv'
<1> SUFFICES ASSUME IInv, CheckLength PROVE IInv'
  OBVIOUS
<1> USE DEF CheckLength, GoTo, Throw, Outside, Steps, results
<1>0. TypeOK /\ HeldOK /\ LiveOK /\ ResultOK /\ ResultsAreWhole
  BY DEF IInv
<1>1. TypeOK'
  BY <1>0, InvoiceHashAssumption, ResourceNames DEF TypeOK
<1>2. HeldOK'
  BY <1>0, ResourceNames DEF HeldOK, AfterFile, TypeOK, Locals
<1>6. LiveOK'
  BY <1>0, ResourceNames DEF LiveOK, HeldOK, AfterFile, Unowned, TypeOK, Locals
<1>3. ResultOK'
  BY <1>0 DEF ResultOK, AfterOwner, TypeOK
<1>4. ResultsAreWhole'
  BY <1>0 DEF ResultsAreWhole, ResultOK
<1>5. (refused + (IF pc \in Steps \ {"catch", "cleanup", "return"} THEN 1 ELSE 0) <= calls)'
  BY InvoiceHashAssumption DEF IInv, TypeOK
<1> QED
  BY <1>1, <1>2, <1>3, <1>4, <1>5, <1>6 DEF IInv

(* The stream was empty, so short_ is the four positions.                  *)
LEMMA ShortenStep == IInv /\ Shorten => IInv'
<1> SUFFICES ASSUME IInv, Shorten PROVE IInv'
  OBVIOUS
<1> USE DEF Shorten, GoTo, Outside, Steps, results
<1>0. TypeOK /\ HeldOK /\ LiveOK /\ ResultOK /\ ResultsAreWhole
  BY DEF IInv
<1>1. TypeOK'
  <2>1. pc' \in Steps \cup Outside /\ calls' \in 0..MaxCalls /\ refused' \in 0..MaxCalls
    BY InvoiceHashAssumption DEF IInv, TypeOK
  <2>2. held' \subseteq Resources /\ live' \in [Resources -> Int]
    BY <1>0, ResourceNames, MakeType DEF TypeOK
  <2>3. modulus' \in KeySizes \cup {0} /\ long' \in Nat
    BY <1>0, InvoiceHashAssumption, Positions DEF TypeOK
  <2>4. short' \in {<<>>, ShortPositions} /\ tmp_ss' \in {<<>>, ShortPositions}
    BY <1>0, Positions DEF TypeOK, ResultOK, AfterOwner
  <2>5. records' \subseteq [long : Nat, short : {<<>>, ShortPositions}]
    BY <1>0 DEF TypeOK
  <2> QED
    BY <2>1, <2>2, <2>3, <2>4, <2>5, Zenon DEF TypeOK
<1>2. HeldOK'
  BY <1>0, ResourceNames DEF HeldOK, AfterFile, TypeOK, Locals
<1>6. LiveOK'
  BY <1>0, ResourceNames DEF LiveOK, HeldOK, AfterFile, Unowned, TypeOK, Locals
<1>3. ResultOK'
  BY <1>0, Positions DEF ResultOK, AfterOwner, TypeOK
<1>4. ResultsAreWhole'
  BY <1>0, Positions DEF ResultsAreWhole, ResultOK
<1>5. (refused + (IF pc \in Steps \ {"catch", "cleanup", "return"} THEN 1 ELSE 0) <= calls)'
  BY InvoiceHashAssumption DEF IInv, TypeOK
<1> QED
  BY <1>1, <1>2, <1>3, <1>4, <1>5, <1>6 DEF IInv

(* The locals are released while most stay held.                           *)
LEMMA CleanupAndReturnStep == IInv /\ CleanupAndReturn => IInv'
<1> SUFFICES ASSUME IInv, CleanupAndReturn PROVE IInv'
  OBVIOUS
<1> USE DEF CleanupAndReturn, Cleanup, GoTo, Release, Outside, Steps, results
<1>0. TypeOK /\ HeldOK /\ LiveOK /\ ResultOK /\ ResultsAreWhole
  BY DEF IInv
<1>1. TypeOK'
  BY <1>0, InvoiceHashAssumption, ResourceNames DEF TypeOK
<1>2. HeldOK'
  BY <1>0, ResourceNames DEF HeldOK, AfterFile, TypeOK, Locals
<1>6. LiveOK'
  BY <1>0, ResourceNames DEF LiveOK, HeldOK, AfterFile, Unowned, TypeOK, Locals
<1>3. ResultOK'
  BY <1>0 DEF ResultOK, AfterOwner, TypeOK
<1>4. ResultsAreWhole'
  BY <1>0 DEF ResultsAreWhole, ResultOK
<1>5. (refused + (IF pc \in Steps \ {"catch", "cleanup", "return"} THEN 1 ELSE 0) <= calls)'
  BY InvoiceHashAssumption DEF IInv, TypeOK
<1> QED
  BY <1>1, <1>2, <1>3, <1>4, <1>5, <1>6 DEF IInv

(* The buffer goes, and the key had 127 to 129 bytes.                      *)
LEMMA ReturnStep == IInv /\ Return => IInv'
<1> SUFFICES ASSUME IInv, Return PROVE IInv'
  OBVIOUS
<1> USE DEF Return, GoTo, Release, Outside, Steps, results
<1>0. TypeOK /\ HeldOK /\ LiveOK /\ ResultOK /\ ResultsAreWhole
  BY DEF IInv
<1>1. TypeOK'
  BY <1>0, InvoiceHashAssumption, ResourceNames, LengthOfSignature, ModulusType DEF TypeOK
<1>2. HeldOK'
  BY <1>0, ResourceNames DEF HeldOK, AfterFile, TypeOK, Locals
<1>6. LiveOK'
  BY <1>0, ResourceNames DEF LiveOK, HeldOK, AfterFile, Unowned, TypeOK, Locals
<1>3. ResultOK'
  BY <1>0, LengthOfSignature, ModulusType DEF ResultOK, AfterOwner, TypeOK
<1>4. ResultsAreWhole'
  BY <1>0, LengthOfSignature, ModulusType DEF ResultsAreWhole, ResultOK
<1>5. (refused + (IF pc \in Steps \ {"catch", "cleanup", "return"} THEN 1 ELSE 0) <= calls)'
  BY InvoiceHashAssumption DEF IInv, TypeOK
<1> QED
  BY <1>1, <1>2, <1>3, <1>4, <1>5, <1>6 DEF IInv

(* A handler releases all that is held.                                    *)
LEMMA RethrowStep == IInv /\ Rethrow => IInv'
<1> SUFFICES ASSUME IInv, Rethrow PROVE IInv'
  OBVIOUS
<1> USE DEF Rethrow, GoTo, Release, Outside, Steps, results
<1>0. TypeOK /\ HeldOK /\ LiveOK /\ ResultOK /\ ResultsAreWhole
  BY DEF IInv
<1>1. TypeOK'
  BY <1>0, InvoiceHashAssumption, ResourceNames DEF TypeOK
<1>2. HeldOK'
  BY <1>0, ResourceNames DEF HeldOK, AfterFile, TypeOK, Locals
<1>6. LiveOK'
  BY <1>0, ResourceNames DEF LiveOK, HeldOK, AfterFile, Unowned, TypeOK, Locals
<1>3. ResultOK'
  BY <1>0 DEF ResultOK, AfterOwner, TypeOK
<1>4. ResultsAreWhole'
  BY <1>0 DEF ResultsAreWhole, ResultOK
<1>5. (refused + (IF pc \in Steps \ {"catch", "cleanup", "return"} THEN 1 ELSE 0) <= calls)'
  BY InvoiceHashAssumption DEF IInv, TypeOK
<1> QED
  BY <1>1, <1>2, <1>3, <1>4, <1>5, <1>6 DEF IInv

(* A record copies a whole result.                                         *)
LEMMA FillOutputAtUserFuncContextStep == IInv /\ FillOutputAtUserFuncContext => IInv'
<1> SUFFICES ASSUME IInv, FillOutputAtUserFuncContext PROVE IInv'
  OBVIOUS
<1> USE DEF FillOutputAtUserFuncContext, Outside, Steps, results
<1>0. TypeOK /\ HeldOK /\ LiveOK /\ ResultOK /\ ResultsAreWhole
  BY DEF IInv
<1>1. TypeOK'
  BY <1>0, InvoiceHashAssumption, ResourceNames, Positions DEF TypeOK
<1>2. HeldOK'
  BY <1>0, ResourceNames DEF HeldOK, AfterFile, TypeOK, Locals
<1>6. LiveOK'
  BY <1>0, ResourceNames DEF LiveOK, HeldOK, AfterFile, Unowned, TypeOK, Locals
<1>3. ResultOK'
  BY <1>0, Positions DEF ResultOK, AfterOwner, TypeOK
<1>4. ResultsAreWhole'
  BY <1>0, Positions DEF ResultsAreWhole, ResultOK
<1>5. (refused + (IF pc \in Steps \ {"catch", "cleanup", "return"} THEN 1 ELSE 0) <= calls)'
  BY InvoiceHashAssumption DEF IInv, TypeOK
<1> QED
  BY <1>1, <1>2, <1>3, <1>4, <1>5, <1>6 DEF IInv

(* The end of the object.                                                  *)
LEMMA DeleteStep == IInv /\ Delete => IInv'
<1> SUFFICES ASSUME IInv, Delete PROVE IInv'
  OBVIOUS
<1> USE DEF Delete, Outside, Steps, results
<1>0. TypeOK /\ HeldOK /\ LiveOK /\ ResultOK /\ ResultsAreWhole
  BY DEF IInv
<1>1. TypeOK'
  BY <1>0, InvoiceHashAssumption, ResourceNames DEF TypeOK
<1>2. HeldOK'
  BY <1>0, ResourceNames DEF HeldOK, AfterFile, TypeOK, Locals
<1>6. LiveOK'
  BY <1>0, ResourceNames DEF LiveOK, HeldOK, AfterFile, Unowned, TypeOK, Locals
<1>3. ResultOK'
  BY <1>0 DEF ResultOK, AfterOwner, TypeOK
<1>4. ResultsAreWhole'
  BY <1>0 DEF ResultsAreWhole, ResultOK
<1>5. (refused + (IF pc \in Steps \ {"catch", "cleanup", "return"} THEN 1 ELSE 0) <= calls)'
  BY InvoiceHashAssumption DEF IInv, TypeOK
<1> QED
  BY <1>1, <1>2, <1>3, <1>4, <1>5, <1>6 DEF IInv

(* Nothing changes.                                                        *)
LEMMA StutterStep == IInv /\ UNCHANGED vars => IInv'
BY DEF IInv, vars, results, TypeOK, HeldOK, LiveOK, Unowned, ResultOK, ResultsAreWhole

(* Every step preserves the invariant.                                     *)
LEMMA NextInvariant == IInv /\ [Next]_vars => IInv'
BY CalculateStep, NewPkeyStep, OpenFileStep, ReadPrivateKeyStep, AssignRsaStep,
   InitContextStep, SignInitStep, SignUpdateStep, NewSignatureStep, SignFinalStep,
   EncodeStep, CheckLengthStep, ShortenStep, CleanupAndReturnStep, ReturnStep,
   RethrowStep, FillOutputAtUserFuncContextStep, DeleteStep, StutterStep, Zenon
   DEF Next

(* The inductive invariant holds in every reachable state.                 *)
THEOREM Invariance == Spec => []IInv
BY InitInvariant, NextInvariant, PTL DEF Spec

(* Every variable keeps its type.                                          *)
THEOREM TypeCorrect == Spec => []TypeOK
<1>1. IInv => TypeOK
  BY DEF IInv
<1> QED
  BY <1>1, Invariance, PTL

(* Calculate releases once whatever it makes, but for a refused RSA key,   *)
(* whichever of its steps fails.                                           *)
THEOREM Releases == Spec => []ReleasedOnce
<1>1. IInv => ReleasedOnce
  <2> SUFFICES ASSUME IInv PROVE ReleasedOnce
    OBVIOUS
  <2>1. refused \in Nat
    BY InvoiceHashAssumption DEF IInv, TypeOK
  <2>2. \A r \in Resources : Unowned(r) \in Nat
    BY <2>1 DEF Unowned
  <2>3. \A r \in Resources : live[r] >= 0
    BY <2>2 DEF IInv, LiveOK
  <2>4. ASSUME pc \in Outside, NEW r \in Resources
        PROVE  live[r] = IF r = "rsa" THEN refused ELSE 0
    <3>1. held = {} /\ pc # "assign" /\ pc # "return"
      BY <2>4 DEF IInv, HeldOK, Outside
    <3> QED
      BY <2>1, <3>1 DEF IInv, LiveOK, Unowned
  <2> QED
    BY <2>3, <2>4 DEF ReleasedOnce
<1> QED
  BY <1>1, Invariance, PTL

(* A result and every record made of one are whole: both hashes of one     *)
(* call, of a signature of 127 to 129 bytes.                               *)
THEOREM WholeResults == Spec => []ResultsAreWhole
<1>1. IInv => ResultsAreWhole
  BY DEF IInv
<1> QED
  BY <1>1, Invariance, PTL
=============================================================================
