--------------------------- MODULE KeystoreProofs ----------------------------
(* Theorems about the key file for any number of workers, cleaners, keys    *)
(* and kills.                                                               *)
EXTENDS Keystore, TLAPS

(* A sealed file, and the memory of a worker that has fetched, hold a key   *)
(* the source has had, or a blank one; to be used it must not be blank.     *)
Held ==
  /\ file.key <= current
  /\ \A w \in Worker : key[w] <= current
  /\ \A w \in Worker : wpc[w] = "use" => key[w] # NoKey

IInv == TypeOK /\ Held

LEMMA InitInv == Init => IInv
<1> SUFFICES ASSUME Init PROVE IInv
  OBVIOUS
<1> USE KeystoreAssumption DEF Key, NoKey
<1>1. file \in [text : {"none", "empty", "torn", "sealed"}, key : Key, old : BOOLEAN] /\ file.key = 0
  <2>1. CASE file = NoFile
    BY <2>1 DEF NoFile
  <2>2. CASE file \in [text : {"empty", "torn", "sealed"}, key : {NoKey}, old : BOOLEAN]
    BY <2>2
  <2> QED
    BY <2>1, <2>2 DEF Init
<1> QED
  BY <1>1 DEF Init, IInv, TypeOK, Held

LEMMA IInvStep ==
  ASSUME IInv, [Next]_vars
  PROVE  IInv'
<1> USE KeystoreAssumption DEF IInv, Key, NoKey
<1>0. Decrypt(file) \in Key /\ Decrypt(file) <= current
  BY DEF Decrypt, TypeOK, Held
<1>1. ASSUME NEW w \in Worker, Check(w)
      PROVE  IInv'
  BY <1>1 DEF Check, Goto, TypeOK, Held
<1>2. ASSUME NEW w \in Worker, ReadKey(w)
      PROVE  IInv'
  <2>1. key' \in [Worker -> Key] /\ \A v \in Worker : key'[v] <= current
    BY <1>0, <1>2 DEF ReadKey, TypeOK, Held
  <2>2. wpc' = [wpc EXCEPT ![w] = IF key'[w] = 0 THEN "fetch" ELSE "use"]
    BY <1>2 DEF ReadKey, Goto
  <2>3. TypeOK'
    BY <1>2, <2>1, <2>2 DEF ReadKey, TypeOK
  <2>4. \A v \in Worker : wpc'[v] = "use" => key'[v] # 0
    BY <1>2, <2>2 DEF ReadKey, TypeOK, Held
  <2> QED
    BY <1>2, <2>1, <2>3, <2>4 DEF ReadKey, Held
<1>3. ASSUME NEW w \in Worker, FetchFails(w)
      PROVE  IInv'
  BY <1>3 DEF FetchFails, Goto, TypeOK, Held
<1>4. ASSUME NEW w \in Worker, Fetch(w)
      PROVE  IInv'
  BY <1>4 DEF Fetch, Goto, TypeOK, Held
<1>5. ASSUME NEW w \in Worker, Open(w)
      PROVE  IInv'
  BY <1>5 DEF Open, Goto, TypeOK, Held, EmptyFile
<1>6. ASSUME NEW w \in Worker, Write(w)
      PROVE  IInv'
  <2>1. file' \in [text : {"none", "empty", "torn", "sealed"}, key : Key, old : BOOLEAN]
        /\ file'.key <= current
    <3>1. key[w] \in Key /\ key[w] <= current
      BY DEF TypeOK, Held
    <3>2. CASE wpc[w] = "write"
      <4>1. file' = Sealed(key[w]) \/ file' = TornFile
        BY <1>6, <3>2 DEF Write, Written
      <4>2. CASE file' = Sealed(key[w])
        BY <3>1, <4>2 DEF Sealed
      <4>3. CASE file' = TornFile
        <5>1. current >= 0 /\ 0 \in Key
          BY DEF TypeOK
        <5> QED
          BY <4>3, <5>1 DEF TornFile
      <4> QED
        BY <4>1, <4>2, <4>3
    <3>3. CASE wpc[w] # "write"
      BY <1>6, <3>3 DEF Write, TypeOK, Held
    <3> QED
      BY <3>2, <3>3
  <2> QED
    BY <1>6, <2>1 DEF Write, Goto, TypeOK, Held
<1>7. ASSUME NEW w \in Worker, Verify(w)
      PROVE  IInv'
  BY <1>7 DEF Verify, Goto, TypeOK, Held
<1>8. ASSUME NEW w \in Worker, Use(w)
      PROVE  IInv'
  BY <1>8 DEF Use, Goto, TypeOK, Held
<1>9. ASSUME NEW w \in Worker, Replace(w)
      PROVE  IInv'
  BY <1>9 DEF Replace, Goto, TypeOK, Held
<1>10. ASSUME NEW c \in Cleaner, Stat(c)
       PROVE  IInv'
  BY <1>10 DEF Stat, TypeOK, Held
<1>11. ASSUME NEW c \in Cleaner, Unlink(c)
       PROVE  IInv'
  BY <1>11 DEF Unlink, NoFile, TypeOK, Held
<1>12. CASE Day
  BY <1>12 DEF Day, TypeOK, Held
<1>13. CASE Rotate
  BY <1>13 DEF Rotate, TypeOK, Held
<1>14. CASE UNCHANGED vars
  BY <1>14 DEF vars, TypeOK, Held
<1> QED
  BY <1>1, <1>2, <1>3, <1>4, <1>5, <1>6, <1>7, <1>8, <1>9, <1>10, <1>11, <1>12, <1>13, <1>14
     DEF Next, Work, Clean

(* The types of the key file and of its workers (functions.php 48-66, 1393). *)
THEOREM SpecTypeOK == Spec => []TypeOK
<1>1. IInv /\ [Next]_vars => IInv'
  BY IInvStep
<1> QED
  BY InitInv, <1>1, PTL DEF Spec, IInv

(* A worker only ever decrypts with a key the source has had (dazn.php       *)
(* 84-116), whichever files are deleted, cut off or written twice.           *)
THEOREM SpecUsesSourceKey == Spec => []UsesSourceKey
<1>1. IInv /\ [Next]_vars => IInv'
  BY IInvStep
<1>2. IInv => UsesSourceKey
  BY KeystoreAssumption DEF IInv, Held, TypeOK, UsesSourceKey, Key, NoKey
<1> QED
  BY InitInv, <1>1, <1>2, PTL DEF Spec

=============================================================================
