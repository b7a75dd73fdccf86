------------------------------ MODULE ScpHeader ------------------------------
(***************************************************************************)
(* The first field of the scp "C" header: Upload formats it from the file  *)
(* mode with fmt's %#o (ssh.go line 438), and Download checks the field it *)
(* reads (line 328).  A text is a sequence of characters, and an octal     *)
(* digit is written as its value.                                          *)
(***************************************************************************)
EXTENDS Naturals, Sequences, TLAPS

\* Upload's mode parameter is a uint32.
Modes == 0..(2^32 - 1)

\* PlaceValue[k] is 8^(k-1), the value of the k-th octal digit from the
\* right; eleven digits hold every uint32.
PlaceValue ==
    <<1, 8, 64, 512, 4096, 32768, 262144, 2097152, 16777216, 134217728,
      1073741824>>

\* m has k octal digits when written without leading zeros (0 has one).
Digits(m, k) == (k = 1 \/ PlaceValue[k] <= m) /\ m < 8 * PlaceValue[k]

NumDigits(m) == CHOOSE k \in 1..11 : Digits(m, k)

\* strconv's octal digits of m, most significant first.
OctalDigits(m) ==
    LET n == NumDigits(m)
    IN  [i \in 1..n |-> (m \div PlaceValue[n + 1 - i]) % 8]

\* fmt's %#o: the digits, with a 0 put in front unless the first digit
\* already is 0 (so 0 is formatted "0").
FormatSharpOctal(m) ==
    IF OctalDigits(m)[1] = 0 THEN OctalDigits(m) ELSE <<0>> \o OctalDigits(m)

\* The header's first field as Upload writes it: "C%#o".
UploadLead(mode) == <<"C">> \o FormatSharpOctal(mode)

\* Download: a first field with len(scpMsgs[0]) != 5 or scpMsgs[0][0] != 'C'
\* is rejected with ErrSSHInvalidMessageLength.
DownloadLeadOK(f) == Len(f) = 5 /\ f[1] = "C"

-----------------------------------------------------------------------------
(* Big numerals are kept from Zenon: the steps that see them use SMT.      *)

LEMMA PlaceValues ==
    /\ PlaceValue[1] = 1 /\ PlaceValue[2] = 8 /\ PlaceValue[3] = 64
    /\ PlaceValue[4] = 512 /\ PlaceValue[5] = 4096 /\ PlaceValue[6] = 32768
    /\ PlaceValue[7] = 262144 /\ PlaceValue[8] = 2097152
    /\ PlaceValue[9] = 16777216 /\ PlaceValue[10] = 134217728
    /\ PlaceValue[11] = 1073741824
BY SMT DEF PlaceValue

LEMMA Upto11 ==
    \A j \in 1..11 : \/ j = 1 \/ j = 2 \/ j = 3 \/ j = 4 \/ j = 5 \/ j = 6
                     \/ j = 7 \/ j = 8 \/ j = 9 \/ j = 10 \/ j = 11
BY SMT

(* A number has one digit count, and its leading digit is not 0 unless it  *)
(* is 0.                                                                   *)
LEMMA DigitsUnique ==
    ASSUME NEW m \in Nat, NEW k \in 1..11, Digits(m, k)
    PROVE  /\ \A j \in 1..11 : Digits(m, j) => j = k
           /\ m # 0 => (m \div PlaceValue[k]) % 8 # 0
<1> USE DEF Digits
<1>1. CASE k = 1
  BY SMT, PlaceValues, Upto11
<1>2. CASE k = 2
  BY SMT, PlaceValues, Upto11
<1>3. CASE k = 3
  BY SMT, PlaceValues, Upto11
<1>4. CASE k = 4
  BY SMT, PlaceValues, Upto11
<1>5. CASE k = 5
  BY SMT, PlaceValues, Upto11
<1>6. CASE k = 6
  BY SMT, PlaceValues, Upto11
<1>7. CASE k = 7
  BY SMT, PlaceValues, Upto11
<1>8. CASE k = 8
  BY SMT, PlaceValues, Upto11
<1>9. CASE k = 9
  BY SMT, PlaceValues, Upto11
<1>10. CASE k = 10
  BY SMT, PlaceValues, Upto11
<1>11. CASE k = 11
  BY SMT, PlaceValues, Upto11
<1>12. QED
  BY SMT, <1>1, <1>2, <1>3, <1>4, <1>5, <1>6, <1>7, <1>8, <1>9, <1>10, <1>11, Upto11

LEMMA NumDigitsValue ==
    ASSUME NEW m \in Nat, NEW k \in 1..11, Digits(m, k)
    PROVE  NumDigits(m) = k
<1>1. NumDigits(m) \in 1..11 /\ Digits(m, NumDigits(m))
  BY Zenon DEF NumDigits
<1>2. QED
  BY <1>1, DigitsUnique

(* Every uint32 has a digit count of at most eleven. *)
LEMMA DigitsExist ==
    ASSUME NEW mode \in Modes
    PROVE  \E k \in 1..11 : Digits(mode, k)
<1>1. Digits(mode, 1) \/ Digits(mode, 2) \/ Digits(mode, 3) \/ Digits(mode, 4) \/ Digits(mode, 5) \/ Digits(mode, 6) \/ Digits(mode, 7) \/ Digits(mode, 8) \/ Digits(mode, 9) \/ Digits(mode, 10) \/ Digits(mode, 11)
  BY SMT, PlaceValues DEF Digits, Modes
<1>2. QED
  <2>1. CASE Digits(mode, 1)
    BY <2>1
  <2>2. CASE Digits(mode, 2)
    BY <2>2
  <2>3. CASE Digits(mode, 3)
    BY <2>3
  <2>4. CASE Digits(mode, 4)
    BY <2>4
  <2>5. CASE Digits(mode, 5)
    BY <2>5
  <2>6. CASE Digits(mode, 6)
    BY <2>6
  <2>7. CASE Digits(mode, 7)
    BY <2>7
  <2>8. CASE Digits(mode, 8)
    BY <2>8
  <2>9. CASE Digits(mode, 9)
    BY <2>9
  <2>10. CASE Digits(mode, 10)
    BY <2>10
  <2>11. CASE Digits(mode, 11)
    BY <2>11
  <2>12. QED
    BY <1>1, <2>1, <2>2, <2>3, <2>4, <2>5, <2>6, <2>7, <2>8, <2>9, <2>10, <2>11

(* The field %#o writes for a mode of k digits. *)
LEMMA FormatLength ==
    ASSUME NEW m \in Nat, NEW k \in 1..11, Digits(m, k)
    PROVE  /\ m = 0 => FormatSharpOctal(m) = <<0>>
           /\ m # 0 => Len(FormatSharpOctal(m)) = k + 1
<1>1. NumDigits(m) = k
  BY NumDigitsValue
<1>2. OctalDigits(m) = [i \in 1..k |-> (m \div PlaceValue[k + 1 - i]) % 8]
  BY <1>1 DEF OctalDigits
<1>3. OctalDigits(m)[1] = (m \div PlaceValue[k]) % 8
  BY <1>2, SMT
<1>4. CASE m = 0
  <2>1. k = 1
    BY <1>4, DigitsUnique, SMT, PlaceValues DEF Digits
  <2>2. QED
    BY <1>2, <1>4, <2>1, SMT, PlaceValues DEF FormatSharpOctal
<1>5. CASE m # 0
  <2>1. OctalDigits(m)[1] # 0
    BY <1>3, <1>5, DigitsUnique
  <2>2. QED
    BY <1>2, <1>5, <2>1, SMT DEF FormatSharpOctal
<1>6. QED
  BY <1>4, <1>5

(* Download accepts the header field Upload writes, and so does OpenSSH's *)
(* scp -t, which wants exactly four octal digits, exactly for the modes   *)
(* 0100 to 0777.  A mode with the setuid, setgid or sticky bit (five      *)
(* digits and more) or below 0100 (fewer than four) makes a header that   *)
(* scp -t refuses and Download's own check would reject.                  *)
THEOREM UploadLeadAccepted ==
    ASSUME NEW mode \in Modes
    PROVE  DownloadLeadOK(UploadLead(mode)) <=> mode \in 64..511
<1>1. PICK k \in 1..11 : Digits(mode, k)
  BY DigitsExist
<1>2. mode \in Nat
  BY SMT DEF Modes
<1>3. UploadLead(mode)[1] = "C" /\ Len(UploadLead(mode)) = 1 + Len(FormatSharpOctal(mode))
  BY DEF UploadLead
<1>4. CASE mode = 0
  <2>1. FormatSharpOctal(mode) = <<0>>
    BY <1>1, <1>2, <1>4, FormatLength
  <2>2. Len(UploadLead(mode)) = 2
    BY <1>3, <2>1
  <2>3. mode \notin 64..511
    BY <1>4, SMT
  <2>4. QED
    BY <2>2, <2>3 DEF DownloadLeadOK
<1>5. CASE mode # 0
  <2>0. Len(FormatSharpOctal(mode)) = k + 1
    BY <1>1, <1>2, <1>5, FormatLength
  <2>1. Len(UploadLead(mode)) = k + 2
    BY <1>3, <2>0, SMT
  <2>2. mode \in 64..511 <=> Digits(mode, 3)
    BY <1>2, SMT, PlaceValues DEF Digits
  <2>3. Digits(mode, 3) <=> k = 3
    BY <1>1, <1>2, DigitsUnique
  <2>4. QED
    BY <1>3, <2>1, <2>2, <2>3, SMT DEF DownloadLeadOK
<1>6. QED
  BY <1>4, <1>5
=============================================================================
