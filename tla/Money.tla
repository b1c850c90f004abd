------------------------------- MODULE Money -------------------------------
(***************************************************************************)
(* The amounts of money/money.go and installment/money.go, in integers of  *)
(* W value bits.  A decimal text is split the way both parsers split it:   *)
(* its sign, its digits before and after the point.  Minus is a further    *)
(* minus sign, Bad any other character below '0' but '+'.  A result is     *)
(* [ok, n].                                                                *)
(***************************************************************************)
EXTENDS Int64, Sequences, SequencesExt

CONSTANTS Minus, Bad

Ok(n) == [ok |-> TRUE, n |-> n]
Err == [ok |-> FALSE, n |-> 0]

\* A text; point: it contains a decimal point.
Texts(D, i, f) ==
    LET digits(k) == SeqOf(D \cup {Minus, Bad}, k)
    IN  {t \in [sign : {"", "+", "-"}, int : digits(i), point : BOOLEAN, frac : digits(f)] :
            /\ t.point \/ t.frac = <<>>
            /\ t.sign = "" /\ t.int # <<>> => t.int[1] # Minus}

Valid(digits) == \A i \in DOMAIN digits : digits[i] \notin {Minus, Bad}

\* The number that digits spell, and 10^k.
Number(digits) ==
    LET n[k \in 0..Len(digits)] == IF k = 0 THEN 0 ELSE n[k - 1] * 10 + digits[k]
    IN  n[Len(digits)]

TenTo(k) == LET p[j \in 0..k] == IF j = 0 THEN 1 ELSE p[j - 1] * 10 IN p[k]

-----------------------------------------------------------------------------
(* money.Money: an amount and a currency                                   *)

\* Seeded fault: the overflow test of unsigned addition.
AddUnsigned(m, o) ==
    LET sum == Wrap(m.minor + o.minor)
    IN  IF m.code # o.code \/ sum < m.minor THEN Err ELSE Ok(sum)

Add(m, o) ==
    LET sum == Wrap(m.minor + o.minor)
    IN  IF m.code # o.code THEN Err
        ELSE IF (m.minor < 0) = (o.minor < 0) /\ (m.minor < 0) # (sum < 0) THEN Err
        ELSE Ok(sum)

Sub(m, o) ==
    LET diff == Wrap(m.minor - o.minor)
    IN  IF m.code # o.code THEN Err
        ELSE IF (m.minor < 0) # (o.minor < 0) /\ (m.minor < 0) # (diff < 0) THEN Err
        ELSE Ok(diff)

Mul(m, n) ==
    LET prod == Wrap(m.minor * n)
        corner == (m.minor = MinInt /\ n = -1) \/ (n = MinInt /\ m.minor = -1)
    IN  IF m.minor = 0 \/ n = 0 THEN Ok(0)
        ELSE IF corner \/ Wrap(Quo(prod, n)) # m.minor THEN Err
        ELSE Ok(prod)

\* minor*10 + d, digit by digit, until a digit is bad or next < minor.
accumulate(r, d) ==
    LET next == Wrap(r.n * 10 + d)
    IN  IF ~r.ok \/ d \in {Minus, Bad} \/ next < r.n THEN Err ELSE Ok(next)

readInt(digits) ==
    LET r[k \in 0..Len(digits)] == IF k = 0 THEN Ok(0) ELSE accumulate(r[k - 1], digits[k])
    IN  r[Len(digits)]

\* The loop over the fraction has no overflow test, but the fraction is never
\* longer than the decimals.
readFrac(digits) ==
    LET n[k \in 0..Len(digits)] == IF k = 0 THEN 0 ELSE Wrap(n[k - 1] * 10 + digits[k])
    IN  n[Len(digits)]

\* ParseMajor.  The shift into minor units wraps.
ParseMajor(t, decimals) ==
    LET int == readInt(t.int)
        frac == Wrap(readFrac(t.frac) * TenTo(decimals - Len(t.frac)))
    IN  IF (t.int = <<>> /\ t.frac = <<>>) \/ Len(t.frac) > decimals \/ ~int.ok
           \/ ~Valid(t.frac)
        THEN Err
        ELSE LET minor == Wrap(int.n * TenTo(decimals) + frac)
             IN  Ok(IF t.sign = "-" THEN Wrap(-minor) ELSE minor)

-----------------------------------------------------------------------------
(* installment.Money: kopecks                                              *)

\* External: strconv.ParseInt, which takes a sign and refuses what does not fit.
ParseInt(s) ==
    LET neg == s # <<>> /\ s[1] = Minus
        digits == IF neg THEN Tail(s) ELSE s
        abs == Number(digits)
        n == IF neg THEN -abs ELSE abs
    IN  IF digits # <<>> /\ Valid(digits) /\ Fits(n) THEN Ok(n) ELSE Err

\* String: the sign, the hryvnias and two digits of kopecks.
String(kopecks) ==
    LET neg == kopecks < 0
        abs == IF neg THEN Wrap(-kopecks) ELSE kopecks
    IN  [neg |-> neg, hr |-> Quo(abs, 100), kop |-> abs - 100 * Quo(abs, 100)]

\* Seeded fault: digits after the second are cut off.
fractionCut(frac) ==
    IF frac = <<>> THEN Ok(0)
    ELSE IF Len(frac) = 1 THEN ParseInt(frac \o <<0>>)
    ELSE ParseInt(SubSeq(frac, 1, 2))

\* The kopecks of a fraction: padded to two digits, rounded half up on the third.
fraction(frac) ==
    IF frac = <<>> THEN Ok(0)
    ELSE IF Len(frac) = 1 THEN ParseInt(frac \o <<0>>)
    ELSE LET two == ParseInt(SubSeq(frac, 1, 2))
         IN  IF Len(frac) > 2 /\ Valid(<<frac[3]>>) /\ frac[3] >= 5 /\ two.ok THEN Ok(two.n + 1)
             ELSE two

\* parseDecimalKopecks.  A missing integer part is 0; only the third digit of a
\* long fraction is looked at.
parseDecimalKopecks(t) ==
    LET hr == IF t.int = <<>> THEN Ok(0) ELSE ParseInt(t.int)
        kop == fraction(t.frac)
        total == Wrap(hr.n * 100 + kop.n)
    IN  IF (t.int = <<>> /\ ~t.point) \/ ~hr.ok \/ ~kop.ok \/ hr.n < 0 THEN Err
        ELSE Ok(IF t.sign = "-" THEN Wrap(-total) ELSE total)
=============================================================================
