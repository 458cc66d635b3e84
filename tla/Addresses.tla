----------------------------- MODULE Addresses ------------------------------
(***************************************************************************)
(* Device addresses (device.go): what parseAddr makes of the text of an    *)
(* address.  A text is a sequence of characters; a character is a string   *)
(* of length one.  The device names are those of the source, the largest   *)
(* integer is in proportion.                                               *)
(***************************************************************************)
EXTENDS Integers, Sequences, FiniteSets, FiniteSetsExt, SequencesExt

CONSTANTS Texts,    \* the texts parseAddr is called with
          MaxInt    \* the largest number strconv returns

ASSUME AddressesAssumption ==
    /\ MaxInt \in Nat /\ MaxInt >= 16
    /\ \A t \in Texts : t \in Seq(STRING)

VARIABLES text,     \* the argument of the call
          parsed    \* what it returned, in a sequence

addressesVars == <<text, parsed>>

-----------------------------------------------------------------------------
(* Tables. *)

WordDevs == {<<"D">>, <<"W">>, <<"R">>, <<"Z","R">>, <<"T","N">>, <<"S","T","N">>,
             <<"C","N">>, <<"Z">>, <<"S","W">>, <<"S","D">>}

BitDevs == {<<"X">>, <<"Y">>, <<"M">>, <<"L">>, <<"B">>, <<"F">>, <<"V">>,
            <<"S","B">>, <<"S","M">>, <<"S">>, <<"D","X">>, <<"D","Y">>,
            <<"T","C">>, <<"T","S">>, <<"S","T","C">>, <<"S","T","S">>,
            <<"C","C">>, <<"C","S">>}

ValidDevs == WordDevs \cup BitDevs

HexAddrDevs == {<<"X">>, <<"Y">>, <<"B">>, <<"S","B">>, <<"W">>, <<"S","W">>,
                <<"Z","R">>, <<"D","X">>, <<"D","Y">>}

Base(dev) == IF dev \in HexAddrDevs THEN 16 ELSE 10

Digits == <<"0","1","2","3","4","5","6","7","8","9","A","B","C","D","E","F">>

DigitsOf(base) == {Digits[i] : i \in 1..base}

ValueOf(ch) == CHOOSE i \in 0..15 : Digits[i + 1] = ch

Letters == [lower |-> <<"a","b","c","d","f","k","l","m","n","r","s","t","v","w","x","y","z">>,
            upper |-> <<"A","B","C","D","F","K","L","M","N","R","S","T","V","W","X","Y","Z">>]

-----------------------------------------------------------------------------
(* The libraries parseAddr calls. *)

TrimSpace(s) ==
    LET solid == {i \in DOMAIN s : s[i] # " "}
    IN  IF solid = {} THEN <<>> ELSE SubSeq(s, Min(solid), Max(solid))

ToUpper(s) ==
    LET Upper(ch) == IF \E i \in DOMAIN Letters.lower : Letters.lower[i] = ch
                     THEN Letters.upper[CHOOSE i \in DOMAIN Letters.lower :
                                            Letters.lower[i] = ch]
                     ELSE ch
    IN  [i \in DOMAIN s |-> Upper(s[i])]

Signs == {"+", "-"}

(* An error of strconv, and every number below zero. *)
NoAddress == -1

Number(ds, base) == FoldLeft(LAMBDA acc, ch : acc * base + ValueOf(ch), 0, ds)

(* strconv.ParseInt and Atoi with their callers' check of the sign. *)
ParseInt(s, base) ==
    LET signed == s # <<>> /\ s[1] \in Signs
        ds     == IF signed THEN Tail(s) ELSE s
        n      == Number(ds, base)
    IN  IF \/ ds = <<>>
           \/ \E i \in DOMAIN ds : ds[i] \notin DigitsOf(base)
           \/ n > MaxInt
           \/ signed /\ s[1] = "-" /\ n > 0
        THEN NoAddress ELSE n

-----------------------------------------------------------------------------
(* parseAddr *)

Invalid == [ok |-> FALSE]

ParsedAddr(dev, addr, bit, nibbles) ==
    [ok |-> TRUE, device |-> dev, addr |-> addr, bit |-> bit, nibbles |-> nibbles]

(* Mutant: prefixes are tried shortest first. *)
DeviceOf_ShortestFirst(s) ==
    LET hits == {d \in ValidDevs : Len(d) > 1 /\ IsPrefix(d, s)}
    IN  IF hits = {} \/ <<s[1]>> \in ValidDevs THEN <<s[1]>>
        ELSE CHOOSE d \in hits : \A e \in hits : Len(d) <= Len(e)

(* The first hit in multiCharPrefixes, which are sorted longest first:     *)
(* names of the same length come in any order, one of them is a prefix.    *)
DeviceOf(s) ==
    LET hits == {d \in ValidDevs : Len(d) > 1 /\ IsPrefix(d, s)}
    IN  IF hits = {} THEN <<s[1]>>
        ELSE CHOOSE d \in hits : \A e \in hits : Len(d) >= Len(e)

(* K and a digit, and something behind it. *)
HasK(s) == Len(s) > 2 /\ s[1] = "K" /\ s[2] \in DigitsOf(10)

NibblesAllowed(n) == n \in 1..8

KAllowed(dev) == dev \notin WordDevs

(* The bit suffix behind the dot of rest. *)
BitAllowed(dev, suffix) ==
    dev \in WordDevs /\ Len(suffix) = 1 /\ suffix[1] \in DigitsOf(16)

ParseAddr(str) ==
    LET s       == ToUpper(TrimSpace(str))
        nibbles == IF HasK(s) THEN ValueOf(s[2]) ELSE 0
        body    == IF HasK(s) THEN SubSeq(s, 3, Len(s)) ELSE s
        dev     == DeviceOf(body)
        rest    == SubSeq(body, Len(dev) + 1, Len(body))
        dotted  == \E i \in DOMAIN rest : rest[i] = "."
        dot     == IF dotted THEN Min({i \in DOMAIN rest : rest[i] = "."})
                   ELSE Len(rest) + 1
        suffix  == SubSeq(rest, dot + 1, Len(rest))
        addr    == ParseInt(SubSeq(rest, 1, dot - 1), Base(dev))
    IN  IF \/ HasK(s) /\ ~NibblesAllowed(nibbles)
           \/ Len(body) < 2
           \/ dev \notin ValidDevs
           \/ dotted /\ ~BitAllowed(dev, suffix)
           \/ nibbles > 0 /\ ~KAllowed(dev)
           \/ addr = NoAddress
        THEN Invalid
        ELSE ParsedAddr(dev, addr, IF dotted THEN ValueOf(suffix[1]) ELSE -1, nibbles)

AddressesInit == text \in Texts /\ parsed = <<>>

Parse == parsed = <<>> /\ parsed' = <<ParseAddr(text)>> /\ UNCHANGED text

AddressesSpec == AddressesInit /\ [][Parse]_addressesVars

-----------------------------------------------------------------------------
(* Properties. *)

(* The ways to cut s into the parts of an address of README.md:278-330:   *)
(* K<n>, the name of a device up to dev, a number in that device's base up *)
(* to num, a dot and a bit, wherever one ends and the next begins.         *)
DeviceIn(s, cut)  == SubSeq(s, cut.k + 1, cut.dev)
NumberIn(s, cut)  == ParseInt(SubSeq(s, cut.dev + 1, cut.num), Base(DeviceIn(s, cut)))
BitIn(s, cut)     == IF cut.num = Len(s) THEN -1 ELSE ValueOf(s[cut.num + 2])
NibblesIn(s, cut) == IF cut.k = 0 THEN 0 ELSE ValueOf(s[2])

Cuts(s) == {cut \in [k : {0, 2}, dev : 0..Len(s), num : 0..Len(s)] :
    /\ cut.k < cut.dev /\ cut.dev < cut.num
    /\ DeviceIn(s, cut) \in ValidDevs
    /\ NumberIn(s, cut) # NoAddress
    /\ cut.k = 2 => /\ s[1] = "K" /\ s[2] \in {Digits[i] : i \in 2..9}
                    /\ DeviceIn(s, cut) \in BitDevs
    /\ cut.num < Len(s) => /\ cut.num + 2 = Len(s)
                           /\ s[cut.num + 1] = "." /\ s[cut.num + 2] \in DigitsOf(16)
                           /\ DeviceIn(s, cut) \in WordDevs}

Readings(s) ==
    {ParsedAddr(DeviceIn(s, cut), NumberIn(s, cut), BitIn(s, cut), NibblesIn(s, cut)) : cut \in Cuts(s)}

(* A text has at most one reading, and parseAddr finds it: no address is   *)
(* refused for being read another way first, none is taken for another     *)
(* device's, whichever prefixes and digits the names share (X0 and DX0,    *)
(* S1 and SB1, B0 and SB0), and nothing else is accepted.                  *)
ReadsAsWritten ==
    parsed # <<>> =>
       Readings(ToUpper(TrimSpace(text))) = (IF parsed[1] = Invalid THEN {} ELSE {parsed[1]})

=============================================================================
