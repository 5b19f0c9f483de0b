------------------------------ MODULE Versions ------------------------------
(***************************************************************************)
(* version: a version is a sequence of tokens between dots, compared token *)
(* by token.  A token is a record: how its leading digits are written      *)
(* ("none", "plain" or "padded" with a zero), their value, and its suffix, *)
(* 0 for the empty one and else its rank among the suffixes, which start   *)
(* with a letter.  Blanks around a token, which Compare trims, are left    *)
(* out.                                                                    *)
(***************************************************************************)
EXTENDS Integers, Sequences

CONSTANTS Tokens,       \* the tokens that occur
          MaxTokens,    \* bound of the length of a version
          MaxAtoi       \* math.MaxInt, at which strconv.Atoi saturates

Token == [digits : {"none", "plain", "padded"}, number : Nat, suffix : Nat]

ASSUME VersionsAssumption ==
  /\ MaxTokens \in Nat /\ MaxAtoi \in Nat
  /\ Tokens \subseteq Token
  /\ \A t \in Tokens : t.digits = "none" => t.number = 0

VARIABLES version,      \* the field of the Version object
          asked,        \* the argument of the last Compare
          compared      \* and its result

versionVars == <<version, asked, compared>>

\* The word "development" is a version of its own.
development == <<[digits |-> "none", number |-> 0, suffix |-> 999]>>
Zero        == [digits |-> "plain", number |-> 0, suffix |-> 0]
Versions    == {development} \union UNION {[1..n -> Tokens] : n \in 1..MaxTokens}

\* splitNumberAndSuffix and strconv.Atoi, whose error is ignored: a token
\* without digits counts as 0, a number too large as the largest int.
Atoi(token) == IF token.number > MaxAtoi THEN MaxAtoi ELSE token.number

Sign(i) == IF i > 0 THEN 1 ELSE IF i < 0 THEN -1 ELSE 0

\* strings.Compare of two different tokens of equal value that both have a
\* suffix: "0" sorts before the digits, and digits before letters.
Spelling == [padded |-> 0, plain |-> 1, none |-> 2]
StringCompare(token1, token2) ==
  IF token1.digits # token2.digits
    THEN Sign(Spelling[token1.digits] - Spelling[token2.digits])
    ELSE IF token1.number # token2.number
           THEN Sign(token1.number - token2.number)
           ELSE Sign(token1.suffix - token2.suffix)

\* Mutation: a suffix makes a version lower, on one side only.
compareTokens_SuffixLower(token1, token2) ==
  CASE token1 = token2 -> 0
    [] token1 # token2 /\ Atoi(token1) # Atoi(token2) -> Sign(Atoi(token1) - Atoi(token2))
    [] token1 # token2 /\ Atoi(token1) = Atoi(token2) /\ token1.suffix = 0 -> -1
    [] OTHER -> StringCompare(token1, token2)

compareTokens(token1, token2) ==
  IF token1 = token2 THEN 0
  ELSE IF Atoi(token1) # Atoi(token2) THEN Sign(Atoi(token1) - Atoi(token2))
  ELSE IF token1.suffix = 0 THEN -1
  ELSE IF token2.suffix = 0 THEN 1
  ELSE StringCompare(token1, token2)

TokenAt(v, i) == IF i <= Len(v) THEN v[i] ELSE Zero

Longer(v, w) == IF Len(v) > Len(w) THEN Len(v) ELSE Len(w)

\* The positions at which the loop would stop, and the first of them.
Differences(ver1, v) ==
  {i \in 1..Longer(ver1, v) : compareTokens(TokenAt(ver1, i), TokenAt(v, i)) # 0}

First(positions) == CHOOSE i \in positions : \A j \in positions : i <= j

CompareVersions(ver1, v) ==
  IF ver1 = v THEN 0
  ELSE IF ver1 = development THEN 1
  ELSE IF v = development THEN -1
  ELSE IF Differences(ver1, v) = {} THEN 0
  ELSE LET i == First(Differences(ver1, v))
       IN  compareTokens(TokenAt(ver1, i), TokenAt(v, i))

AtLeast(v, minVersion) == CompareVersions(minVersion, v) <= 0

VersionInit == version = development /\ asked = development /\ compared = 0

SetVersion ==
  /\ version' \in Versions
  /\ asked' = version' /\ compared' = 0

Compare ==
  /\ asked' \in Versions
  /\ compared' = CompareVersions(asked', version)
  /\ UNCHANGED version

VersionNext == SetVersion \/ Compare
VersionSpec == VersionInit /\ [][VersionNext]_versionVars

-----------------------------------------------------------------------------
\* Tokens whose spelling is determined by what Compare looks at: without a
\* suffix the digits are there, not padded and not too large for an int.  "" and
\* "0", or "01" and "1", are each less than the other.
Canonical(token)     == token.suffix = 0 => token.digits = "plain" /\ token.number <= MaxAtoi
CanonicalVersion(v)  == \A i \in 1..Len(v) : Canonical(v[i])

VersionTypeOK ==
  version \in Versions /\ asked \in Versions /\ compared \in {-1, 0, 1}

(* Compare is an order on canonical versions, whatever their lengths:      *)
(* swapping the versions swaps the answer, and AtLeast is transitive.      *)
TotalOrder ==
  CanonicalVersion(version) /\ CanonicalVersion(asked) =>
    /\ compared = - CompareVersions(version, asked)
    /\ \A w \in Versions :
         CanonicalVersion(w) /\ AtLeast(version, asked) /\ AtLeast(asked, w)
           => AtLeast(version, w)

(* A version and the same one followed by a zero token compare alike with  *)
(* any other, so "1.2" and "1.2.0" are one release; "development" is above *)
(* everything.                                                             *)
TrailingZeros ==
  /\ version # development /\ asked # development
       => CompareVersions(asked, Append(version, Zero)) = compared
  /\ version = development => compared <= 0
  /\ asked = development => compared >= 0

(* Compare orders releases: callers sort by it.                            *)
ReleaseOrder == TotalOrder /\ TrailingZeros
=============================================================================
