--------------------------- MODULE UtilitiesProofs ---------------------------
(***************************************************************************)
(* Proofs about the components of MCUtilities other than the cache: the    *)
(* retry executor for any number of retries, versions of any length,       *)
(* conversions of any width, walks, moves and copies of any tree, and the  *)
(* types of all that MCUtilities puts side by side.                        *)
(***************************************************************************)
EXTENDS MCUtilities, CacheProofs, SequenceTheorems, FiniteSetTheorems,
        FunctionTheorems, WellFoundedInduction, TLAPS

-----------------------------------------------------------------------------
(* Numbers and trees.                                                      *)

\* A nonempty set of natural numbers has a least element.
LEMMA LeastExists ==
  ASSUME NEW S, S \subseteq Nat, S # {}
  PROVE  \E e \in S : \A f \in S : e <= f
<1> DEFINE R == OpToRel(<, Nat)
<1>1. IsWellFoundedOn(R, Nat)
  BY NatLessThanWellFounded
<1>2. PICK e \in S : \A f \in S : <<f, e>> \notin R
  <2> HIDE DEF R
  <2> QED BY <1>1, WFMin
<1>3. \A f \in S : ~(f < e)
  BY <1>2 DEF OpToRel
<1> QED
  BY <1>3

\* In a tree an entry comes after its parent.
LEMMA ParentsFirst ==
  ASSUME NEW t \in Trees, NEW e \in Entries \ {Top}
  PROVE  t.parent[e] < e
BY DEF Trees

\* What is reached from an entry has it, and all that is next to what it has; it is
\* the least such set.
LEMMA ReachedFacts ==
  ASSUME NEW a \in Entries, NEW next \in [Entries -> SUBSET Entries]
  PROVE  /\ Reached(a, next) \subseteq Entries /\ a \in Reached(a, next)
         /\ \A x \in Reached(a, next) : next[x] \subseteq Reached(a, next)
<1>1. Reached(a, next) \subseteq Entries /\ a \in Reached(a, next)
  BY DEF Reached
<1>2. ASSUME NEW x \in Reached(a, next), NEW z \in next[x] PROVE z \in Reached(a, next)
  <2>1. x \in Entries /\ z \in Entries
    BY <1>1, <1>2
  <2>2. ASSUME NEW V \in SUBSET Entries, a \in V, \A y \in V : next[y] \subseteq V PROVE z \in V
    <3>1. x \in V
      BY <2>2 DEF Reached
    <3> QED
      BY <2>2, <3>1
  <2> QED
    BY <2>1, <2>2 DEF Reached
<1> QED
  BY <1>1, <1>2

LEMMA ReachedLeast ==
  ASSUME NEW a, NEW next, NEW V \in SUBSET Entries, a \in V, \A y \in V : next[y] \subseteq V
  PROVE  Reached(a, next) \subseteq V
BY DEF Reached

-----------------------------------------------------------------------------
(* The retry executor.                                                     *)

\* A call starts at attempt 0, and has no result while it runs.
RunningCall ==
  /\ retryAt = "idle" => attempt = 0
  /\ retryAt = "check" => answer.shouldRetry
  /\ retryAt # "returned" => execErr = "nil"

\* An attempt that begins after the cancellation is followed by the test of the
\* context, which ends the call.
LateAttempt ==
  late # 0 => late = 1 /\ context = "cancelled" /\ retryAt \in {"check", "returned"}

RetryInv == RetryTypeOK /\ RunningCall /\ LateAttempt /\ NilMeansDone

\* The invariant holds at the beginning.
LEMMA RetryInvInit == RetryInit => RetryInv
BY RetryAssumption DEF RetryInit, RetryInv, RetryTypeOK, RunningCall, LateAttempt, NilMeansDone,
                       Executors, Answers, NoAnswer

\* It is kept by every step.
LEMMA RetryInvStep == RetryInv /\ [RetryNext]_retryVars => RetryInv'
<1> SUFFICES ASSUME RetryInv, [RetryNext]_retryVars PROVE RetryInv'
  OBVIOUS
<1> USE DEF RetryInv, RetryTypeOK, RunningCall, LateAttempt, NilMeansDone, Executors, Answers
<1>1. CASE Execute
  BY <1>1, RetryAssumption DEF Execute
<1>2. CASE ExecutionHandler
  BY <1>2, RetryAssumption DEF ExecutionHandler, ExecutionEnds
<1>3. CASE checkCancelled
  BY <1>3, RetryAssumption DEF checkCancelled, CheckAndPause, ExecutionEnds
<1>4. CASE SleepEnds
  BY <1>4 DEF SleepEnds
<1>5. CASE GiveUp
  BY <1>5, RetryAssumption DEF GiveUp, ExecutionEnds
<1>6. CASE ContextEnds
  BY <1>6 DEF ContextEnds
<1>7. CASE ExecuteReturns
  BY <1>7, RetryAssumption DEF ExecuteReturns, NoAnswer
<1>8. CASE UNCHANGED retryVars
  BY <1>8 DEF retryVars
<1> QED
  BY <1>1, <1>2, <1>3, <1>4, <1>5, <1>6, <1>7, <1>8 DEF RetryNext, RetryStep

\* It implies what a caller relies on.
LEMMA RetryInvHonest == RetryInv => HonestResult
BY DEF RetryInv, RetryTypeOK, LateAttempt, HonestResult, CancelHeeded

(* After a cancellation at most one more attempt begins, and the result of *)
(* Execute says what happened, for every number of retries and whenever    *)
(* the context ends.                                                       *)
THEOREM ResultHonest == RetrySpec => []HonestResult
BY RetryInvInit, RetryInvStep, RetryInvHonest, PTL DEF RetrySpec

-----------------------------------------------------------------------------
(* Versions.                                                               *)

\* The tokens that versions consist of.
OfToken == {t \in Token : t.digits = "none" => t.number = 0}
Canonicals == {t \in OfToken : Canonical(t)}

\* Comparing tokens gives a sign.
LEMMA TokenSign ==
  ASSUME NEW a \in OfToken, NEW b \in OfToken
  PROVE  compareTokens(a, b) \in {-1, 0, 1}
<1>1. Atoi(a) \in Int /\ Atoi(b) \in Int
  BY VersionsAssumption DEF Atoi, OfToken, Token
<1>2. \A i \in Int : Sign(i) \in {-1, 0, 1}
  BY DEF Sign
<1>3. \A d \in {"none", "plain", "padded"} : Spelling[d] \in Int
  BY DEF Spelling
<1>4. StringCompare(a, b) \in {-1, 0, 1}
  BY <1>2, <1>3 DEF StringCompare, OfToken, Token
<1> QED
  BY <1>1, <1>2, <1>4 DEF compareTokens

\* Canonical tokens are compared by what Compare looks at: their value, whether
\* they have a suffix, how their digits are spelled, and the suffix.
LEMMA TokenOrder ==
  ASSUME NEW a \in Canonicals, NEW b \in Canonicals
  PROVE  /\ compareTokens(a, b) = 0 <=> a = b
         /\ compareTokens(a, b) = -1 <=>
              \/ Atoi(a) < Atoi(b)
              \/ /\ Atoi(a) = Atoi(b)
                 /\ \/ a.suffix = 0 /\ b.suffix # 0
                    \/ /\ a.suffix # 0 /\ b.suffix # 0
                       /\ \/ Spelling[a.digits] < Spelling[b.digits]
                          \/ /\ a.digits = b.digits
                             /\ \/ a.number < b.number
                                \/ a.number = b.number /\ a.suffix < b.suffix
         /\ compareTokens(a, b) = 1 <=> compareTokens(b, a) = -1
<1>1. Atoi(a) \in Int /\ Atoi(b) \in Int
  BY VersionsAssumption DEF Atoi, Canonicals, OfToken, Token
<1>2. /\ \A i \in Int : Sign(i) = -1 <=> i < 0
      /\ \A i \in Int : Sign(i) = 1 <=> i > 0
      /\ \A i \in Int : Sign(i) = 0 <=> i = 0
  BY DEF Sign
<1>3. /\ \A d \in {"none", "plain", "padded"} : Spelling[d] \in Int
      /\ \A d, e \in {"none", "plain", "padded"} : Spelling[d] = Spelling[e] => d = e
  BY DEF Spelling
<1>4. a \in Token /\ b \in Token
  BY DEF Canonicals, OfToken
<1>5. a = b <=> a.digits = b.digits /\ a.number = b.number /\ a.suffix = b.suffix
  BY <1>4 DEF Token
<1>6. a.suffix = 0 /\ b.suffix = 0 /\ Atoi(a) = Atoi(b) => a = b
  BY <1>4, <1>5, VersionsAssumption DEF Canonicals, Canonical, Atoi, Token
<1>7. CASE Atoi(a) # Atoi(b)
  BY <1>7, <1>1, <1>2 DEF compareTokens
<1>8. CASE Atoi(a) = Atoi(b) /\ (a.suffix = 0 \/ b.suffix = 0)
  BY <1>8, <1>1, <1>6 DEF compareTokens
<1>9. CASE Atoi(a) = Atoi(b) /\ a.suffix # 0 /\ b.suffix # 0
  <2>1. /\ a.digits \in {"none", "plain", "padded"} /\ b.digits \in {"none", "plain", "padded"}
        /\ {a.number, b.number, a.suffix, b.suffix} \subseteq Nat
    BY <1>4 DEF Token
  <2>2. a # b => /\ compareTokens(a, b) = StringCompare(a, b)
                 /\ compareTokens(b, a) = StringCompare(b, a)
    BY <1>9 DEF compareTokens
  <2>3. a = b => compareTokens(a, b) = 0 /\ compareTokens(b, a) = 0
    BY DEF compareTokens
  <2>4. CASE a.digits # b.digits
    <3>1. StringCompare(a, b) = Sign(Spelling[a.digits] - Spelling[b.digits])
          /\ StringCompare(b, a) = Sign(Spelling[b.digits] - Spelling[a.digits])
      BY <2>4 DEF StringCompare
    <3> DEFINE x == Spelling[a.digits]
               y == Spelling[b.digits]
    <3>2. x \in Int /\ y \in Int /\ x # y
      BY <2>1, <2>4, <1>3
    <3> HIDE DEF x, y
    <3>3. /\ Sign(x - y) = -1 <=> x < y
          /\ Sign(x - y) = 1 <=> Sign(y - x) = -1
          /\ Sign(x - y) # 0
      BY <3>2, <1>2
    <3> QED
      BY <1>1, <1>9, <2>2, <2>4, <3>1, <3>3 DEF x, y
  <2>5. CASE a.digits = b.digits /\ a.number # b.number
    <3>1. StringCompare(a, b) = Sign(a.number - b.number)
          /\ StringCompare(b, a) = Sign(b.number - a.number)
      BY <2>5 DEF StringCompare
    <3>2. /\ Sign(a.number - b.number) = -1 <=> a.number < b.number
          /\ Sign(a.number - b.number) = 1 <=> Sign(b.number - a.number) = -1
          /\ Sign(a.number - b.number) # 0
      BY <2>1, <2>5, <1>2
    <3>3. ~(Spelling[a.digits] < Spelling[b.digits])
      BY <2>5, <2>1, <1>3
    <3> QED
      BY <1>1, <1>9, <2>1, <2>2, <2>5, <3>1, <3>2, <3>3
  <2>6. CASE a.digits = b.digits /\ a.number = b.number
    <3>1. StringCompare(a, b) = Sign(a.suffix - b.suffix)
          /\ StringCompare(b, a) = Sign(b.suffix - a.suffix)
      BY <2>6 DEF StringCompare
    <3>2. /\ Sign(a.suffix - b.suffix) = -1 <=> a.suffix < b.suffix
          /\ Sign(a.suffix - b.suffix) = 1 <=> Sign(b.suffix - a.suffix) = -1
          /\ Sign(a.suffix - b.suffix) = 0 <=> a.suffix = b.suffix
      BY <2>1, <1>2
    <3>3. ~(Spelling[a.digits] < Spelling[b.digits])
      BY <2>6, <2>1, <1>3
    <3> QED
      BY <1>1, <1>5, <1>9, <2>1, <2>2, <2>3, <2>6, <3>1, <3>2, <3>3
  <2> QED
    BY <2>4, <2>5, <2>6
<1> QED
  BY <1>7, <1>8, <1>9

\* Going down the order of canonical tokens twice is going down.
LEMMA TokenTransitive ==
  ASSUME NEW a \in Canonicals, NEW b \in Canonicals, NEW c \in Canonicals,
         compareTokens(a, b) = -1, compareTokens(b, c) = -1
  PROVE  compareTokens(a, c) = -1
<1>1. \A t \in Canonicals : /\ Atoi(t) \in Int /\ t.digits \in {"none", "plain", "padded"}
                            /\ t.number \in Int /\ t.suffix \in Int
  <2> SUFFICES ASSUME NEW t \in Canonicals
               PROVE  /\ Atoi(t) \in Int /\ t.digits \in {"none", "plain", "padded"}
                      /\ t.number \in Int /\ t.suffix \in Int
    OBVIOUS
  <2>1. t \in Token
    BY DEF Canonicals, OfToken
  <2> QED
    BY <2>1, VersionsAssumption DEF Atoi, Token
<1>2. \A t \in Canonicals : Spelling[t.digits] \in Int
  BY <1>1 DEF Spelling
<1> QED
  BY <1>1, <1>2, TokenOrder

\* A version other than "development" is a sequence of tokens.
Numbered == Versions \ {development}

\* It has a token at every position, "0" behind its end.
LEMMA NumberedTypes ==
  ASSUME NEW v \in Numbered
  PROVE  /\ v \in Seq(OfToken) /\ Len(v) \in Nat \ {0}
         /\ \A i \in Nat \ {0} : TokenAt(v, i) \in OfToken
<1>1. PICK n \in 1..MaxTokens : v \in [1..n -> Tokens]
  BY DEF Numbered, Versions
<1>2. Tokens \subseteq OfToken
  BY VersionsAssumption DEF OfToken
<1>3. v \in Seq(OfToken) /\ Len(v) = n
  BY <1>1, <1>2, VersionsAssumption
<1>4. Zero \in OfToken
  BY DEF Zero, OfToken, Token
<1> QED
  BY <1>1, <1>3, <1>4, VersionsAssumption DEF TokenAt

CanonicalOnes == {v \in Numbered : CanonicalVersion(v)}

\* The canonical ones consist of canonical tokens, behind their end too.
LEMMA CanonicalTypes ==
  ASSUME NEW v \in CanonicalOnes, NEW i \in Nat \ {0}
  PROVE  TokenAt(v, i) \in Canonicals
<1>1. v \in Seq(OfToken) /\ Len(v) \in Nat \ {0} /\ TokenAt(v, i) \in OfToken
  BY NumberedTypes DEF CanonicalOnes
<1>2. Canonical(Zero)
  BY VersionsAssumption DEF Canonical, Zero
<1>3. i <= Len(v) => Canonical(v[i])
  BY <1>1 DEF CanonicalOnes, CanonicalVersion
<1> QED
  BY <1>1, <1>2, <1>3 DEF Canonicals, TokenAt

\* Where two versions differ is at one of the positions that the loop goes over.
LEMMA DifferencesEverywhere ==
  ASSUME NEW v \in Numbered, NEW w \in Numbered
  PROVE  Differences(v, w) =
           {i \in Nat \ {0} : compareTokens(TokenAt(v, i), TokenAt(w, i)) # 0}
<1>1. Len(v) \in Nat /\ Len(w) \in Nat
  BY NumberedTypes
<1>2. Longer(v, w) \in Nat /\ Len(v) <= Longer(v, w) /\ Len(w) <= Longer(v, w)
  BY <1>1 DEF Longer
<1>3. ASSUME NEW i \in Nat \ {0}, i > Longer(v, w)
      PROVE  compareTokens(TokenAt(v, i), TokenAt(w, i)) = 0
  BY <1>1, <1>2, <1>3 DEF TokenAt, compareTokens
<1> QED
  BY <1>2, <1>3 DEF Differences

\* The loop stops at the first position with a difference.
LEMMA FirstDifference ==
  ASSUME NEW v \in Numbered, NEW w \in Numbered, Differences(v, w) # {}
  PROVE  LET i == First(Differences(v, w))
         IN  /\ i \in Nat \ {0} /\ i \in Differences(v, w)
             /\ \A j \in Nat \ {0} : j < i => compareTokens(TokenAt(v, j), TokenAt(w, j)) = 0
<1> DEFINE D == Differences(v, w)
<1>1. D = {i \in Nat \ {0} : compareTokens(TokenAt(v, i), TokenAt(w, i)) # 0}
  BY DifferencesEverywhere
<1> HIDE DEF D
<1>2. \E e \in D : \A f \in D : e <= f
  BY <1>1, LeastExists, D # {} DEF D
<1>3. First(D) \in D /\ \A f \in D : First(D) <= f
  BY <1>2 DEF First
<1>4. \A j \in Nat \ {0} : j < First(D) => j \notin D
  BY <1>1, <1>3
<1> QED
  BY <1>1, <1>3, <1>4 DEF D

\* Two versions have the same tokens, or the first that differ are in this order.
Same(v, w)   == \A i \in Nat \ {0} : TokenAt(v, i) = TokenAt(w, i)
Before(v, w) ==
  \E i \in Nat \ {0} :
    /\ compareTokens(TokenAt(v, i), TokenAt(w, i)) = -1
    /\ \A j \in Nat \ {0} : j < i => TokenAt(v, j) = TokenAt(w, j)

\* What the comparison of two canonical versions says of their tokens.
LEMMA Comparison ==
  ASSUME NEW v \in CanonicalOnes, NEW w \in CanonicalOnes
  PROVE  \/ CompareVersions(v, w) = 0 /\ Same(v, w)
         \/ CompareVersions(v, w) = -1 /\ Before(v, w)
         \/ CompareVersions(v, w) = 1 /\ Before(w, v)
<1>1. v \in Numbered /\ w \in Numbered /\ v # development /\ w # development
  BY DEF CanonicalOnes, Numbered
<1>2. \A i \in Nat \ {0} : TokenAt(v, i) \in Canonicals /\ TokenAt(w, i) \in Canonicals
  BY CanonicalTypes
<1>3. CASE v = w
  BY <1>3 DEF CompareVersions, Same
<1>4. CASE v # w /\ Differences(v, w) = {}
  <2>1. CompareVersions(v, w) = 0
    BY <1>1, <1>4 DEF CompareVersions
  <2>2. Same(v, w)
    BY <1>1, <1>2, <1>4, DifferencesEverywhere, TokenOrder DEF Same
  <2> QED
    BY <2>1, <2>2
<1>5. CASE v # w /\ Differences(v, w) # {}
  <2> DEFINE i == First(Differences(v, w))
  <2>1. CompareVersions(v, w) = compareTokens(TokenAt(v, i), TokenAt(w, i))
    BY <1>1, <1>5 DEF CompareVersions
  <2>2. /\ i \in Nat \ {0} /\ compareTokens(TokenAt(v, i), TokenAt(w, i)) # 0
        /\ \A j \in Nat \ {0} : j < i => compareTokens(TokenAt(v, j), TokenAt(w, j)) = 0
    BY <1>1, <1>5, FirstDifference DEF Differences
  <2> HIDE DEF i
  <2>3. \A j \in Nat \ {0} : j < i => TokenAt(v, j) = TokenAt(w, j)
    BY <1>2, <2>2, TokenOrder
  <2>4. compareTokens(TokenAt(v, i), TokenAt(w, i)) \in {-1, 0, 1}
    BY <1>2, <2>2, TokenSign DEF Canonicals
  <2>5. CASE compareTokens(TokenAt(v, i), TokenAt(w, i)) = -1
    BY <2>1, <2>2, <2>3, <2>5 DEF Before
  <2>6. CASE compareTokens(TokenAt(v, i), TokenAt(w, i)) = 1
    <3>1. compareTokens(TokenAt(w, i), TokenAt(v, i)) = -1
      BY <1>2, <2>2, <2>6, TokenOrder
    <3> QED
      BY <2>1, <2>2, <2>3, <2>6, <3>1 DEF Before
  <2> QED
    BY <2>2, <2>4, <2>5, <2>6
<1> QED
  BY <1>3, <1>4, <1>5

\* No two versions are each before the other, or before and the same.
LEMMA BeforeStrict ==
  ASSUME NEW v \in CanonicalOnes, NEW w \in CanonicalOnes, Before(v, w)
  PROVE  ~Before(w, v) /\ ~Same(v, w)
<1>1. PICK i \in Nat \ {0} :
        /\ compareTokens(TokenAt(v, i), TokenAt(w, i)) = -1
        /\ \A j \in Nat \ {0} : j < i => TokenAt(v, j) = TokenAt(w, j)
  BY DEF Before
<1>2. \A j \in Nat \ {0} : TokenAt(v, j) \in Canonicals /\ TokenAt(w, j) \in Canonicals
  BY CanonicalTypes
<1>3. TokenAt(v, i) # TokenAt(w, i)
  BY <1>1, <1>2, TokenOrder
<1>4. ASSUME NEW k \in Nat \ {0},
             compareTokens(TokenAt(w, k), TokenAt(v, k)) = -1,
             \A j \in Nat \ {0} : j < k => TokenAt(w, j) = TokenAt(v, j)
      PROVE  FALSE
  <2>1. TokenAt(v, k) # TokenAt(w, k)
    BY <1>2, <1>4, TokenOrder
  <2>2. i = k
    BY <1>1, <1>3, <1>4, <2>1
  <2>3. compareTokens(TokenAt(v, i), TokenAt(w, i)) = 1
    BY <1>2, <1>4, <2>2, TokenOrder
  <2> QED
    BY <1>1, <2>3
<1> QED
  BY <1>3, <1>4 DEF Before, Same

\* Not before is an order: it passes on from version to version.
LEMMA BeforeTransitive ==
  ASSUME NEW u \in CanonicalOnes, NEW v \in CanonicalOnes, NEW w \in CanonicalOnes,
         Before(u, v) \/ Same(u, v), Before(v, w) \/ Same(v, w)
  PROVE  Before(u, w) \/ Same(u, w)
<1>1. \A j \in Nat \ {0} : /\ TokenAt(u, j) \in Canonicals
                           /\ TokenAt(v, j) \in Canonicals /\ TokenAt(w, j) \in Canonicals
  BY CanonicalTypes
<1>2. CASE Same(u, v)
  BY <1>2 DEF Same, Before
<1>3. CASE Same(v, w)
  BY <1>3 DEF Same, Before
<1>4. CASE Before(u, v) /\ Before(v, w)
  <2>1. PICK i \in Nat \ {0} :
          /\ compareTokens(TokenAt(u, i), TokenAt(v, i)) = -1
          /\ \A j \in Nat \ {0} : j < i => TokenAt(u, j) = TokenAt(v, j)
    BY <1>4 DEF Before
  <2>2. PICK k \in Nat \ {0} :
          /\ compareTokens(TokenAt(v, k), TokenAt(w, k)) = -1
          /\ \A j \in Nat \ {0} : j < k => TokenAt(v, j) = TokenAt(w, j)
    BY <1>4 DEF Before
  <2>3. CASE i < k
    <3>1. compareTokens(TokenAt(u, i), TokenAt(w, i)) = -1
      BY <2>1, <2>2, <2>3
    <3>2. \A j \in Nat \ {0} : j < i => TokenAt(u, j) = TokenAt(w, j)
      BY <2>1, <2>2, <2>3
    <3> QED
      BY <3>1, <3>2 DEF Before
  <2>4. CASE k < i
    <3>1. compareTokens(TokenAt(u, k), TokenAt(w, k)) = -1
      BY <2>1, <2>2, <2>4
    <3>2. \A j \in Nat \ {0} : j < k => TokenAt(u, j) = TokenAt(w, j)
      BY <2>1, <2>2, <2>4
    <3> QED
      BY <3>1, <3>2 DEF Before
  <2>5. CASE i = k
    <3>1. compareTokens(TokenAt(u, i), TokenAt(w, i)) = -1
      BY <1>1, <2>1, <2>2, <2>5, TokenTransitive
    <3>2. \A j \in Nat \ {0} : j < i => TokenAt(u, j) = TokenAt(w, j)
      BY <2>1, <2>2, <2>5
    <3> QED
      BY <3>1, <3>2 DEF Before
  <2> QED
    BY <2>3, <2>4, <2>5
<1> QED
  BY <1>2, <1>3, <1>4

\* Compare is an order on canonical versions, "development" above all others.
LEMMA CompareOrder ==
  ASSUME NEW v \in Versions, NEW w \in Versions, CanonicalVersion(v), CanonicalVersion(w)
  PROVE  /\ CompareVersions(v, w) = - CompareVersions(w, v)
         /\ \A u \in Versions :
              CanonicalVersion(u) /\ AtLeast(v, w) /\ AtLeast(w, u) => AtLeast(v, u)
<1>1. \A x \in Versions : x # development /\ CanonicalVersion(x) => x \in CanonicalOnes
  BY DEF CanonicalOnes, Numbered
<1>2. /\ \A x \in Versions : CompareVersions(x, x) = 0
      /\ \A x \in Versions \ {development} : /\ CompareVersions(x, development) = -1
                                            /\ CompareVersions(development, x) = 1
  BY DEF CompareVersions
<1>3. CompareVersions(v, w) = - CompareVersions(w, v)
  <2>1. CASE v = development \/ w = development
    BY <2>1, <1>2
  <2>2. CASE v \in CanonicalOnes /\ w \in CanonicalOnes
    <3>1. Same(v, w) <=> Same(w, v)
      BY DEF Same
    <3> QED
      BY <2>2, <3>1, Comparison, BeforeStrict
  <2> QED
    BY <2>1, <2>2, <1>1
<1>4. \A x, y \in CanonicalOnes : AtLeast(y, x) <=> Before(x, y) \/ Same(x, y)
  <2> SUFFICES ASSUME NEW x \in CanonicalOnes, NEW y \in CanonicalOnes
               PROVE  AtLeast(y, x) <=> Before(x, y) \/ Same(x, y)
    OBVIOUS
  <2>1. Same(x, y) <=> Same(y, x)
    BY DEF Same
  <2>2. CASE CompareVersions(x, y) = 0 /\ Same(x, y)
    BY <2>2 DEF AtLeast
  <2>3. CASE CompareVersions(x, y) = -1 /\ Before(x, y)
    BY <2>3 DEF AtLeast
  <2>4. CASE CompareVersions(x, y) = 1 /\ Before(y, x)
    <3>1. ~Before(x, y) /\ ~Same(x, y)
      BY <2>4, <2>1, BeforeStrict
    <3> QED
      BY <2>4, <3>1 DEF AtLeast
  <2> QED
    BY <2>2, <2>3, <2>4, Comparison
<1>5. ASSUME NEW u \in Versions, CanonicalVersion(u), AtLeast(v, w), AtLeast(w, u)
      PROVE  AtLeast(v, u)
  <2>1. CASE v = development
    BY <2>1, <1>2 DEF AtLeast
  <2>2. CASE v # development
    <3>1. w # development
      BY <2>2, <1>2, <1>5 DEF AtLeast
    <3>2. u # development
      BY <3>1, <1>2, <1>5 DEF AtLeast
    <3>3. v \in CanonicalOnes /\ w \in CanonicalOnes /\ u \in CanonicalOnes
      BY <2>2, <3>1, <3>2, <1>1, <1>5
    <3>4. Before(u, w) \/ Same(u, w)
      BY <3>3, <1>4, <1>5
    <3>5. Before(w, v) \/ Same(w, v)
      BY <3>3, <1>4, <1>5
    <3> QED
      BY <3>3, <3>4, <3>5, <1>4, BeforeTransitive
  <2> QED
    BY <2>1, <2>2
<1> QED
  BY <1>3, <1>5

\* A zero token at the end of a version makes no difference.
LEMMA ZeroAppended ==
  ASSUME NEW v \in Numbered, NEW w \in Numbered
  PROVE  CompareVersions(w, Append(v, Zero)) = CompareVersions(w, v)
<1> DEFINE x == Append(v, Zero)
<1>1. /\ v \in Seq(OfToken) /\ w \in Seq(OfToken) /\ Len(v) \in Nat \ {0} /\ Len(w) \in Nat \ {0}
      /\ Zero \in OfToken
  BY NumberedTypes DEF Zero, OfToken, Token
<1>2. Len(x) = Len(v) + 1 /\ \A i \in 1..Len(x) : x[i] = IF i <= Len(v) THEN v[i] ELSE Zero
  BY <1>1
<1>3. \A i \in Nat \ {0} : TokenAt(x, i) = TokenAt(v, i)
  <2> SUFFICES ASSUME NEW i \in Nat \ {0} PROVE TokenAt(x, i) = TokenAt(v, i)
    OBVIOUS
  <2> HIDE DEF x
  <2> QED
    BY <1>1, <1>2 DEF TokenAt
<1>4. v # development /\ w # development /\ x # development
  <2>1. Len(development) = 1
    BY DEF development
  <2> QED
    BY <1>1, <1>2, <2>1 DEF Numbered
<1> HIDE DEF x
<1>5. \A i \in Nat \ {0} : i > Longer(w, v) \/ i > Longer(w, x) =>
        compareTokens(TokenAt(w, i), TokenAt(v, i)) = 0
  <2> SUFFICES ASSUME NEW i \in Nat \ {0}, i > Longer(w, v)
               PROVE  compareTokens(TokenAt(w, i), TokenAt(v, i)) = 0
    BY <1>1, <1>2 DEF Longer
  <2>1. i > Len(w) /\ i > Len(v)
    BY <1>1 DEF Longer
  <2> QED
    BY <2>1, <1>1 DEF TokenAt, compareTokens
<1>6. Differences(w, x) = Differences(w, v)
  <2>1. Longer(w, x) \in Nat /\ Longer(w, v) \in Nat
    BY <1>1, <1>2 DEF Longer
  <2>2. Differences(w, x) =
          {i \in 1..Longer(w, x) : compareTokens(TokenAt(w, i), TokenAt(v, i)) # 0}
    BY <1>3, <2>1 DEF Differences
  <2> QED
    BY <1>5, <2>1, <2>2 DEF Differences
<1>7. Differences(w, v) # {} =>
        LET i == First(Differences(w, v)) IN TokenAt(x, i) = TokenAt(v, i)
  BY <1>3, FirstDifference
<1>8. w = v \/ w = x => Differences(w, v) = {}
  <2>1. \A i \in Nat \ {0} : w = v \/ w = x => compareTokens(TokenAt(w, i), TokenAt(v, i)) = 0
    BY <1>3 DEF compareTokens
  <2> QED
    BY <2>1, DifferencesEverywhere
<1>9. CASE Differences(w, v) = {}
  <2>1. CompareVersions(w, v) = 0
    BY <1>4, <1>9 DEF CompareVersions
  <2>2. CompareVersions(w, x) = 0
    BY <1>4, <1>6, <1>9 DEF CompareVersions
  <2> QED
    BY <2>1, <2>2 DEF x
<1>10. CASE Differences(w, v) # {}
  <2> DEFINE i == First(Differences(w, v))
  <2>1. CompareVersions(w, v) = compareTokens(TokenAt(w, i), TokenAt(v, i))
    BY <1>4, <1>8, <1>10 DEF CompareVersions
  <2>2. CompareVersions(w, x) = compareTokens(TokenAt(w, i), TokenAt(x, i))
    BY <1>4, <1>6, <1>8, <1>10 DEF CompareVersions
  <2> QED
    BY <2>1, <2>2, <1>7, <1>10 DEF x
<1> QED
  BY <1>9, <1>10

\* What the last call compared, and what it returned.
VersionInv == VersionTypeOK /\ compared = CompareVersions(asked, version)

\* Comparing versions gives a sign.
LEMMA VersionSign ==
  ASSUME NEW v \in Versions, NEW w \in Versions
  PROVE  CompareVersions(v, w) \in {-1, 0, 1}
<1>1. ASSUME v \in Numbered, w \in Numbered, Differences(v, w) # {}
      PROVE  LET i == First(Differences(v, w))
             IN  compareTokens(TokenAt(v, i), TokenAt(w, i)) \in {-1, 0, 1}
  BY <1>1, FirstDifference, NumberedTypes, TokenSign
<1> QED
  BY <1>1 DEF CompareVersions, Numbered

\* Both calls set the result to what is compared.
LEMMA VersionInvStep == VersionInv /\ [VersionNext]_versionVars => VersionInv'
<1> SUFFICES ASSUME VersionInv, [VersionNext]_versionVars PROVE VersionInv'
  OBVIOUS
<1>1. CASE SetVersion
  BY <1>1 DEF SetVersion, VersionInv, VersionTypeOK, CompareVersions
<1>2. CASE Compare
  BY <1>2, VersionSign DEF Compare, VersionInv, VersionTypeOK
<1>3. CASE UNCHANGED versionVars
  BY <1>3 DEF versionVars, VersionInv, VersionTypeOK
<1> QED
  BY <1>1, <1>2, <1>3 DEF VersionNext

\* At the beginning "development" was compared with itself.
LEMMA VersionInvInit == VersionInit => VersionInv
BY DEF VersionInit, VersionInv, VersionTypeOK, CompareVersions, Versions

\* What is compared is compared in order.
LEMMA VersionInvOrder ==
  ASSUME VersionInv
  PROVE  ReleaseOrder
<1>1. version \in Versions /\ asked \in Versions /\ compared = CompareVersions(asked, version)
  BY DEF VersionInv, VersionTypeOK
<1>2. TotalOrder
  BY <1>1, CompareOrder DEF TotalOrder
<1>3. version # development /\ asked # development =>
        CompareVersions(asked, Append(version, Zero)) = compared
  BY <1>1, ZeroAppended DEF Numbered
<1>4. (version = development => compared <= 0) /\ (asked = development => compared >= 0)
  BY <1>1 DEF CompareVersions
<1> QED
  BY <1>2, <1>3, <1>4 DEF ReleaseOrder, TrailingZeros

(* Whatever tokens there are, however long versions and however large      *)
(* numbers may become: Compare orders canonical versions totally, and a    *)
(* zero token at the end changes no comparison.                            *)
THEOREM VersionsOrdered == VersionSpec => []ReleaseOrder
BY VersionInvInit, VersionInvStep, VersionInvOrder, PTL DEF VersionSpec

-----------------------------------------------------------------------------
(* Conversions.                                                            *)

\* Neither conversion loses a bit of a number that its result type has.
LEMMA Truncation ==
  ASSUME NEW max \in Nat, NEW i \in 0..(2 * max + 1)
  PROVE  Truncated(i, max) = i
<1>1. \A a, b \in Nat : a < b => a % b = a
  OBVIOUS
<1> QED
  BY <1>1, 2 * max + 2 \in Nat DEF Truncated

\* What a conversion to an unsigned type returns.
LEMMA ToUnsignedKeeps ==
  ASSUME NEW max \in Nat, NEW i \in Signed(max), ToUnsigned(i, max)
  PROVE  ValueKept'
<1>1. i >= 0 => Truncated(i, max) = i
  BY Truncation DEF Signed
<1>2. given' = i /\ to' = 0..(2 * max + 1) /\ (convertErr' <=> i < 0)
  BY DEF ToUnsigned, Unsigned
<1>3. converted' = IF i < 0 THEN 0 ELSE i
  BY <1>1 DEF ToUnsigned, Signed
<1>4. i < 0 <=> i \notin 0..(2 * max + 1)
  BY DEF Signed
<1> QED
  BY <1>2, <1>3, <1>4 DEF ValueKept

\* What a conversion to a signed type returns, also to a narrower one.
LEMMA ToSignedKeeps ==
  ASSUME NEW max \in Nat, NEW u \in Nat, ToSigned(u, max)
  PROVE  ValueKept'
<1>1. u <= max => Truncated(u, max) = u
  BY Truncation
<1>2. given' = u /\ to' = (-max - 1)..max /\ (convertErr' <=> u > max)
  BY DEF ToSigned, Signed
<1>3. converted' = IF u > max THEN 0 ELSE u
  BY <1>1 DEF ToSigned, AsSigned
<1>4. u > max <=> u \notin (-max - 1)..max
  OBVIOUS
<1> QED
  BY <1>2, <1>3, <1>4 DEF ValueKept

\* Every conversion returns what it was given.
LEMMA ConvertStep == ValueKept /\ [ConvertNext]_convertVars => ValueKept'
<1> SUFFICES ASSUME ValueKept, [ConvertNext]_convertVars PROVE ValueKept'
  OBVIOUS
<1>1. CASE IntToUint \/ Int64ToUint64
  BY <1>1, ToUnsignedKeeps, WidthAssumption DEF IntToUint, Int64ToUint64
<1>2. CASE UintToInt \/ Uint64ToInt64 \/ Uint64ToInt
  BY <1>2, ToSignedKeeps, WidthAssumption
     DEF UintToInt, Uint64ToInt64, Uint64ToInt, Unsigned
<1>3. CASE UNCHANGED convertVars
  BY <1>3 DEF convertVars, ValueKept
<1> QED
  BY <1>1, <1>2, <1>3 DEF ConvertNext

\* Nothing was converted at the beginning.
LEMMA ConvertInitKept == ConvertInit => ValueKept
BY WidthAssumption DEF ConvertInit, ValueKept, Unsigned

(* Whatever the two widths are, a conversion returns the number it was     *)
(* given or refuses one that its result type does not have.                *)
THEOREM ConversionsExact == ConvertSpec => []ValueKept
BY ConvertInitKept, ConvertStep, PTL DEF ConvertSpec

-----------------------------------------------------------------------------
(* Moves and copies of directories.                                        *)

\* The loop takes one of the files that are left.
LEMMA FileInTodo ==
  ASSUME todo \subseteq Entries, todo # {}
  PROVE  file \in todo
<1>1. todo \subseteq Nat
  BY TreesAssumption DEF Entries
<1>2. \E e \in todo : \A f \in todo : e <= f
  BY <1>1, LeastExists
<1> QED
  BY <1>2 DEF file

-----------------------------------------------------------------------------
MoveFrame == [dir : Entries, todo : SUBSET Entries]

MoveTypes ==
  /\ moveAt \in {"idle", "mkdir", "list", "next", "open", "create", "copy", "chmod",
                 "remove", "close", "ended"}
  /\ dest \in [Entries -> {"none", "part", "whole"}]
  /\ dirs \in Seq(MoveFrame) /\ moveErr \in BOOLEAN

\* The calls of MoveDir go down the tree: each works in a directory below that of
\* its caller, so that no two of them have a file in common.
GoesDown ==
  /\ moveAt = "idle" => dirs = <<>> /\ source = Flat
  /\ moveAt # "idle" => dirs # <<>> /\ source \in Trees
  /\ \A i \in 1..Len(dirs) : dirs[i].todo \subseteq Children(source, dirs[i].dir)
  /\ \A i, j \in 1..Len(dirs) : i < j => dirs[j].dir < dirs[i].dir

\* A file that a call has still to move is there; only the innermost call may
\* have removed the one it is just closing.
TodoThere ==
  moveAt \notin {"idle", "ended"} =>
    \A i \in 1..Len(dirs) : \A e \in dirs[i].todo \cap Files(source) :
      e \in from \/ (moveAt = "close" /\ i = 1 /\ e = file)

\* What is copied before the source is removed.
CopiedFirst ==
  /\ moveAt \in {"open", "create", "copy", "chmod", "remove", "close"} => todo # {}
  /\ moveAt \in {"chmod", "remove"} => dest[file] = "whole"

MoveInv == MoveTypes /\ GoesDown /\ TodoThere /\ CopiedFirst /\ NothingLost

-----------------------------------------------------------------------------
\* What the invariant says of the innermost call.
LEMMA Innermost ==
  ASSUME MoveInv, moveAt # "idle"
  PROVE  /\ Len(dirs) \in Nat \ {0} /\ dirs[1] \in MoveFrame /\ Head(dirs) = dirs[1]
         /\ dir \in Entries /\ todo \subseteq Children(source, dir) /\ todo \subseteq Entries
         /\ todo # {} => file \in todo /\ file \in Entries \ {Top}
<1>1. Len(dirs) \in Nat \ {0} /\ dirs[1] \in MoveFrame /\ Head(dirs) = dirs[1]
  BY DEF MoveInv, MoveTypes, GoesDown
<1>2. dir \in Entries /\ todo \subseteq Children(source, dir) /\ todo \subseteq Entries
  BY <1>1 DEF MoveInv, GoesDown, MoveFrame, dir, todo
<1>3. todo # {} => file \in todo
  BY <1>2, FileInTodo
<1>4. Children(source, dir) \subseteq Entries \ {Top}
  BY DEF Children
<1> QED
  BY <1>1, <1>2, <1>3, <1>4

\* The invariant holds at the beginning.
LEMMA MoveInvInit == MoveInit => MoveInv
<1> SUFFICES ASSUME MoveInit PROVE MoveInv
  OBVIOUS
<1>1. MoveTypes
  <2>1. dirs \in Seq(MoveFrame)
    BY DEF MoveInit
  <2>2. dest \in [Entries -> {"none", "part", "whole"}]
    BY DEF MoveInit
  <2> QED
    BY <2>1, <2>2, Zenon DEF MoveInit, MoveTypes
<1>2. GoesDown /\ TodoThere /\ CopiedFirst
  BY DEF MoveInit, GoesDown, TodoThere, CopiedFirst
<1>3. NothingLost
  BY DEF MoveInit, NothingLost, Files, Flat
<1> QED
  BY <1>1, <1>2, <1>3 DEF MoveInv

-----------------------------------------------------------------------------
\* The recursion is where it was.
LEMMA SameCalls ==
  ASSUME MoveInv, moveAt # "idle", moveAt' # "idle", UNCHANGED <<dirs, source>>
  PROVE  (dirs \in Seq(MoveFrame))' /\ GoesDown' /\ dir' = dir /\ todo' = todo /\ file' = file
<1>1. dir' = dir /\ todo' = todo /\ file' = file
  BY DEF dir, todo, file
<1>2. GoesDown'
  BY DEF MoveInv, GoesDown
<1> QED
  BY <1>1, <1>2 DEF MoveInv, MoveTypes

\* Steps that touch no file.
Quiet == UNCHANGED <<op, source, from, dest, dirs, closeFailed>>

\* Those of them that move on, or note an error, keep the invariant.
LEMMA QuietStep ==
  ASSUME MoveInv, Quiet, moveErr' \in BOOLEAN,
         \/ moveAt = "mkdir" /\ moveAt' = "list"
         \/ moveAt = "next" /\ todo # {} /\ moveAt' = "open"
         \/ moveAt = "open" /\ moveAt' = "create"
         \/ moveAt = "chmod" /\ moveAt' = "remove"
         \/ moveAt \in {"copy", "chmod", "remove"} /\ moveAt' = "close"
         \/ moveAt # "idle" /\ moveAt' = "ended"
  PROVE  MoveInv'
<1>1. moveAt # "idle" /\ moveAt' # "idle"
  OBVIOUS
<1>2. (dirs \in Seq(MoveFrame))' /\ GoesDown' /\ todo' = todo /\ file' = file
  BY <1>1, SameCalls DEF Quiet
<1>3. MoveTypes'
  BY <1>2 DEF MoveInv, MoveTypes, Quiet
<1>4. TodoThere'
  BY <1>2 DEF MoveInv, TodoThere, Quiet
<1>5. CopiedFirst'
  BY <1>2 DEF MoveInv, CopiedFirst, Quiet
<1>6. NothingLost'
  BY DEF MoveInv, NothingLost, Quiet
<1> QED
  BY <1>2, <1>3, <1>4, <1>5, <1>6 DEF MoveInv

\* The file at hand is in no other call.
LEMMA FileOnce ==
  ASSUME MoveInv, moveAt # "idle", todo # {}, NEW i \in 1..Len(dirs), file \in dirs[i].todo
  PROVE  i = 1
<1>1. source.parent[file] = dirs[1].dir /\ 1 \in 1..Len(dirs)
  <2>1. file \in Children(source, dir) /\ dir = dirs[1].dir
    BY Innermost DEF dir
  <2>2. Len(dirs) \in Nat \ {0}
    BY Innermost
  <2> QED
    BY <2>1, <2>2 DEF Children
<1>2. source.parent[file] = dirs[i].dir
  BY DEF MoveInv, GoesDown, Children
<1>3. dirs[i].dir \in Int
  <2>1. dirs[i] \in MoveFrame
    BY DEF MoveInv, MoveTypes
  <2>2. dirs[i].dir \in Entries
    BY <2>1 DEF MoveFrame
  <2> QED
    BY <2>2, TreesAssumption DEF Entries
<1>4. i > 1 => dirs[i].dir < dirs[1].dir
  BY <1>1 DEF MoveInv, GoesDown
<1> QED
  BY <1>1, <1>2, <1>3, <1>4

\* An existing copy is only truncated while the file is at its old place.
LEMMA CreateStep ==
  ASSUME MoveInv, Create PROVE MoveInv'
<1>1. /\ moveAt = "create" /\ moveAt' = "copy"
      /\ UNCHANGED <<op, source, from, dirs, closeFailed, moveErr>>
  BY DEF Create
<1>2. dest' = [dest EXCEPT ![file] = "part"]
  BY DEF Create
<1>3. (dirs \in Seq(MoveFrame))' /\ GoesDown' /\ todo' = todo /\ file' = file
  BY <1>1, SameCalls
<1>4. file \in todo /\ todo = dirs[1].todo /\ 1 \in 1..Len(dirs)
  BY <1>1, Innermost DEF MoveInv, CopiedFirst, todo
<1>5. file \in Files(source) => file \in from
  BY <1>1, <1>4 DEF MoveInv, TodoThere
<1>6. MoveTypes'
  BY <1>1, <1>2, <1>3 DEF MoveInv, MoveTypes
<1>7. TodoThere' /\ CopiedFirst'
  BY <1>1, <1>3, <1>4 DEF MoveInv, TodoThere, CopiedFirst
<1>8. NothingLost'
  BY <1>1, <1>2, <1>5 DEF MoveInv, MoveTypes, NothingLost, Files
<1> QED
  BY <1>3, <1>6, <1>7, <1>8 DEF MoveInv

\* A copy makes the file whole at its destination.
LEMMA CopyStep ==
  ASSUME MoveInv, Copy PROVE MoveInv'
<1>1. moveAt = "copy" /\ UNCHANGED <<op, source, from, dirs, closeFailed, moveErr>>
  BY DEF Copy
<1>2. moveAt' \in {"chmod", "close"} /\ dest' = [dest EXCEPT ![file] = "whole"]
  BY DEF Copy
<1>3. (dirs \in Seq(MoveFrame))' /\ GoesDown' /\ todo' = todo /\ file' = file
  BY <1>1, <1>2, SameCalls
<1>4. todo # {} /\ file \in Entries
  BY <1>1, Innermost DEF MoveInv, CopiedFirst
<1>5. MoveTypes'
  BY <1>1, <1>2, <1>3 DEF MoveInv, MoveTypes
<1>6. TodoThere'
  BY <1>1, <1>2, <1>3 DEF MoveInv, TodoThere
<1>7. CopiedFirst'
  BY <1>2, <1>3, <1>4 DEF MoveInv, MoveTypes, CopiedFirst
<1>8. NothingLost'
  BY <1>1, <1>2 DEF MoveInv, MoveTypes, NothingLost, Files
<1> QED
  BY <1>3, <1>5, <1>6, <1>7, <1>8 DEF MoveInv

\* A source is removed only when its copy is whole.
LEMMA MoveRemoveStep ==
  ASSUME MoveInv, RemoveSource PROVE MoveInv'
<1>1. /\ moveAt = "remove" /\ moveAt' = "close" /\ from' = from \ {file}
      /\ UNCHANGED <<op, source, dest, dirs, closeFailed, moveErr>>
  BY DEF RemoveSource
<1>2. (dirs \in Seq(MoveFrame))' /\ GoesDown' /\ todo' = todo /\ file' = file
  BY <1>1, SameCalls
<1>3. todo # {} /\ dest[file] = "whole"
  BY <1>1 DEF MoveInv, CopiedFirst
<1>4. TodoThere'
  <2> SUFFICES ASSUME NEW i \in 1..Len(dirs), NEW e \in dirs[i].todo \cap Files(source)
               PROVE  e \in from' \/ (i = 1 /\ e = file)
    BY <1>1, <1>2 DEF TodoThere
  <2>1. e \in from
    BY <1>1 DEF MoveInv, TodoThere
  <2>2. e = file => i = 1
    BY <1>1, <1>3, FileOnce
  <2> QED
    BY <1>1, <2>1, <2>2
<1>5. MoveTypes' /\ CopiedFirst'
  BY <1>1, <1>2, <1>3 DEF MoveInv, MoveTypes, CopiedFirst
<1>6. NothingLost'
  BY <1>1, <1>3 DEF MoveInv, NothingLost
<1> QED
  BY <1>2, <1>4, <1>5, <1>6 DEF MoveInv

\* A Close that fails may take the copy back, and says so.
LEMMA CloseFailsStep ==
  ASSUME MoveInv, CloseFails PROVE MoveInv'
<1>1. /\ moveAt = "close" /\ moveAt' = "ended" /\ moveErr' = TRUE
      /\ closeFailed' = closeFailed \union {file}
      /\ UNCHANGED <<op, source, from, dirs>>
  BY DEF CloseFails
<1>2. PICK data \in {dest[file], "part"} : dest' = [dest EXCEPT ![file] = data]
  BY DEF CloseFails
<1>3. (dirs \in Seq(MoveFrame))' /\ GoesDown' /\ todo' = todo /\ file' = file
  BY <1>1, SameCalls
<1>4. todo # {} /\ file \in Entries
  BY <1>1, Innermost DEF MoveInv, CopiedFirst
<1>5. MoveTypes'
  BY <1>1, <1>2, <1>3, <1>4 DEF MoveInv, MoveTypes
<1>6. TodoThere' /\ CopiedFirst'
  BY <1>1 DEF TodoThere, CopiedFirst
<1>7. NothingLost'
  BY <1>1, <1>2 DEF MoveInv, MoveTypes, NothingLost, Files
<1> QED
  BY <1>3, <1>5, <1>6, <1>7 DEF MoveInv

-----------------------------------------------------------------------------
\* Steps of the loops, which change what the calls have left to do.
LEMMA ListStep ==
  ASSUME MoveInv, ListFiles PROVE MoveInv'
<1>1. /\ moveAt = "list" /\ moveAt' = "next"
      /\ UNCHANGED <<op, source, from, dest, moveErr, closeFailed>>
  BY DEF ListFiles
<1>2. PICK files \in SUBSET Entries :
        /\ files \subseteq Children(source, dir) \ (Files(source) \ from)
        /\ dirs' = [dirs EXCEPT ![1].todo = files]
  BY DEF ListFiles, Children
<1>3. /\ Len(dirs) \in Nat \ {0} /\ dirs[1] \in MoveFrame /\ dir = dirs[1].dir
  BY <1>1, Innermost DEF dir
<1>4. /\ Len(dirs') = Len(dirs) /\ dirs' \in Seq(MoveFrame)
      /\ \A i \in 1..Len(dirs) : dirs'[i].dir = dirs[i].dir
      /\ dirs'[1].todo = files
      /\ \A i \in 1..Len(dirs) : i # 1 => dirs'[i].todo = dirs[i].todo
  BY <1>2, <1>3 DEF MoveInv, MoveTypes, MoveFrame
<1>5. MoveTypes'
  BY <1>1, <1>4 DEF MoveInv, MoveTypes
<1>6. GoesDown'
  BY <1>1, <1>2, <1>3, <1>4 DEF MoveInv, GoesDown
<1>7. TodoThere'
  BY <1>1, <1>2, <1>4 DEF MoveInv, TodoThere
<1>8. CopiedFirst' /\ NothingLost'
  BY <1>1 DEF MoveInv, CopiedFirst, NothingLost
<1> QED
  BY <1>5, <1>6, <1>7, <1>8 DEF MoveInv

\* The loop goes on with the rest of its files.
Onward ==
  /\ dirs' = done /\ moveAt' = "next"
  /\ UNCHANGED <<op, source, from, dest, moveErr, closeFailed>>

\* The next entry of the innermost directory keeps the invariant.
LEMMA OnwardStep ==
  ASSUME MoveInv, moveAt \in {"next", "close"}, todo # {}, Onward
  PROVE  MoveInv'
<1>1. /\ Len(dirs) \in Nat \ {0} /\ dirs[1] \in MoveFrame /\ todo = dirs[1].todo
  BY Innermost DEF todo
<1>2. /\ Len(dirs') = Len(dirs) /\ dirs' \in Seq(MoveFrame)
      /\ \A i \in 1..Len(dirs) : dirs'[i].dir = dirs[i].dir
      /\ dirs'[1].todo = dirs[1].todo \ {file}
      /\ \A i \in 1..Len(dirs) : i # 1 => dirs'[i].todo = dirs[i].todo
  BY <1>1 DEF MoveInv, MoveTypes, MoveFrame, Onward, done
<1>3. MoveTypes'
  BY <1>2 DEF MoveInv, MoveTypes, Onward
<1>4. GoesDown'
  BY <1>1, <1>2 DEF MoveInv, GoesDown, Onward
<1>5. TodoThere'
  BY <1>1, <1>2 DEF MoveInv, TodoThere, Onward
<1>6. CopiedFirst' /\ NothingLost'
  BY DEF MoveInv, CopiedFirst, NothingLost, Onward
<1> QED
  BY <1>3, <1>4, <1>5, <1>6 DEF MoveInv

\* A call for a directory goes on below it.
LEMMA NextDirStep ==
  ASSUME MoveInv, NextDir PROVE MoveInv'
<1>1. /\ moveAt = "next" /\ moveAt' = "mkdir" /\ todo # {}
      /\ UNCHANGED <<op, source, from, dest, moveErr, closeFailed>>
  BY DEF NextDir, unchangedFiles
<1>2. dirs' = <<[dir |-> file, todo |-> {}]>> \o done
  BY DEF NextDir
<1>3. /\ Len(dirs) \in Nat \ {0} /\ dirs[1] \in MoveFrame /\ todo = dirs[1].todo
      /\ dir = dirs[1].dir /\ file \in todo /\ file \in Entries \ {Top}
      /\ file \in Children(source, dir)
  BY <1>1, Innermost DEF dir, todo
<1>4. dir < file
  BY <1>1, <1>3, ParentsFirst DEF MoveInv, GoesDown, Children
<1>5. /\ Len(done) = Len(dirs) /\ done \in Seq(MoveFrame)
      /\ \A i \in 1..Len(dirs) : done[i].dir = dirs[i].dir /\ done[i].todo \subseteq dirs[i].todo
  BY <1>3 DEF MoveInv, MoveTypes, MoveFrame, done
<1>6. [dir |-> file, todo |-> {}] \in MoveFrame
  BY <1>3 DEF MoveFrame
<1>7. /\ Len(dirs') = Len(dirs) + 1 /\ dirs' \in Seq(MoveFrame)
      /\ dirs'[1] = [dir |-> file, todo |-> {}]
      /\ \A i \in 2..Len(dirs') : dirs'[i] = done[i - 1]
  BY <1>2, <1>3, <1>5, <1>6
<1> DEFINE n == Len(dirs)
           m == Len(dirs')
<1>a. n \in Nat \ {0} /\ m = n + 1
  BY <1>3, <1>7
<1>b. \A k \in 1..m : k # 1 =>
        /\ k - 1 \in 1..n /\ dirs'[k].dir = dirs[k - 1].dir
        /\ dirs'[k].todo \subseteq dirs[k - 1].todo
  <2> SUFFICES ASSUME NEW k \in 1..m, k # 1
               PROVE  /\ k - 1 \in 1..n /\ dirs'[k].dir = dirs[k - 1].dir
                      /\ dirs'[k].todo \subseteq dirs[k - 1].todo
    OBVIOUS
  <2>1. k \in 2..m /\ k - 1 \in 1..n
    <3> HIDE DEF n, m
    <3> QED BY <1>a
  <2>2. dirs'[k] = done[k - 1]
    BY <1>7, <2>1
  <2>3. done[k - 1].dir = dirs[k - 1].dir /\ done[k - 1].todo \subseteq dirs[k - 1].todo
    BY <1>5, <2>1
  <2> HIDE DEF n, m
  <2> QED
    BY <2>1, <2>2, <2>3
<1>8. MoveTypes'
  BY <1>1, <1>7 DEF MoveInv, MoveTypes
<1>9. \A i \in 1..Len(dirs) : dirs[i].dir \in Nat /\ dirs[i].dir < file
  <2> SUFFICES ASSUME NEW i \in 1..Len(dirs) PROVE dirs[i].dir \in Nat /\ dirs[i].dir < file
    OBVIOUS
  <2>1. dirs[i].dir \in Nat /\ dir \in Nat /\ file \in Nat
    <3>1. dirs[i] \in MoveFrame
      BY DEF MoveInv, MoveTypes
    <3>2. dirs[i].dir \in Entries /\ dir \in Entries
      BY <1>3, <3>1 DEF MoveFrame
    <3>3. Entries \subseteq Nat
      BY TreesAssumption DEF Entries
    <3> QED
      BY <1>3, <3>2, <3>3
  <2>2. i > 1 => dirs[i].dir < dir
    BY <1>3 DEF MoveInv, GoesDown
  <2> QED
    BY <1>3, <1>4, <2>1, <2>2
<1>10. GoesDown'
  <2>1. dirs' # <<>> /\ source' \in Trees
    BY <1>1, <1>7 DEF MoveInv, GoesDown
  <2>2. \A i \in 1..Len(dirs') : dirs'[i].todo \subseteq Children(source', dirs'[i].dir)
    <3> SUFFICES ASSUME NEW i \in 1..Len(dirs')
                 PROVE  dirs'[i].todo \subseteq Children(source, dirs'[i].dir)
      BY <1>1
    <3>1. CASE i = 1
      BY <1>7, <3>1
    <3>2. CASE i # 1
      <4>1. /\ i - 1 \in 1..Len(dirs) /\ dirs'[i].dir = dirs[i - 1].dir
            /\ dirs'[i].todo \subseteq dirs[i - 1].todo
        BY <1>b, <3>2
      <4>2. dirs[i - 1].todo \subseteq Children(source, dirs[i - 1].dir)
        BY <4>1 DEF MoveInv, GoesDown
      <4> QED
        BY <4>1, <4>2
    <3> QED
      BY <3>1, <3>2
  <2>3. \A i, j \in 1..Len(dirs') : i < j => dirs'[j].dir < dirs'[i].dir
    <3> SUFFICES ASSUME NEW i \in 1..m, NEW j \in 1..m, i < j
                 PROVE  dirs'[j].dir < dirs'[i].dir
      OBVIOUS
    <3>1. j - 1 \in 1..Len(dirs) /\ dirs'[j].dir = dirs[j - 1].dir
      <4>1. j # 1
        <5> HIDE DEF n, m
        <5> QED BY <1>a
      <4> QED
        BY <1>b, <4>1
    <3>2. CASE i = 1
      BY <1>7, <1>9, <3>1, <3>2
    <3>3. CASE i # 1
      <4>1. i - 1 \in 1..Len(dirs) /\ dirs'[i].dir = dirs[i - 1].dir
        BY <1>b, <3>3
      <4>2. i - 1 < j - 1
        <5> HIDE DEF n, m
        <5> QED BY <1>a
      <4> QED
        BY <3>1, <4>1, <4>2 DEF MoveInv, GoesDown
    <3> QED
      BY <3>2, <3>3
  <2> QED
    BY <1>1, <2>1, <2>2, <2>3 DEF GoesDown
<1>11. TodoThere'
  <2> SUFFICES ASSUME NEW i \in 1..Len(dirs'), NEW e \in dirs'[i].todo \cap Files(source)
               PROVE  e \in from
    BY <1>1 DEF TodoThere, Files
  <2>1. i # 1
    BY <1>7
  <2>2. i - 1 \in 1..Len(dirs) /\ dirs'[i].todo \subseteq dirs[i - 1].todo
    BY <1>b, <2>1
  <2>3. e \in dirs[i - 1].todo
    BY <2>2
  <2> QED
    BY <1>1, <2>2, <2>3 DEF MoveInv, TodoThere
<1>12. CopiedFirst' /\ NothingLost'
  BY <1>1 DEF MoveInv, CopiedFirst, NothingLost
<1> QED
  BY <1>8, <1>10, <1>11, <1>12 DEF MoveInv

\* A call for a directory returns to that of its parent.
LEMMA DirDoneStep ==
  ASSUME MoveInv, DirDone PROVE MoveInv'
<1>1. moveAt = "next" /\ UNCHANGED <<op, source, from, dest, moveErr, closeFailed>>
  BY DEF DirDone, unchangedFiles
<1>2. CASE Len(dirs) = 1
  BY <1>1, <1>2, QuietStep DEF DirDone, Quiet, MoveInv, MoveTypes
<1>3. CASE Len(dirs) # 1
  <2>1. moveAt' = "next" /\ dirs' = Tail(dirs)
    BY <1>3 DEF DirDone
  <2>2. Len(dirs) \in Nat /\ Len(dirs) > 1
    <3>1. moveAt # "idle"
      BY <1>1
    <3>2. Len(dirs) \in Nat \ {0}
      BY <3>1, Innermost
    <3> DEFINE n == Len(dirs)
    <3> HIDE DEF n
    <3>3. n \in Nat \ {0} /\ n # 1
      BY <1>3, <3>2 DEF n
    <3>4. n \in Nat /\ n > 1
      BY ONLY <3>3
    <3> QED
      BY <3>4 DEF n
  <2>3. /\ dirs' \in Seq(MoveFrame) /\ Len(dirs') = Len(dirs) - 1 /\ dirs' # <<>>
        /\ \A i \in 1..Len(dirs') : i + 1 \in 1..Len(dirs) /\ dirs'[i] = dirs[i + 1]
    <3>1. dirs \in Seq(MoveFrame) /\ dirs # <<>>
      BY <2>2 DEF MoveInv, MoveTypes
    <3>2. /\ dirs' \in Seq(MoveFrame) /\ Len(dirs') = Len(dirs) - 1
          /\ \A i \in 1..Len(dirs') : dirs'[i] = dirs[i + 1]
      BY <2>1, <3>1, HeadTailProperties
    <3>3. \A i \in 1..Len(dirs') : i + 1 \in 1..Len(dirs)
      BY <2>2, <3>2
    <3> QED
      BY <2>2, <3>2, <3>3
  <2>4. MoveTypes'
    BY <1>1, <2>1, <2>3 DEF MoveInv, MoveTypes
  <2>5. GoesDown'
    BY <1>1, <2>1, <2>2, <2>3 DEF MoveInv, GoesDown
  <2>6. TodoThere'
    BY <1>1, <2>1, <2>3 DEF MoveInv, TodoThere
  <2>7. CopiedFirst' /\ NothingLost'
    BY <1>1, <2>1 DEF MoveInv, CopiedFirst, NothingLost
  <2> QED
    BY <2>4, <2>5, <2>6, <2>7 DEF MoveInv
<1> QED
  BY <1>2, <1>3

-----------------------------------------------------------------------------
\* The outermost call is about to make its directory.
Outermost == dirs' = <<[dir |-> Top, todo |-> {}]>> /\ moveAt' = "mkdir"

\* A first call starts with the outermost directory and nothing to do in it.
LEMMA OutermostCalls ==
  ASSUME Outermost, source' \in Trees
  PROVE  dirs' \in Seq(MoveFrame) /\ GoesDown' /\ TodoThere' /\ CopiedFirst'
<1>1. [dir |-> Top, todo |-> {}] \in MoveFrame
  BY TreesAssumption DEF MoveFrame, Top, Entries
<1>2. dirs' \in Seq(MoveFrame) /\ Len(dirs') = 1 /\ dirs' # <<>> /\ dirs'[1].todo = {}
  BY <1>1 DEF Outermost
<1>3. GoesDown'
  BY <1>2 DEF GoesDown, Outermost
<1>4. TodoThere' /\ CopiedFirst'
  BY <1>2 DEF TodoThere, CopiedFirst, Outermost
<1> QED
  BY <1>2, <1>3, <1>4

\* A new call begins with all files at their old places.
LEMMA BeginStep ==
  ASSUME MoveInv, MoveDir \/ CopyDir PROVE MoveInv'
<1>1. /\ moveAt = "idle" /\ Enters(Top) /\ source' \in Trees /\ from' = Files(source')
      /\ UNCHANGED <<dest, moveErr>>
  BY MoveAssumption DEF MoveDir, CopyDir
<1>2. Outermost
  <2>1. dirs = <<>> /\ <<[dir |-> Top, todo |-> {}]>> \in Seq({[dir |-> Top, todo |-> {}]})
    BY <1>1 DEF MoveInv, GoesDown
  <2>2. <<[dir |-> Top, todo |-> {}]>> \o dirs = <<[dir |-> Top, todo |-> {}]>>
    BY <2>1, ConcatEmptySeq
  <2> QED
    BY <1>1, <2>2 DEF Enters, Outermost
<1>3. MoveTypes'
  BY <1>1, <1>2, OutermostCalls DEF MoveInv, MoveTypes, Outermost
<1>4. NothingLost'
  BY <1>1 DEF NothingLost
<1> QED
  BY <1>1, <1>2, <1>3, <1>4, OutermostCalls DEF MoveInv

\* A second call goes on with what the first has left.
LEMMA AgainStep ==
  ASSUME MoveInv, CallAgain PROVE MoveInv'
<1>1. /\ moveAt = "ended" /\ Outermost /\ moveErr' = FALSE
      /\ UNCHANGED <<op, source, from, dest, closeFailed>>
  BY DEF CallAgain, Outermost
<1>2. source' \in Trees
  BY <1>1 DEF MoveInv, GoesDown
<1>3. MoveTypes'
  BY <1>1, <1>2, OutermostCalls DEF MoveInv, MoveTypes, Outermost
<1>4. NothingLost'
  BY <1>1 DEF MoveInv, NothingLost
<1> QED
  BY <1>1, <1>2, <1>3, <1>4, OutermostCalls DEF MoveInv

\* A return leaves the initial values behind.
LEMMA ReturnStep ==
  ASSUME MoveInv, MoveReturns PROVE MoveInv'
<1>1. /\ moveAt' = "idle" /\ source' = Flat /\ dirs' = <<>> /\ moveErr' = FALSE
      /\ dest' = [e \in Entries |-> "none"]
  BY DEF MoveReturns
<1>2. MoveTypes'
  <2>1. (dirs \in Seq(MoveFrame))'
    BY <1>1
  <2>2. dest' \in [Entries -> {"none", "part", "whole"}]
    BY <1>1
  <2> QED
    BY <1>1, <2>1, <2>2, Zenon DEF MoveTypes
<1>3. GoesDown' /\ TodoThere' /\ CopiedFirst'
  BY <1>1 DEF GoesDown, TodoThere, CopiedFirst
<1>4. NothingLost'
  BY <1>1 DEF NothingLost, Files, Flat
<1> QED
  BY <1>2, <1>3, <1>4 DEF MoveInv

-----------------------------------------------------------------------------
\* The invariant is kept by every step.
LEMMA MoveInvStep == MoveInv /\ [MoveNext]_moveVars => MoveInv'
<1> SUFFICES ASSUME MoveInv, [MoveNext]_moveVars PROVE MoveInv'
  OBVIOUS
<1>1. moveErr \in BOOLEAN
  BY DEF MoveInv, MoveTypes
<1>2. CASE CreateDirIfNotExist \/ NextFile \/ Open \/ Chmod \/ CallFails \/ Crash
  BY <1>1, <1>2, QuietStep
     DEF CreateDirIfNotExist, NextFile, Open, Chmod, CallFails, Crash, Quiet, Goes, unchangedFiles
<1>3. CASE ListFiles
  BY <1>3, ListStep
<1>4. CASE NextDir
  BY <1>4, NextDirStep
<1>5. CASE Excluded
  BY <1>5, OnwardStep DEF Excluded, Onward, unchangedFiles
<1>6. CASE DirDone
  BY <1>6, DirDoneStep
<1>7. CASE Create \/ Copy \/ RemoveSource \/ CloseFails
  BY <1>7, CreateStep, CopyStep, MoveRemoveStep, CloseFailsStep
<1>8. CASE Close
  <2>1. CASE moveErr
    BY <1>1, <1>8, <2>1, QuietStep DEF Close, Quiet, unchangedFiles
  <2>2. CASE ~moveErr
    BY <1>8, <2>2, OnwardStep DEF Close, Onward, unchangedFiles, MoveInv, CopiedFirst
  <2> QED
    BY <2>1, <2>2
<1>9. CASE MoveDir \/ CopyDir \/ CallAgain \/ MoveReturns
  BY <1>9, BeginStep, AgainStep, ReturnStep
<1>10. CASE UNCHANGED moveVars
  <2>1. UNCHANGED <<moveAt, op, source, from, dest, dirs, moveErr, closeFailed>>
    BY <1>10 DEF moveVars
  <2>2. todo' = todo /\ file' = file
    BY <2>1 DEF todo, file
  <2> QED
    BY <2>1, <2>2 DEF MoveInv, MoveTypes, GoesDown, TodoThere, CopiedFirst, NothingLost
<1> QED
  BY <1>2, <1>3, <1>4, <1>5, <1>6, <1>7, <1>8, <1>9, <1>10 DEF MoveNext, MoveStep

(* For every tree, with every failure and crash and however often the      *)
(* caller tries again: a file that is being moved is at its old place, or  *)
(* whole at the new one, unless the Close of its copy failed.              *)
THEOREM MoveLosesNothing == MoveSpec => []NothingLost
<1>1. MoveInv => NothingLost
  BY DEF MoveInv
<1> QED
  BY <1>1, MoveInvInit, MoveInvStep, PTL DEF MoveSpec

\* The calls work in directories, on files of the tree: the types that the
\* argument above does not need.
MoveFiles ==
  /\ from \subseteq Files(source) /\ closeFailed \subseteq Files(source)
  /\ made \subseteq Entries /\ unread \in BOOLEAN
  /\ moveAt = "idle" => closeFailed = {}
  /\ moveAt \in {"open", "create", "copy", "chmod", "remove", "close"} => file \in Files(source)
  /\ \A i \in 1..Len(dirs) : source.kind[dirs[i].dir] = "dir"

\* They hold at the beginning.
LEMMA MoveFilesInit == MoveInit => MoveFiles
<1> SUFFICES ASSUME MoveInit PROVE MoveFiles
  OBVIOUS
<1>1. moveAt = "idle" /\ from = {} /\ closeFailed = {} /\ made = {} /\ unread \in BOOLEAN
  BY DEF MoveInit
<1>2. \A i \in 1..Len(dirs) : FALSE
  BY DEF MoveInit
<1> QED
  BY <1>1, <1>2 DEF MoveFiles

\* The steps that leave the calls and the tree.
LEMMA SameCallsFiles ==
  ASSUME MoveInv, MoveFiles, moveAt # "idle", moveAt' # "idle", UNCHANGED <<source, dirs>>,
         from' \subseteq from, made' \subseteq made \cup {dir}, unread' = unread,
         closeFailed' \subseteq closeFailed \cup (IF moveAt = "close" THEN {file} ELSE {}),
         moveAt' \in {"open", "create", "copy", "chmod", "remove", "close"} =>
           moveAt \in {"open", "create", "copy", "chmod", "remove", "close"}
           \/ file \in Files(source)
  PROVE  MoveFiles'
<1>1. dir \in Entries
  BY Innermost
<1>2. file' = file
  BY DEF file, todo
<1> QED
  BY <1>1, <1>2 DEF MoveFiles

\* The steps that change the calls but not the tree.
LEMMA OtherCallsFiles ==
  ASSUME MoveInv, MoveFiles, moveAt # "idle", UNCHANGED <<source, from, made, closeFailed>>,
         unread' \in BOOLEAN,
         moveAt' \in {"mkdir", "next", "ended"},
         \A i \in 1..Len(dirs') : source.kind[dirs'[i].dir] = "dir"
  PROVE  MoveFiles'
BY DEF MoveFiles

\* They are kept by every step.
LEMMA MoveFilesStep == MoveInv /\ MoveFiles /\ [MoveNext]_moveVars => MoveFiles'
<1> SUFFICES ASSUME MoveInv, MoveFiles, [MoveNext]_moveVars PROVE MoveFiles'
  OBVIOUS
<1>1. ASSUME moveAt # "idle"
      PROVE  /\ Len(dirs) \in Nat \ {0} /\ dirs[1] \in MoveFrame
             /\ dir \in Entries /\ todo \subseteq Entries
             /\ todo # {} => file \in todo /\ file \in Entries \ {Top}
  BY <1>1, Innermost
<1>2. CASE CreateDirIfNotExist \/ Open \/ Create \/ Copy \/ Chmod \/ RemoveSource
           \/ CallFails \/ Crash
  BY <1>2, SameCallsFiles
     DEF CreateDirIfNotExist, Open, Create, Copy, Chmod, RemoveSource, CallFails,
         Crash, Goes, unchangedFiles
<1>3. CASE NextFile
  <2>1. moveAt = "next" /\ moveAt' = "open" /\ todo # {} /\ ~LstatIsDir(source, file)
        /\ UNCHANGED <<dirs, moveErr>> /\ unchangedFiles
    BY <1>3 DEF NextFile, Goes
  <2>2. file \in Files(source)
    BY <1>1, <2>1 DEF Files, LstatIsDir
  <2> QED
    BY <2>1, <2>2, SameCallsFiles DEF unchangedFiles
<1>4. CASE CloseFails
  BY <1>4, SameCallsFiles DEF CloseFails
<1>5. CASE ListFiles
  <2>1. PICK files \in SUBSET Entries : dirs' = [dirs EXCEPT ![1].todo = files]
    BY <1>5 DEF ListFiles, Children
  <2>2. /\ moveAt = "list" /\ moveAt' = "next" /\ UNCHANGED <<source, from, made, closeFailed>>
        /\ unread' \in BOOLEAN
    BY <1>5 DEF ListFiles, MoveFiles
  <2>3. Len(dirs') = Len(dirs) /\ \A i \in 1..Len(dirs) : dirs'[i].dir = dirs[i].dir
    BY <1>1, <2>1, <2>2 DEF MoveInv, MoveTypes, MoveFrame
  <2> QED
    BY <2>2, <2>3, OtherCallsFiles DEF MoveFiles
<1>6. ASSUME moveAt # "idle"
      PROVE  /\ Len(done) = Len(dirs) /\ done \in Seq(MoveFrame)
             /\ \A i \in 1..Len(dirs) : done[i].dir = dirs[i].dir
  BY <1>1, <1>6 DEF MoveInv, MoveTypes, MoveFrame, done
<1>7. CASE NextDir
  <2>1. /\ moveAt = "next" /\ moveAt' = "mkdir" /\ dirs' = <<[dir |-> file, todo |-> {}]>> \o done
        /\ UNCHANGED <<source, from, made, unread, closeFailed>>
        /\ source.kind[file] = "dir" /\ todo # {}
    BY <1>7 DEF NextDir, unchangedFiles, LstatIsDir
  <2>2. [dir |-> file, todo |-> {}] \in MoveFrame
    BY <1>1, <2>1 DEF MoveFrame
  <2>3. /\ Len(dirs') = Len(dirs) + 1 /\ dirs'[1] = [dir |-> file, todo |-> {}]
        /\ \A i \in 2..Len(dirs') : dirs'[i] = done[i - 1]
    BY <1>1, <1>6, <2>1, <2>2
  <2>4. ASSUME NEW i \in 1..Len(dirs')
        PROVE  source.kind[dirs'[i].dir] = "dir"
    <3>1. CASE i = 1
      BY <2>1, <2>3, <3>1
    <3>2. CASE i # 1
      <4>1. i - 1 \in 1..Len(dirs) /\ i \in 2..Len(dirs')
        BY <1>1, <2>1, <2>3, <3>2
      <4>2. dirs'[i].dir = dirs[i - 1].dir
        BY <1>6, <2>1, <2>3, <4>1
      <4> QED
        BY <4>1, <4>2 DEF MoveFiles
    <3> QED
      BY <3>1, <3>2
  <2> QED
    BY <2>1, <2>4, OtherCallsFiles DEF MoveFiles
<1>8. CASE Excluded \/ (Close /\ ~moveErr)
  <2>1. /\ moveAt \in {"next", "close"} /\ moveAt' = "next" /\ dirs' = done
        /\ UNCHANGED <<source, from, made, unread, closeFailed>>
    BY <1>8 DEF Excluded, Close, unchangedFiles
  <2> QED
    BY <1>6, <2>1, OtherCallsFiles DEF MoveFiles
<1>9. CASE Close /\ moveErr
  BY <1>9, SameCallsFiles DEF Close, unchangedFiles
<1>10. CASE DirDone
  <2>1. /\ moveAt = "next" /\ moveAt' \in {"next", "ended"}
        /\ UNCHANGED <<source, from, made, unread, closeFailed>>
        /\ dirs' = dirs \/ dirs' = Tail(dirs)
    BY <1>10 DEF DirDone, unchangedFiles
  <2>2. CASE dirs' = dirs
    BY <2>1, <2>2, OtherCallsFiles DEF MoveFiles
  <2>3. CASE dirs' = Tail(dirs)
    <3>1. dirs \in Seq(MoveFrame) /\ dirs # <<>> /\ Len(dirs) \in Nat \ {0}
      BY <2>1 DEF MoveInv, MoveTypes, GoesDown
    <3>2. /\ Len(dirs') = Len(dirs) - 1
          /\ \A i \in 1..Len(dirs') : i + 1 \in 1..Len(dirs) /\ dirs'[i] = dirs[i + 1]
      BY <2>3, <3>1, HeadTailProperties
    <3> QED
      BY <2>1, <3>2, OtherCallsFiles DEF MoveFiles
  <2> QED
    BY <2>1, <2>2, <2>3
<1>11. CASE MoveDir \/ CopyDir \/ CallAgain
  <2>1. /\ dirs' = <<[dir |-> Top, todo |-> {}]>> /\ source' \in Trees /\ moveAt' = "mkdir"
        /\ from' \subseteq Files(source') /\ closeFailed' \subseteq Files(source')
        /\ made' \subseteq Entries /\ unread' \in BOOLEAN
    <3>1. CASE MoveDir \/ CopyDir
      <4>1. /\ moveAt = "idle" /\ Enters(Top) /\ source' \in Trees /\ from' = Files(source')
            /\ UNCHANGED <<made, unread, closeFailed>>
        BY <3>1, MoveAssumption DEF MoveDir, CopyDir
      <4>2. <<[dir |-> Top, todo |-> {}]>> \o dirs = <<[dir |-> Top, todo |-> {}]>>
        <5>1. dirs = <<>> /\ <<[dir |-> Top, todo |-> {}]>> \in Seq({[dir |-> Top, todo |-> {}]})
          BY <4>1 DEF MoveInv, GoesDown
        <5> QED
          BY <5>1, ConcatEmptySeq
      <4> QED
        BY <4>1, <4>2 DEF Enters, MoveFiles
    <3>2. CASE CallAgain
      BY <3>2 DEF CallAgain, MoveInv, GoesDown, MoveFiles
    <3> QED
      BY <1>11, <3>1, <3>2
  <2>2. Len(dirs') = 1 /\ dirs'[1].dir = Top /\ source'.kind[Top] = "dir"
    BY <2>1 DEF Trees
  <2> QED
    BY <2>1, <2>2 DEF MoveFiles
<1>12. CASE MoveReturns
  <2>1. /\ moveAt' = "idle" /\ from' = {} /\ closeFailed' = {} /\ made' = {}
        /\ unread' \in BOOLEAN
    BY <1>12 DEF MoveReturns
  <2>2. \A i \in 1..Len(dirs') : FALSE
    BY <1>12 DEF MoveReturns
  <2> QED
    BY <2>1, <2>2 DEF MoveFiles
<1>13. CASE UNCHANGED moveVars
  BY <1>13 DEF moveVars, MoveFiles, file, todo
<1> QED
  BY <1>2, <1>3, <1>4, <1>5, <1>7, <1>8, <1>9, <1>10, <1>11, <1>12,
     <1>13 DEF MoveNext, MoveStep

-----------------------------------------------------------------------------
(* Success means done.                                                     *)

\* What a call that has met no error has still to do: the directory it is about
\* to list, and the files that are left in every call.
Pending ==
  {x \in Entries : \/ moveAt \in {"mkdir", "list"} /\ x = dir
                   \/ \E i \in 1..Len(dirs) : x \in dirs[i].todo}

Finished(e) == IF op.name = "move" THEN e \notin from ELSE dest[e] = "whole" \/ e \in closeFailed

\* As long as nothing has failed, each file is finished, excluded, or still to come
\* by way of an entry above it.
Covered ==
  moveAt # "idle" /\ ~moveErr /\ ~unread =>
    \A e \in Files(source) : Finished(e) \/ Below(e) \/ Above(e) \cap Pending # {}

\* A move excludes nothing; a copy leaves the source alone and removes nothing.
Operation ==
  /\ op.name \in {"move", "copy"} /\ op.includeDirs \in BOOLEAN
  /\ op.name = "move" => op = NoOp
  /\ op.exclude \subseteq Children(source, Top)
  /\ op.name = "copy" => from = Files(source) /\ moveAt \notin {"chmod", "remove"}
  /\ moveAt = "idle" => op = NoOp /\ \A e \in Entries : dest[e] = "none"
  /\ moveAt = "close" /\ ~moveErr => Finished(file)

\* What a copy leaves out, with all that is below it.
Omitted == {e \in Entries : Below(e)}

\* No call works below what is excluded, so that no copy of it is made.
AtFile == moveAt \in {"open", "create", "copy", "chmod", "remove", "close"}
Outside ==
  /\ \A i \in 1..Len(dirs) : dirs[i].dir \notin Omitted
  /\ dirs # <<>> => /\ dirs[Len(dirs)].dir = Top
                    /\ op.includeDirs \/ dirs[Len(dirs)].todo \subseteq Files(source)
  /\ AtFile => ~(Len(dirs) = 1 /\ file \in op.exclude)
NotCopied == op.name = "copy" => \A e \in Files(source) : Below(e) => dest[e] = "none"

DoneInv == Covered /\ Operation /\ Outside /\ NotCopied

\* The way up from e is the least set that has e and the parents of its members.
LEMMA AboveLeast ==
  ASSUME NEW e, NEW V \in SUBSET Entries, e \in V, \A y \in V \ {Top} : source.parent[y] \in V
  PROVE  Above(e) \subseteq V
<1>1. \A y \in V : Up(source)[y] \subseteq V
  BY DEF Up
<1> QED
  BY <1>1, ReachedLeast DEF Above

\* It begins with e, ends at the top, and leads over parents.
LEMMA AboveFacts ==
  ASSUME source \in Trees, NEW e \in Entries
  PROVE  /\ Above(e) \subseteq Entries /\ e \in Above(e) /\ Top \in Above(e)
         /\ \A x \in Above(e) \ {Top} : source.parent[x] \in Above(e)
<1>0. Up(source) \in [Entries -> SUBSET Entries]
  <2>1. \A x \in Entries \ {Top} : source.parent[x] \in Entries
    BY DEF Trees
  <2> QED
    BY <2>1 DEF Up
<1>1. Above(e) \subseteq Entries /\ e \in Above(e)
  BY <1>0, ReachedFacts DEF Above
<1>2. ASSUME NEW x \in Above(e) \ {Top} PROVE source.parent[x] \in Above(e)
  <2>1. Up(source)[x] \subseteq Above(e)
    BY <1>0, ReachedFacts DEF Above
  <2>2. Up(source)[x] = {source.parent[x]}
    BY <1>1 DEF Up
  <2> QED
    BY <2>1, <2>2
<1>3. Top \in Above(e)
  <2>1. Above(e) \subseteq Nat
    BY <1>1, TreesAssumption DEF Entries
  <2>2. PICK m \in Above(e) : \A y \in Above(e) : m <= y
    BY <1>1, <2>1, LeastExists
  <2>3. ASSUME m # Top PROVE FALSE
    <3>1. source.parent[m] \in Above(e) /\ m \in Entries \ {Top}
      BY <1>1, <1>2, <2>2, <2>3
    <3>2. source.parent[m] < m
      BY <3>1, ParentsFirst
    <3>3. m \in Nat /\ source.parent[m] \in Nat /\ m <= source.parent[m]
      BY <2>1, <2>2, <3>1
    <3> QED
      BY <3>2, <3>3
  <2> QED
    BY <2>2, <2>3
<1> QED
  BY <1>1, <1>2, <1>3

\* Whatever is on the way up from e, other than e, is there as a parent.
LEMMA AboveStep ==
  ASSUME source \in Trees, NEW e \in Entries, NEW x \in Above(e), x # e
  PROVE  \E c \in Above(e) : c \in Children(source, x)
<1> SUFFICES ASSUME \A c \in Above(e) : c \notin Children(source, x) PROVE FALSE
  OBVIOUS
<1> DEFINE V == Above(e) \ {x}
<1>1. V \in SUBSET Entries /\ e \in V
  BY AboveFacts
<1>2. ASSUME NEW y \in V \ {Top} PROVE source.parent[y] \in V
  <2>1. y \in Entries \ {Top} /\ source.parent[y] \in Above(e)
    BY AboveFacts
  <2> QED
    BY <2>1 DEF Children
<1>3. x \in V
  BY <1>1, <1>2, AboveLeast
<1> QED
  BY <1>3

\* A file or link is on no way up but its own.
LEMMA AboveFile ==
  ASSUME source \in Trees, NEW e \in Entries, NEW x \in Above(e), x \in Files(source)
  PROVE  x = e
<1>1. \A c \in Entries \ {Top} : source.kind[source.parent[c]] = "dir"
  BY DEF Trees
<1>2. Children(source, x) = {}
  BY <1>1 DEF Children, Files
<1> QED
  BY <1>2, AboveStep

\* The way up from an entry is the one from its parent, and the entry.
LEMMA AboveChild ==
  ASSUME source \in Trees, NEW d \in Entries, NEW c \in Children(source, d)
  PROVE  Above(c) \subseteq {c} \cup Above(d)
<1> DEFINE V == {c} \cup Above(d)
<1>1. c \in Entries \ {Top} /\ source.parent[c] = d
  BY DEF Children
<1>2. V \in SUBSET Entries /\ c \in V
  BY <1>1, AboveFacts
<1>3. ASSUME NEW y \in V \ {Top} PROVE source.parent[y] \in V
  BY <1>1, AboveFacts
<1> QED
  BY <1>2, <1>3, AboveLeast

\* An entry that is not excluded itself is not below what is excluded, when its
\* directory is not; neither is the first directory, and nothing is in a move.
LEMMA BelowChild ==
  ASSUME source \in Trees, NEW d \in Entries, NEW c \in Children(source, d),
         ~Below(d), c \notin Excludes
  PROVE  ~Below(c)
BY AboveChild DEF Below

LEMMA BelowTop ==
  source \in Trees /\ op.exclude \subseteq Children(source, Top)
    => ~Below(Top) /\ \A e \in Files(source) : Top \in Above(e)
<1> SUFFICES ASSUME source \in Trees, op.exclude \subseteq Children(source, Top)
             PROVE  ~Below(Top) /\ \A e \in Files(source) : Top \in Above(e)
  OBVIOUS
<1>1. Top \in Entries
  BY TreesAssumption DEF Top, Entries
<1>2. {Top} \in SUBSET Entries /\ \A y \in {Top} \ {Top} : source.parent[y] \in {Top}
  BY <1>1
<1>3. Above(Top) \subseteq {Top}
  BY <1>2, AboveLeast
<1>4. Top \notin Excludes
  BY DEF Excludes, Children
<1>5. \A e \in Files(source) : Top \in Above(e)
  BY AboveFacts DEF Files
<1> QED
  BY <1>3, <1>4, <1>5 DEF Below

LEMMA BelowMove == ASSUME op = NoOp, NEW e PROVE ~Below(e)
BY DEF NoOp, Below, Excludes

\* What lies above an entry depends on the tree, what is excluded on the call.
LEMMA SameBelow ==
  ASSUME UNCHANGED <<op, source>>, NEW e
  PROVE  Above(e)' = Above(e) /\ (Below(e)' <=> Below(e)) /\ Omitted' = Omitted
<1>1. Above(e)' = Above(e)
  BY DEF Above
<1>2. Excludes' = Excludes
  BY DEF Excludes
<1>3. \A x \in Entries : Below(x)' <=> Below(x)
  <2> SUFFICES ASSUME NEW x \in Entries PROVE Below(x)' <=> Below(x)
    OBVIOUS
  <2>1. Above(x)' = Above(x)
    BY DEF Above
  <2> QED
    BY <1>2, <2>1 DEF Below
<1>4. Omitted' = Omitted
  BY <1>3 DEF Omitted
<1> QED
  BY <1>1, <1>2, <1>4 DEF Below

\* A file that is excluded by name is in the first directory; so is a directory
\* that is excluded as one, and the call at work there does not list it.
LEMMA FileExcluded ==
  ASSUME MoveInv, Operation, Outside, moveAt # "idle", todo # {}, file \in Excludes
  PROVE  Len(dirs) = 1 /\ file \in op.exclude
<1>1. /\ Len(dirs) \in Nat \ {0} /\ dirs[1] \in MoveFrame /\ dir = dirs[1].dir
      /\ dir \in Entries /\ todo = dirs[1].todo /\ file \in todo /\ file \in Children(source, dir)
  BY Innermost DEF dir, todo
<1>2. file \in Children(source, Top)
  BY DEF Excludes, Operation
<1>3. dir = Top
  BY <1>1, <1>2 DEF Children
<1>4. Len(dirs) = 1
  <2> DEFINE n == Len(dirs)
  <2>1. n \in Nat \ {0} /\ 1 \in 1..n /\ n \in 1..n
    BY <1>1
  <2>2. dirs[n].dir = Top
    BY <2>1 DEF Outside
  <2>3. 1 < n => dirs[n].dir < dirs[1].dir
    BY <2>1 DEF MoveInv, GoesDown
  <2>4. ~(Top < Top)
    BY DEF Top
  <2>5. ~(1 < n)
    BY <1>1, <1>3, <2>2, <2>3, <2>4
  <2> HIDE DEF n
  <2>6. n = 1
    BY <2>1, <2>5
  <2> QED
    BY <2>6 DEF n
<1>5. op.includeDirs \/ file \in Files(source)
  <2>1. dirs # <<>> /\ dirs[Len(dirs)].todo = todo
    BY <1>1, <1>4 DEF MoveInv, GoesDown
  <2> QED
    BY <1>1, <2>1 DEF Outside
<1> QED
  BY <1>4, <1>5 DEF Excludes

-----------------------------------------------------------------------------
\* Steps that leave the calls as they are.
LEMMA SameCallsDone ==
  ASSUME MoveInv, MoveFiles, DoneInv, moveAt # "idle", moveAt' # "idle",
         UNCHANGED <<op, source, dirs>>,
         ~moveErr' => ~moveErr /\ (moveAt \in {"mkdir", "list"} => moveAt' \in {"mkdir", "list"}),
         unread' = unread
  PROVE  /\ dir' = dir /\ todo' = todo /\ file' = file
         /\ \A e \in Entries : Above(e)' = Above(e) /\ (Below(e)' <=> Below(e))
         /\ Omitted' = Omitted
         /\ ~moveErr' => Pending \subseteq Pending'
<1>1. dir' = dir /\ todo' = todo /\ file' = file
  BY DEF dir, todo, file
<1>2. \A e \in Entries : Above(e)' = Above(e) /\ (Below(e)' <=> Below(e))
  BY SameBelow
<1>3. Omitted' = Omitted
  BY SameBelow
<1>4. ~moveErr' => Pending \subseteq Pending'
  BY <1>1 DEF Pending
<1> QED
  BY <1>1, <1>2, <1>3, <1>4

\* The steps that touch no file either.
LEMMA QuietDone ==
  ASSUME MoveInv, MoveFiles, DoneInv, moveAt # "idle", moveAt' # "idle", Quiet,
         ~moveErr' => ~moveErr /\ (moveAt \in {"mkdir", "list"} => moveAt' \in {"mkdir", "list"}),
         unread' = unread,
         moveAt' \in {"chmod", "remove"} => moveAt \in {"chmod", "remove"},
         moveAt' = "close" => moveErr' \/ moveAt = "close",
         AtFile' => AtFile \/ ~(Len(dirs) = 1 /\ file \in op.exclude)
  PROVE  DoneInv'
<1>1. /\ dir' = dir /\ todo' = todo /\ file' = file
      /\ \A e \in Entries : Above(e)' = Above(e) /\ (Below(e)' <=> Below(e))
      /\ Omitted' = Omitted
      /\ ~moveErr' => Pending \subseteq Pending'
  BY SameCallsDone DEF Quiet
<1>2. \A e : Finished(e)' <=> Finished(e)
  BY DEF Finished, Quiet
<1>3. Covered'
  <2> SUFFICES ASSUME ~moveErr', ~unread', NEW e \in Files(source)
               PROVE  Finished(e)' \/ Below(e)' \/ Above(e)' \cap Pending' # {}
    BY DEF Covered, Quiet, Files
  <2>1. e \in Entries /\ (Finished(e) \/ Below(e) \/ Above(e) \cap Pending # {})
    BY DEF DoneInv, Covered, Files
  <2> QED
    BY <1>1, <1>2, <2>1
<1>4. Operation'
  <2>1. moveAt' = "close" /\ ~moveErr' => Finished(file)'
    BY <1>1, <1>2 DEF DoneInv, Operation, Finished, Quiet
  <2> QED
    BY <1>1, <2>1 DEF DoneInv, Operation, Quiet, Children, Files
<1>5. Outside'
  <2>1. \A i \in 1..Len(dirs') : dirs'[i].dir \notin Omitted'
    BY <1>1 DEF DoneInv, Outside, Quiet
  <2> QED
    BY <1>1, <2>1 DEF DoneInv, Outside, Quiet, Files
<1>6. NotCopied'
  <2> SUFFICES ASSUME op.name = "copy", NEW e \in Files(source), Below(e)'
               PROVE  dest[e] = "none"
    BY DEF NotCopied, Quiet, Files
  <2>1. e \in Entries
    BY DEF Files
  <2> QED
    BY <1>1, <2>1 DEF DoneInv, NotCopied
<1> QED
  BY <1>3, <1>4, <1>5, <1>6 DEF DoneInv

\* The steps on the file at hand, which is not excluded: while it is still to be
\* moved it lies on its own way up.
LEMMA FileDone ==
  ASSUME MoveInv, MoveFiles, DoneInv, Create \/ Copy \/ RemoveSource \/ CloseFails
  PROVE  DoneInv'
<1>1. /\ AtFile /\ moveAt # "idle" /\ moveAt' # "idle" /\ UNCHANGED <<op, source, dirs, unread>>
      /\ moveErr' = moveErr \/ moveErr'
      /\ moveAt \notin {"mkdir", "list"} /\ moveAt' \in {"copy", "chmod", "close", "ended"}
  BY DEF Create, Copy, RemoveSource, CloseFails, AtFile
<1>2. /\ dir' = dir /\ todo' = todo /\ file' = file
      /\ \A e \in Entries : Above(e)' = Above(e) /\ (Below(e)' <=> Below(e))
      /\ Omitted' = Omitted
      /\ ~moveErr' => Pending \subseteq Pending'
  <2>1. ~moveErr' => ~moveErr
    BY DEF Create, Copy, RemoveSource, CloseFails
  <2> QED
    BY <1>1, <2>1, SameCallsDone
<1>3. /\ source \in Trees /\ todo # {} /\ file \in Entries /\ file \in Files(source)
      /\ file \in Children(source, dir) /\ dir \in Entries /\ 1 \in 1..Len(dirs)
      /\ dir = dirs[1].dir /\ file \in dirs[1].todo
  BY <1>1, Innermost DEF MoveInv, CopiedFirst, GoesDown, MoveFiles, AtFile, dir, todo
<1>4. ~Below(file)
  <2>1. file \notin Excludes
    BY <1>1, <1>3, FileExcluded DEF DoneInv, Outside
  <2>2. ~Below(dir)
    BY <1>3 DEF DoneInv, Outside, Omitted
  <2> QED
    BY <1>3, <2>1, <2>2, BelowChild
<1>5. /\ from' = from \/ (moveAt = "remove" /\ from' = from \ {file})
      /\ \A e \in Entries : e # file => dest'[e] = dest[e]
      /\ closeFailed \subseteq closeFailed'
      /\ dest' \in [Entries -> {"none", "part", "whole"}]
  <2>1. dest \in [Entries -> {"none", "part", "whole"}]
    BY DEF MoveInv, MoveTypes
  <2> QED
    BY <1>3, <2>1 DEF Create, Copy, RemoveSource, CloseFails
<1>6. Covered'
  <2> SUFFICES ASSUME ~moveErr', ~unread', NEW e \in Files(source)
               PROVE  Finished(e)' \/ Below(e)' \/ Above(e)' \cap Pending' # {}
    BY <1>1 DEF Covered, Files
  <2>1. e \in Entries /\ (Finished(e) \/ Below(e) \/ Above(e) \cap Pending # {})
    BY <1>1 DEF DoneInv, Covered, Files, Create, Copy, RemoveSource, CloseFails
  <2>2. CASE e = file
    <3>1. file \in Pending
      BY <1>3 DEF Pending
    <3>2. file \in Above(file)
      BY <1>3, AboveFacts
    <3> QED
      BY <1>2, <2>1, <2>2, <3>1, <3>2
  <2>3. CASE e # file
    <3>1. Finished(e) => Finished(e)'
      BY <1>1, <1>5, <2>1, <2>3 DEF Finished
    <3> QED
      BY <1>2, <2>1, <3>1
  <2> QED
    BY <2>2, <2>3
<1>7. Operation'
  <2>1. /\ op.name \in {"move", "copy"} /\ op.includeDirs \in BOOLEAN
        /\ op.name = "move" => op = NoOp
        /\ op.exclude \subseteq Children(source', Top)
    BY <1>1 DEF DoneInv, Operation, Children
  <2>2. op.name = "copy" => from' = Files(source') /\ moveAt' \notin {"chmod", "remove"}
    BY <1>1, <1>5 DEF DoneInv, Operation, Files, Create, Copy, RemoveSource, CloseFails
  <2>3. moveAt' = "close" /\ ~moveErr' => Finished(file)'
    <3>1. CASE Create \/ CloseFails
      BY <3>1 DEF Create, CloseFails
    <3>2. CASE Copy
      BY <1>2, <1>3, <2>1, <3>2 DEF Copy, Finished, MoveInv, MoveTypes
    <3>3. CASE RemoveSource
      BY <1>1, <1>2, <2>1, <3>3 DEF RemoveSource, Finished, DoneInv, Operation
    <3> QED
      BY <3>1, <3>2, <3>3
  <2> QED
    BY <1>1, <2>1, <2>2, <2>3 DEF Operation
<1>8. Outside'
  <2>1. \A i \in 1..Len(dirs') : dirs'[i].dir \notin Omitted'
    BY <1>1, <1>2 DEF DoneInv, Outside
  <2> QED
    BY <1>1, <1>2, <2>1 DEF DoneInv, Outside, Files
<1>9. NotCopied'
  <2> SUFFICES ASSUME op.name = "copy", NEW e \in Files(source), Below(e)'
               PROVE  dest'[e] = "none"
    BY <1>1 DEF NotCopied, Files
  <2>1. e \in Entries /\ Below(e) /\ e # file
    BY <1>2, <1>4 DEF Files
  <2> QED
    BY <1>5, <2>1 DEF DoneInv, NotCopied
<1> QED
  BY <1>6, <1>7, <1>8, <1>9 DEF DoneInv

\* The listing: what is below the directory comes by way of an entry in it.
LEMMA ListDone ==
  ASSUME MoveInv, MoveFiles, DoneInv, ListFiles
  PROVE  DoneInv'
<1>1. /\ moveAt = "list" /\ moveAt' = "next"
      /\ UNCHANGED <<op, source, from, dest, moveErr, closeFailed>>
  BY DEF ListFiles
<1> DEFINE there == Children(source, dir) \ (Files(source) \ from)
           includeDirs == op.includeDirs \/ Len(dirs) > 1
           listed(read) == {e \in read : source.kind[e] # "dir" \/ includeDirs}
<1>2. PICK read \in SUBSET there :
        unread' = (unread \/ read # there) /\ dirs' = [dirs EXCEPT ![1].todo = listed(read)]
  BY DEF ListFiles
<1>3. /\ Len(dirs) \in Nat \ {0} /\ dirs[1] \in MoveFrame /\ dir = dirs[1].dir /\ dir \in Entries
      /\ source \in Trees /\ dirs # <<>>
  BY <1>1, Innermost DEF dir, MoveInv, GoesDown
<1>4. /\ Len(dirs') = Len(dirs)
      /\ \A i \in 1..Len(dirs) : dirs'[i].dir = dirs[i].dir
      /\ dirs'[1].todo = listed(read)
      /\ \A i \in 1..Len(dirs) : i # 1 => dirs'[i].todo = dirs[i].todo
  BY <1>2, <1>3 DEF MoveInv, MoveTypes, MoveFrame
<1>5. Omitted' = Omitted /\ \A e \in Entries : Above(e)' = Above(e) /\ (Below(e)' <=> Below(e))
  BY <1>1, SameBelow
<1>6. listed(read) \subseteq Pending'
  BY <1>3, <1>4 DEF Pending, Children
<1>7. \A x \in Pending : x = dir \/ x \in Pending' \/ x \in dirs[1].todo
  BY <1>1, <1>4 DEF Pending
<1>8. dirs[1].todo \subseteq Children(source, dir)
  BY <1>3 DEF MoveInv, GoesDown
<1>9. Covered'
  <2> SUFFICES ASSUME ~moveErr', ~unread', NEW e \in Files(source)
               PROVE  Finished(e)' \/ Below(e)' \/ Above(e)' \cap Pending' # {}
    BY <1>1 DEF Covered, Files
  <2>1. e \in Entries /\ source.kind[e] # "dir" /\ source.kind[dir] = "dir"
    BY <1>1, <1>3 DEF Files, MoveFiles
  <2>2. Finished(e) \/ Below(e) \/ Above(e) \cap Pending # {}
    BY <1>1, <1>2 DEF DoneInv, Covered
  <2>3. ASSUME NEW c \in Above(e), c \in Children(source, dir)
        PROVE  Finished(e) \/ Below(e) \/ Above(e) \cap Pending' # {}
    <3>1. CASE c \in Files(source) \ from
      <4>1. c = e
        BY <1>3, <2>1, <2>3, <3>1, AboveFile
      <4> QED
        BY <3>1, <4>1 DEF Finished, DoneInv, Operation
    <3>2. CASE c \in there /\ source.kind[c] = "dir" /\ ~includeDirs
      <4>1. dir = Top
        <5>1. Len(dirs) = 1
          <6> DEFINE n == Len(dirs)
          <6>1. n \in Nat \ {0} /\ ~(n > 1)
            BY <1>3, <3>2
          <6> HIDE DEF n
          <6>2. n = 1
            BY <6>1
          <6> QED
            BY <6>2 DEF n
        <5> QED
          BY <1>3, <5>1 DEF DoneInv, Outside
      <4>2. c \in Excludes
        BY <3>2, <4>1 DEF Excludes, Files
      <4> QED
        BY <2>3, <4>2 DEF Below
    <3>3. CASE c \in there /\ (source.kind[c] # "dir" \/ includeDirs)
      <4>1. c \in listed(read)
        BY <1>2, <3>3
      <4> QED
        BY <1>6, <2>3, <4>1
    <3> QED
      BY <2>3, <3>1, <3>2, <3>3
  <2>4. ASSUME NEW x \in Above(e), x \in Pending
        PROVE  Finished(e) \/ Below(e) \/ Above(e) \cap Pending' # {}
    <3>1. CASE x = dir
      <4>1. \E c \in Above(e) : c \in Children(source, dir)
        BY <1>3, <2>1, <2>4, <3>1, AboveStep
      <4> QED
        BY <2>3, <4>1
    <3>2. CASE x \in dirs[1].todo
      BY <1>8, <2>3, <2>4, <3>2
    <3>3. CASE x \in Pending'
      BY <2>4, <3>3
    <3> QED
      BY <1>7, <2>4, <3>1, <3>2, <3>3
  <2>5. Finished(e)' <=> Finished(e)
    BY <1>1 DEF Finished
  <2> QED
    BY <1>5, <2>1, <2>2, <2>4, <2>5
<1>10. Operation'
  BY <1>1 DEF DoneInv, Operation, Children, Files
<1>11. Outside'
  <2>1. \A i \in 1..Len(dirs') : dirs'[i].dir \notin Omitted'
    BY <1>4, <1>5 DEF DoneInv, Outside
  <2>2. dirs'[Len(dirs')].dir = Top
    BY <1>3, <1>4 DEF DoneInv, Outside
  <2>3. op.includeDirs \/ dirs'[Len(dirs')].todo \subseteq Files(source)
    <3>1. CASE Len(dirs) = 1
      <4>1. op.includeDirs \/ listed(read) \subseteq Files(source)
        BY <3>1 DEF Files, Children
      <4> QED
        BY <1>4, <3>1, <4>1
    <3>2. CASE Len(dirs) # 1
      <4>1. dirs'[Len(dirs')].todo = dirs[Len(dirs)].todo
        BY <1>3, <1>4, <3>2
      <4> QED
        BY <1>3, <4>1 DEF DoneInv, Outside
    <3> QED
      BY <3>1, <3>2
  <2> QED
    BY <1>1, <2>1, <2>2, <2>3 DEF Outside, AtFile, Files
<1>12. NotCopied'
  <2> SUFFICES ASSUME op.name = "copy", NEW e \in Files(source), Below(e)'
               PROVE  dest[e] = "none"
    BY <1>1 DEF NotCopied, Files
  <2>1. e \in Entries
    BY DEF Files
  <2> QED
    BY <1>5, <2>1 DEF DoneInv, NotCopied
<1> QED
  BY <1>9, <1>10, <1>11, <1>12 DEF DoneInv

\* A call for a directory: what was to come by way of it still is.
LEMMA NextDirDone ==
  ASSUME MoveInv, MoveFiles, DoneInv, NextDir
  PROVE  DoneInv'
<1>1. /\ moveAt = "next" /\ moveAt' = "mkdir" /\ todo # {}
      /\ UNCHANGED <<op, source, from, dest, moveErr, unread, closeFailed>>
      /\ dirs' = <<[dir |-> file, todo |-> {}]>> \o done
      /\ ~(Len(dirs) = 1 /\ file \in op.exclude)
  BY DEF NextDir, unchangedFiles
<1>2. /\ Len(dirs) \in Nat \ {0} /\ dirs[1] \in MoveFrame /\ todo = dirs[1].todo
      /\ dir = dirs[1].dir /\ dir \in Entries /\ file \in todo /\ file \in Entries
      /\ file \in Children(source, dir) /\ source \in Trees /\ dirs # <<>>
  BY <1>1, Innermost DEF dir, todo, MoveInv, GoesDown
<1>3. /\ Len(done) = Len(dirs) /\ done \in Seq(MoveFrame)
      /\ \A i \in 1..Len(dirs) :
           /\ done[i].dir = dirs[i].dir
           /\ done[i].todo = IF i = 1 THEN dirs[1].todo \ {file} ELSE dirs[i].todo
  BY <1>2 DEF MoveInv, MoveTypes, MoveFrame, done
<1>4. [dir |-> file, todo |-> {}] \in MoveFrame
  BY <1>2 DEF MoveFrame
<1>5. /\ Len(dirs') = Len(dirs) + 1 /\ dirs' # <<>>
      /\ dirs'[1] = [dir |-> file, todo |-> {}]
      /\ \A i \in 1..Len(dirs) : i + 1 \in 1..Len(dirs') /\ dirs'[i + 1] = done[i]
      /\ \A i \in 1..Len(dirs') : i = 1 \/ (i - 1 \in 1..Len(dirs) /\ dirs'[i] = done[i - 1])
  <2>1. /\ Len(dirs') = Len(dirs) + 1 /\ dirs'[1] = [dir |-> file, todo |-> {}]
        /\ \A i \in 2..Len(dirs') : dirs'[i] = done[i - 1]
    BY <1>1, <1>2, <1>3, <1>4
  <2>2. dirs' # <<>>
    BY <1>2, <2>1
  <2> DEFINE n == Len(dirs)
             m == Len(dirs')
  <2>3. n \in Nat \ {0} /\ m = n + 1
    BY <1>2, <2>1
  <2>4. /\ \A i \in 1..n : i + 1 \in 2..m /\ i + 1 \in 1..m /\ (i + 1) - 1 = i
        /\ \A i \in 1..m : i = 1 \/ (i \in 2..m /\ i - 1 \in 1..n)
    <3> HIDE DEF n, m
    <3> QED BY <2>3
  <2>5. ASSUME NEW i \in 1..n PROVE dirs'[i + 1] = done[i]
    <3>1. i + 1 \in 2..m /\ (i + 1) - 1 = i
      BY <2>4
    <3>2. dirs'[i + 1] = done[(i + 1) - 1]
      BY <2>1, <3>1
    <3> QED
      BY <3>1, <3>2
  <2> QED
    BY <2>1, <2>2, <2>4, <2>5
<1>6. dir' = file
  BY <1>5 DEF dir
<1>7. Omitted' = Omitted /\ \A e \in Entries : Above(e)' = Above(e) /\ (Below(e)' <=> Below(e))
  BY <1>1, SameBelow
<1>8. Pending \subseteq Pending'
  <2> SUFFICES ASSUME NEW x \in Pending PROVE x \in Pending'
    OBVIOUS
  <2>1. x \in Entries
    BY DEF Pending
  <2>2. CASE x = file
    BY <1>1, <1>6, <2>1, <2>2 DEF Pending
  <2>3. CASE x # file
    <3>1. PICK i \in 1..Len(dirs) : x \in dirs[i].todo
      BY <1>1 DEF Pending
    <3>2. x \in dirs'[i + 1].todo /\ i + 1 \in 1..Len(dirs')
      BY <1>3, <1>5, <2>3, <3>1
    <3> QED
      BY <2>1, <3>2 DEF Pending
  <2> QED
    BY <2>2, <2>3
<1>9. Covered'
  <2> SUFFICES ASSUME ~moveErr', ~unread', NEW e \in Files(source)
               PROVE  Finished(e)' \/ Below(e)' \/ Above(e)' \cap Pending' # {}
    BY <1>1 DEF Covered, Files
  <2>1. e \in Entries /\ (Finished(e) \/ Below(e) \/ Above(e) \cap Pending # {})
    BY <1>1 DEF DoneInv, Covered, Files
  <2>2. Finished(e)' <=> Finished(e)
    BY <1>1 DEF Finished
  <2> QED
    BY <1>7, <1>8, <2>1, <2>2
<1>10. Operation'
  BY <1>1 DEF DoneInv, Operation, Children, Files
<1>11. Outside'
  <2>1. file \notin Omitted
    <3>1. file \notin Excludes
      BY <1>1, <1>2, FileExcluded DEF DoneInv
    <3>2. ~Below(dir)
      BY <1>2 DEF DoneInv, Outside, Omitted
    <3> QED
      BY <1>2, <3>1, <3>2, BelowChild DEF Omitted
  <2>2. ASSUME NEW i \in 1..Len(dirs') PROVE dirs'[i].dir \notin Omitted'
    <3>1. CASE i = 1
      BY <1>5, <1>7, <2>1, <3>1
    <3>2. CASE i # 1
      <4>1. i - 1 \in 1..Len(dirs) /\ dirs'[i].dir = dirs[i - 1].dir
        BY <1>3, <1>5, <2>2, <3>2
      <4> QED
        BY <1>7, <4>1 DEF DoneInv, Outside
    <3> QED
      BY <3>1, <3>2
  <2>3. dirs'[Len(dirs')] = done[Len(dirs)]
    <3>1. Len(dirs) \in 1..Len(dirs)
      BY <1>2
    <3> QED
      BY <1>5, <3>1
  <2>4. /\ dirs'[Len(dirs')].dir = Top
        /\ op.includeDirs \/ dirs'[Len(dirs')].todo \subseteq Files(source)
    <3>1. Len(dirs) \in 1..Len(dirs)
      BY <1>2
    <3>2. /\ dirs[Len(dirs)].dir = Top
          /\ op.includeDirs \/ dirs[Len(dirs)].todo \subseteq Files(source)
      BY <1>2 DEF DoneInv, Outside
    <3>3. done[Len(dirs)].dir = dirs[Len(dirs)].dir
          /\ done[Len(dirs)].todo \subseteq dirs[Len(dirs)].todo
      BY <1>3, <3>1
    <3> QED
      BY <2>3, <3>2, <3>3
  <2> QED
    BY <1>1, <2>2, <2>4 DEF Outside, AtFile, Files
<1>12. NotCopied'
  <2> SUFFICES ASSUME op.name = "copy", NEW e \in Files(source), Below(e)'
               PROVE  dest[e] = "none"
    BY <1>1 DEF NotCopied, Files
  <2>1. e \in Entries
    BY DEF Files
  <2> QED
    BY <1>7, <2>1 DEF DoneInv, NotCopied
<1> QED
  BY <1>9, <1>10, <1>11, <1>12 DEF DoneInv

\* The loop goes on: the file it leaves behind is finished or excluded, and no
\* other file comes by way of it.
LEMMA OnwardDone ==
  ASSUME MoveInv, MoveFiles, DoneInv, Excluded \/ (Close /\ ~moveErr)
  PROVE  DoneInv'
<1>1. /\ moveAt \in {"next", "close"} /\ moveAt' = "next" /\ todo # {} /\ dirs' = done
      /\ UNCHANGED <<op, source, from, dest, moveErr, unread, closeFailed>>
  BY DEF Excluded, Close, unchangedFiles, MoveInv, CopiedFirst
<1>2. /\ Len(dirs) \in Nat \ {0} /\ dirs[1] \in MoveFrame /\ todo = dirs[1].todo
      /\ dir = dirs[1].dir /\ dir \in Entries /\ file \in todo /\ file \in Entries
      /\ source \in Trees /\ dirs # <<>>
  BY <1>1, Innermost DEF dir, todo, MoveInv, GoesDown
<1>3. /\ Len(dirs') = Len(dirs) /\ dirs' # <<>>
      /\ \A i \in 1..Len(dirs) :
           /\ dirs'[i].dir = dirs[i].dir
           /\ dirs'[i].todo = IF i = 1 THEN dirs[1].todo \ {file} ELSE dirs[i].todo
  <2>1. /\ Len(dirs') = Len(dirs)
        /\ \A i \in 1..Len(dirs) :
             /\ dirs'[i].dir = dirs[i].dir
             /\ dirs'[i].todo = IF i = 1 THEN dirs[1].todo \ {file} ELSE dirs[i].todo
    BY <1>1, <1>2 DEF MoveInv, MoveTypes, MoveFrame, done
  <2> QED
    BY <1>2, <2>1
<1>4. Omitted' = Omitted /\ \A e \in Entries : Above(e)' = Above(e) /\ (Below(e)' <=> Below(e))
  BY <1>1, SameBelow
<1>5. \A x \in Pending : x = file \/ x \in Pending'
  BY <1>1, <1>3 DEF Pending
<1>6. Covered'
  <2> SUFFICES ASSUME ~moveErr', ~unread', NEW e \in Files(source)
               PROVE  Finished(e)' \/ Below(e)' \/ Above(e)' \cap Pending' # {}
    BY <1>1 DEF Covered, Files
  <2>1. e \in Entries /\ (Finished(e) \/ Below(e) \/ Above(e) \cap Pending # {})
    BY <1>1 DEF DoneInv, Covered, Files
  <2>2. Finished(e)' <=> Finished(e)
    BY <1>1 DEF Finished
  <2>3. file \in Above(e) => Finished(e) \/ Below(e)
    <3>1. CASE Excluded
      BY <3>1 DEF Excluded, Excludes, Below
    <3>2. CASE Close /\ ~moveErr
      <4>1. file \in Files(source) /\ Finished(file)
        BY <3>2 DEF Close, MoveFiles, DoneInv, Operation
      <4> QED
        BY <1>2, <2>1, <4>1, AboveFile
    <3> QED
      BY <3>1, <3>2
  <2> QED
    BY <1>4, <1>5, <2>1, <2>2, <2>3
<1>7. Operation'
  BY <1>1 DEF DoneInv, Operation, Children, Files
<1>8. Outside'
  <2>1. \A i \in 1..Len(dirs') : dirs'[i].dir \notin Omitted'
    BY <1>3, <1>4 DEF DoneInv, Outside
  <2>2. /\ dirs'[Len(dirs')].dir = Top
        /\ op.includeDirs \/ dirs'[Len(dirs')].todo \subseteq Files(source)
    <3>1. Len(dirs) \in 1..Len(dirs)
      BY <1>2
    <3>2. /\ dirs[Len(dirs)].dir = Top
          /\ op.includeDirs \/ dirs[Len(dirs)].todo \subseteq Files(source)
      BY <1>2 DEF DoneInv, Outside
    <3>3. dirs'[Len(dirs)].dir = dirs[Len(dirs)].dir
          /\ dirs'[Len(dirs)].todo \subseteq dirs[Len(dirs)].todo
      BY <1>3, <3>1
    <3> QED
      BY <1>3, <3>2, <3>3
  <2> QED
    BY <1>1, <2>1, <2>2 DEF Outside, AtFile, Files
<1>9. NotCopied'
  <2> SUFFICES ASSUME op.name = "copy", NEW e \in Files(source), Below(e)'
               PROVE  dest[e] = "none"
    BY <1>1 DEF NotCopied, Files
  <2>1. e \in Entries
    BY DEF Files
  <2> QED
    BY <1>4, <2>1 DEF DoneInv, NotCopied
<1> QED
  BY <1>6, <1>7, <1>8, <1>9 DEF DoneInv

\* A call returns to its caller with nothing left.
LEMMA DirDoneDone ==
  ASSUME MoveInv, MoveFiles, DoneInv, DirDone
  PROVE  DoneInv'
<1>1. /\ moveAt = "next" /\ todo = {}
      /\ UNCHANGED <<op, source, from, dest, moveErr, unread, closeFailed>>
  BY DEF DirDone, unchangedFiles
<1>2. CASE Len(dirs) = 1
  BY <1>1, <1>2, QuietDone DEF DirDone, Quiet, AtFile
<1>3. CASE Len(dirs) # 1
  <2>1. moveAt' = "next" /\ dirs' = Tail(dirs)
    BY <1>3 DEF DirDone
  <2>2. Len(dirs) \in Nat \ {0} /\ dirs[1] \in MoveFrame /\ todo = dirs[1].todo
        /\ dirs \in Seq(MoveFrame) /\ dirs # <<>>
    BY <1>1, Innermost DEF todo, MoveInv, MoveTypes, GoesDown
  <2>3. /\ Len(dirs') = Len(dirs) - 1 /\ dirs' # <<>>
        /\ \A i \in 1..Len(dirs') : i + 1 \in 1..Len(dirs) /\ dirs'[i] = dirs[i + 1]
        /\ \A i \in 1..Len(dirs) : i = 1 \/ (i - 1 \in 1..Len(dirs') /\ dirs'[i - 1] = dirs[i])
        /\ dirs'[Len(dirs')] = dirs[Len(dirs)]
    <3>1. /\ Len(dirs') = Len(dirs) - 1
          /\ \A i \in 1..Len(dirs') : dirs'[i] = dirs[i + 1]
      BY <2>1, <2>2, HeadTailProperties
    <3> DEFINE n == Len(dirs)
               m == Len(dirs')
    <3>2. n \in Nat \ {0, 1} /\ m = n - 1
      BY <1>3, <2>2, <3>1
    <3>3. /\ m > 0 /\ m \in 1..m /\ m + 1 = n
          /\ \A i \in 1..m : i + 1 \in 1..n
          /\ \A i \in 1..n : i = 1 \/ (i - 1 \in 1..m /\ (i - 1) + 1 = i)
      <4> HIDE DEF n, m
      <4> QED BY <3>2
    <3>4. dirs' # <<>>
      BY <3>3
    <3>5. dirs'[m] = dirs[n]
      BY <3>1, <3>3
    <3>6. ASSUME NEW i \in 1..n, i # 1 PROVE i - 1 \in 1..m /\ dirs'[i - 1] = dirs[i]
      <4>1. i - 1 \in 1..m /\ (i - 1) + 1 = i
        BY <3>3, <3>6
      <4>2. dirs'[i - 1] = dirs[(i - 1) + 1]
        BY <3>1, <4>1
      <4> QED
        BY <4>1, <4>2
    <3> QED
      BY <3>1, <3>3, <3>4, <3>5, <3>6
  <2>4. Omitted' = Omitted /\ \A e \in Entries : Above(e)' = Above(e) /\ (Below(e)' <=> Below(e))
    BY <1>1, SameBelow
  <2>5. Pending \subseteq Pending'
    BY <1>1, <2>2, <2>3 DEF Pending
  <2>6. Covered'
    <3> SUFFICES ASSUME ~moveErr', ~unread', NEW e \in Files(source)
                 PROVE  Finished(e)' \/ Below(e)' \/ Above(e)' \cap Pending' # {}
      BY <1>1 DEF Covered, Files
    <3>1. e \in Entries /\ (Finished(e) \/ Below(e) \/ Above(e) \cap Pending # {})
      BY <1>1 DEF DoneInv, Covered, Files
    <3>2. Finished(e)' <=> Finished(e)
      BY <1>1 DEF Finished
    <3> QED
      BY <2>4, <2>5, <3>1, <3>2
  <2>7. Operation'
    BY <1>1, <2>1 DEF DoneInv, Operation, Children, Files
  <2>8. Outside'
    <3>1. \A i \in 1..Len(dirs') : dirs'[i].dir \notin Omitted'
      BY <2>3, <2>4 DEF DoneInv, Outside
    <3>2. /\ dirs'[Len(dirs')].dir = Top
          /\ op.includeDirs \/ dirs'[Len(dirs')].todo \subseteq Files(source)
      BY <2>2, <2>3 DEF DoneInv, Outside
    <3> QED
      BY <1>1, <2>1, <3>1, <3>2 DEF Outside, AtFile, Files
  <2>9. NotCopied'
    <3> SUFFICES ASSUME op.name = "copy", NEW e \in Files(source), Below(e)'
                 PROVE  dest[e] = "none"
      BY <1>1 DEF NotCopied, Files
    <3>1. e \in Entries
      BY DEF Files
    <3> QED
      BY <2>4, <3>1 DEF DoneInv, NotCopied
  <2> QED
    BY <2>6, <2>7, <2>8, <2>9 DEF DoneInv
<1> QED
  BY <1>2, <1>3

\* In the outermost call everything is still to come by way of the top.
LEMMA OutermostDone ==
  ASSUME Outermost, source' \in Trees, op'.exclude \subseteq Children(source', Top)
  PROVE  Covered' /\ Outside'
<1>1. Len(dirs') = 1 /\ dirs' # <<>> /\ dirs'[1] = [dir |-> Top, todo |-> {}] /\ dir' = Top
  BY DEF Outermost, dir
<1>2. ~Below(Top)' /\ (\A e \in Files(source) : Top \in Above(e))'
  <2>1. (source \in Trees /\ op.exclude \subseteq Children(source, Top)
          => ~Below(Top) /\ \A e \in Files(source) : Top \in Above(e))'
    BY BelowTop, PTL
  <2> QED
    BY <2>1
<1>3. ~Below(Top)' /\ \A e \in Files(source') : Top \in Above(e)'
  BY <1>2
<1>4. Top \in Pending'
  <2>1. Top \in Entries
    BY TreesAssumption DEF Top, Entries
  <2> QED
    BY <1>1, <2>1 DEF Pending, Outermost
<1>5. Covered'
  BY <1>3, <1>4 DEF Covered
<1>6. Top \notin Omitted'
  BY <1>3 DEF Omitted
<1>7. Outside'
  BY <1>1, <1>6 DEF Outside, AtFile, Outermost
<1> QED
  BY <1>5, <1>7

\* A new call, a further call and a return.
LEMMA CallsDone ==
  ASSUME MoveInv, MoveFiles, DoneInv, MoveDir \/ CopyDir \/ CallAgain \/ MoveReturns
  PROVE  DoneInv'
<1>1. CASE MoveDir \/ CopyDir
  <2>1. /\ moveAt = "idle" /\ Enters(Top) /\ source' \in Trees /\ from' = Files(source')
        /\ UNCHANGED <<dest, made, moveErr, unread, closeFailed>>
    BY <1>1, MoveAssumption DEF MoveDir, CopyDir
  <2>2. Outermost
    <3>1. dirs = <<>> /\ <<[dir |-> Top, todo |-> {}]>> \in Seq({[dir |-> Top, todo |-> {}]})
      BY <2>1 DEF MoveInv, GoesDown
    <3>2. <<[dir |-> Top, todo |-> {}]>> \o dirs = <<[dir |-> Top, todo |-> {}]>>
      BY <3>1, ConcatEmptySeq
    <3> QED
      BY <2>1, <3>2 DEF Enters, Outermost
  <2>3. op = NoOp /\ \A e \in Entries : dest[e] = "none"
    BY <2>1 DEF DoneInv, Operation
  <2>4. /\ op'.name \in {"move", "copy"} /\ op'.includeDirs \in BOOLEAN
        /\ op'.name = "move" => op' = NoOp
        /\ op'.exclude \subseteq Children(source', Top)
    <3>1. CASE MoveDir
      BY <2>3, <3>1 DEF MoveDir, NoOp
    <3>2. CASE CopyDir
      <4>1. PICK include \in BOOLEAN, exclude \in SUBSET Children(source', Top) :
              op' = [name |-> "copy", includeDirs |-> include, exclude |-> exclude]
        BY <3>2 DEF CopyDir
      <4> QED
        BY <4>1
    <3> QED
      BY <1>1, <3>1, <3>2
  <2>5. moveAt' = "mkdir"
    BY <2>2 DEF Outermost
  <2>6. Operation'
    BY <2>1, <2>4, <2>5 DEF Operation
  <2>7. NotCopied'
    BY <2>1, <2>3 DEF NotCopied, Files
  <2> QED
    BY <2>1, <2>2, <2>4, <2>6, <2>7, OutermostDone DEF DoneInv
<1>2. CASE CallAgain
  <2>1. /\ moveAt = "ended" /\ Outermost /\ UNCHANGED <<op, source, from, dest, closeFailed>>
    BY <1>2 DEF CallAgain, Outermost
  <2>2. source' \in Trees /\ op'.exclude \subseteq Children(source', Top)
    BY <2>1 DEF MoveInv, GoesDown, DoneInv, Operation
  <2>3. Operation'
    BY <2>1 DEF DoneInv, Operation, Outermost, Children, Files
  <2>4. NotCopied'
    <3> SUFFICES ASSUME op.name = "copy", NEW e \in Files(source), Below(e)'
                 PROVE  dest[e] = "none"
      BY <2>1 DEF NotCopied, Files
    <3>1. Below(e)
      BY <2>1, SameBelow
    <3> QED
      BY <3>1 DEF DoneInv, NotCopied
  <2> QED
    BY <2>1, <2>2, <2>3, <2>4, OutermostDone DEF DoneInv
<1>3. CASE MoveReturns
  <2>1. /\ moveAt' = "idle" /\ op' = NoOp /\ source' = Flat /\ from' = {} /\ dirs' = <<>>
        /\ dest' = [e \in Entries |-> "none"]
    BY <1>3 DEF MoveReturns
  <2>2. Covered' /\ Operation' /\ NotCopied'
    BY <2>1 DEF Covered, Operation, NotCopied, NoOp
  <2>3. \A i \in 1..Len(dirs') : FALSE
    BY <2>1
  <2>4. Outside'
    BY <2>1, <2>3 DEF Outside, AtFile
  <2> QED
    BY <2>2, <2>4 DEF DoneInv
<1> QED
  BY <1>1, <1>2, <1>3

\* At the beginning nothing is to be done.
LEMMA DoneInvInit == MoveInit => DoneInv
<1> SUFFICES ASSUME MoveInit PROVE DoneInv
  OBVIOUS
<1>1. /\ moveAt = "idle" /\ op = NoOp /\ source = Flat /\ from = {} /\ dirs = <<>>
      /\ dest = [e \in Entries |-> "none"]
  BY DEF MoveInit
<1>2. Covered /\ Operation /\ NotCopied
  BY <1>1 DEF Covered, Operation, NotCopied, NoOp
<1>3. \A i \in 1..Len(dirs) : FALSE
  BY <1>1
<1>4. Outside
  BY <1>1, <1>3 DEF Outside, AtFile
<1> QED
  BY <1>2, <1>4 DEF DoneInv

\* Every step keeps what is done and what is still to come.
LEMMA DoneInvStep == MoveInv /\ MoveFiles /\ DoneInv /\ [MoveNext]_moveVars => DoneInv'
<1> SUFFICES ASSUME MoveInv, MoveFiles, DoneInv, [MoveNext]_moveVars PROVE DoneInv'
  OBVIOUS
<1>1. CASE CreateDirIfNotExist \/ NextFile \/ Open \/ Chmod \/ CallFails \/ Crash
           \/ (Close /\ moveErr)
  <2>1. moveAt # "idle" /\ moveAt' # "idle" /\ Quiet /\ unread' = unread
    BY <1>1 DEF CreateDirIfNotExist, NextFile, Open, Chmod, CallFails, Crash, Close, Quiet, Goes,
                unchangedFiles
  <2>2. ~moveErr' => ~moveErr /\ (moveAt \in {"mkdir", "list"} => moveAt' \in {"mkdir", "list"})
    BY <1>1 DEF CreateDirIfNotExist, NextFile, Open, Chmod, CallFails, Crash, Close, Goes,
                unchangedFiles
  <2>3. /\ moveAt' \in {"chmod", "remove"} => moveAt \in {"chmod", "remove"}
        /\ moveAt' = "close" => moveErr'
        /\ AtFile' => AtFile \/ ~(Len(dirs) = 1 /\ file \in op.exclude)
    BY <1>1 DEF CreateDirIfNotExist, NextFile, Open, Chmod, CallFails, Crash, Close, Goes, AtFile
  <2> QED
    BY <2>1, <2>2, <2>3, QuietDone
<1>2. CASE Create \/ Copy \/ RemoveSource \/ CloseFails
  BY <1>2, FileDone
<1>3. CASE ListFiles
  BY <1>3, ListDone
<1>4. CASE NextDir
  BY <1>4, NextDirDone
<1>5. CASE Excluded \/ (Close /\ ~moveErr)
  BY <1>5, OnwardDone
<1>6. CASE DirDone
  BY <1>6, DirDoneDone
<1>7. CASE MoveDir \/ CopyDir \/ CallAgain \/ MoveReturns
  BY <1>7, CallsDone
<1>8. CASE UNCHANGED moveVars
  <2>1. UNCHANGED <<moveAt, op, source, from, dest, dirs, moveErr, unread, closeFailed>>
    BY <1>8 DEF moveVars
  <2>2. CASE moveAt # "idle"
    <3>1. AtFile' <=> AtFile
      BY <2>1 DEF AtFile
    <3> QED
      BY <2>1, <2>2, <3>1, QuietDone DEF Quiet
  <2>3. CASE moveAt = "idle"
    <3>1. dirs = <<>> /\ op = NoOp
      BY <2>3 DEF MoveInv, GoesDown, DoneInv, Operation
    <3>2. \A i \in 1..Len(dirs') : FALSE
      BY <2>1, <3>1
    <3>3. Covered' /\ NotCopied'
      BY <2>1, <2>3, <3>1 DEF Covered, NotCopied, NoOp
    <3>4. Operation'
      BY <2>1, <2>3 DEF DoneInv, Operation, Children
    <3>5. Outside'
      BY <2>1, <2>3, <3>1, <3>2 DEF Outside, AtFile
    <3> QED
      BY <3>3, <3>4, <3>5 DEF DoneInv
  <2> QED
    BY <2>2, <2>3
<1> QED
  BY <1>1, <1>2, <1>3, <1>4, <1>5, <1>6, <1>7, <1>8 DEF MoveNext, MoveStep

\* When the outermost call has ended without an error nothing is still to come.
NothingLeft ==
  moveAt = "ended" /\ ~moveErr => \A i \in 1..Len(dirs) : dirs[i].todo = {}

\* It ends at the end of its own list.
LEMMA NothingLeftStep == MoveInv /\ NothingLeft /\ [MoveNext]_moveVars => NothingLeft'
<1> SUFFICES ASSUME MoveInv, NothingLeft, [MoveNext]_moveVars, moveAt' = "ended", ~moveErr'
             PROVE  \A i \in 1..Len(dirs') : dirs'[i].todo = {}
  BY DEF NothingLeft
<1>1. CASE DirDone
  <2>1. moveAt = "next" /\ Len(dirs) = 1 /\ dirs' = dirs /\ todo = {}
    BY <1>1 DEF DirDone
  <2>2. dirs'[1].todo = {} /\ Len(dirs') = 1
    BY <2>1, Innermost DEF todo
  <2> QED
    BY <2>2
<1>2. CASE UNCHANGED moveVars
  BY <1>2 DEF moveVars, NothingLeft
<1>3. CASE ~DirDone /\ ~UNCHANGED moveVars
  BY <1>3 DEF MoveNext, MoveStep, MoveDir, CopyDir, CreateDirIfNotExist, ListFiles, NextDir,
     Excluded, NextFile, Open, Create, Copy, Chmod, RemoveSource, Close, CloseFails, CallFails,
     Crash, CallAgain, MoveReturns, Goes, Enters, unchangedFiles
<1> QED
  BY <1>1, <1>2, <1>3

\* So every file is finished, or excluded and not copied.
LEMMA DoneInvSuccess == MoveInv /\ MoveFiles /\ DoneInv /\ NothingLeft => SuccessMeansDone
<1> SUFFICES ASSUME MoveInv, MoveFiles, DoneInv, NothingLeft, moveAt = "ended", ~moveErr, ~unread
             PROVE  IF op.name = "move"
                      THEN \A e \in Files(source) :
                             e \notin from /\ (dest[e] = "whole" \/ e \in closeFailed)
                      ELSE \A e \in Files(source) \ closeFailed :
                             e \in from /\ dest[e] = IF Below(e) THEN "none" ELSE "whole"
  BY DEF SuccessMeansDone
<1>1. Pending = {}
  BY DEF Pending, NothingLeft
<1>2. \A e \in Files(source) : Finished(e) \/ Below(e)
  BY <1>1 DEF DoneInv, Covered
<1>3. CASE op.name = "move"
  <2>1. op = NoOp
    BY <1>3 DEF DoneInv, Operation
  <2>2. \A e \in Files(source) : e \notin from
    BY <1>2, <1>3, <2>1, BelowMove DEF Finished
  <2> QED
    BY <1>3, <2>2 DEF MoveInv, NothingLost
<1>4. CASE op.name # "move"
  <2>1. op.name = "copy" /\ from = Files(source)
    BY <1>4 DEF DoneInv, Operation
  <2> QED
    BY <1>2, <1>4, <2>1 DEF Finished, DoneInv, NotCopied
<1> QED
  BY <1>3, <1>4

(* For every tree: a call that returns no error, when ListFiles could read *)
(* every directory, has moved every file, or copied every file that is not *)
(* excluded and no other, whatever failed in the calls before it.          *)
THEOREM SuccessIsComplete == MoveSpec => []SuccessMeansDone
<1> DEFINE Inv == MoveInv /\ MoveFiles /\ DoneInv /\ NothingLeft
<1>1. MoveInit => Inv
  BY MoveInvInit, MoveFilesInit, DoneInvInit DEF MoveInit, NothingLeft
<1>2. Inv /\ [MoveNext]_moveVars => Inv'
  BY MoveInvStep, MoveFilesStep, DoneInvStep, NothingLeftStep
<1>3. Inv => SuccessMeansDone
  BY DoneInvSuccess
<1> QED
  BY <1>1, <1>2, <1>3, PTL DEF MoveSpec

-----------------------------------------------------------------------------
(* Walks.                                                                  *)

WalkFrame == [path : Entries, isDir : BOOLEAN, left : SUBSET Entries]

\* The frames of calls that are in directories, each below the next one: a frame
\* belongs to the last link the walk went through to come there (or to none), and
\* what belongs to one link is its frame and, above, ever deeper directories.
Deep(t, fs, via) ==
  /\ via \in [1..Len(fs) -> LinksOf(t.kind) \cup {Nowhere}]
  /\ \A i \in 1..Len(fs) :
       /\ IsLink(t, fs[i].path) => via[i] = fs[i].path
       /\ ~IsLink(t, fs[i].path) => t.kind[fs[i].path] = "dir"
       /\ via[i] # Nowhere => \E k \in i..Len(fs) : fs[k].path = via[i]
  /\ \A i, j \in 1..Len(fs) :
       i < j /\ via[i] = via[j] =>
         /\ ~IsLink(t, fs[i].path)
         /\ IsLink(t, fs[j].path) \/ fs[j].path < fs[i].path

\* The innermost call need not be in a directory, every other one is.
DirsOf(fs) == IF Head(fs).isDir THEN fs ELSE Tail(fs)
Descending(t, fs) ==
  /\ fs # <<>> => \E via : Deep(t, DirsOf(fs), via)
  /\ \A i \in 2..Len(fs) : fs[i].isDir

\* The links to directories that the walk is in are remembered; the innermost
\* call remembers its own after it has asked walkFn.
Remembered ==
  into => \A i \in 1..Len(frames) :
            (i > 1 \/ walkAt \in {"read", "loop"}) /\ IsLink(tree, frames[i].path) =>
              frames[i].path \in visited

WalkTypes ==
  /\ tree \in Trees /\ frames \in Seq(WalkFrame)
  /\ walkAt = "idle" <=> frames = <<>>
  /\ walkAt = "idle" => visited = {}
  /\ walkAt \in {"read", "loop"} => isDir
  /\ walkAt = "visit" /\ isDir => StatIsDir(tree, path)

\* The invariant of a walk: it has its types, it only goes down, or through links
\* it remembers.
WalkInv == WalkTypeOK /\ WalkTypes /\ Descending(tree, frames) /\ Remembered

\* What a path to an entry that is no link leads to.
LEMMA NoLinkResolves ==
  ASSUME NEW t, NEW e \in Entries, ~IsLink(t, e)
  PROVE  /\ Resolve(t, e) = e
         /\ StatIsDir(t, e) => t.kind[e] = "dir"
BY DEF Resolve, StatIsDir

\* A frame is put on top of the others.
LEMMA PushProperties ==
  ASSUME NEW S, NEW fs \in Seq(S), NEW f \in S
  PROVE  /\ <<f>> \o fs \in Seq(S) /\ <<f>> \o fs # <<>>
         /\ Len(<<f>> \o fs) = Len(fs) + 1 /\ (<<f>> \o fs)[1] = f
         /\ \A i \in 2..(Len(fs) + 1) : (<<f>> \o fs)[i] = fs[i - 1]
         /\ Head(<<f>> \o fs) = f /\ Tail(<<f>> \o fs) = fs
<1> DEFINE g == <<f>> \o fs
<1>1. Len(fs) \in Nat /\ <<f>> \in Seq(S) /\ Len(<<f>>) = 1 /\ <<f>>[1] = f
  OBVIOUS
<1>2. g \in Seq(S) /\ Len(g) = Len(fs) + 1 /\ g[1] = f
      /\ \A i \in 2..(Len(fs) + 1) : g[i] = fs[i - 1]
  BY <1>1, ConcatProperties
<1> HIDE DEF g
<1>3. g # <<>> /\ Head(g) = f
  BY <1>1, <1>2
<1>4. Tail(g) \in Seq(S) /\ Len(Tail(g)) = Len(fs) /\ \A i \in 1..Len(fs) : Tail(g)[i] = g[i + 1]
  BY <1>1, <1>2, <1>3, HeadTailProperties
<1>5. \A i \in 1..Len(fs) : Tail(g)[i] = fs[i]
  BY <1>1, <1>2, <1>4
<1>6. Tail(g) = fs
  BY <1>4, <1>5, SeqEqual
<1> QED
  BY <1>2, <1>3, <1>6 DEF g

\* What is deep depends on the paths only.
LEMMA DeepPaths ==
  ASSUME NEW t, NEW fs \in Seq(WalkFrame), NEW gs \in Seq(WalkFrame), NEW via, Deep(t, fs, via),
         Len(gs) = Len(fs), \A i \in 1..Len(fs) : gs[i].path = fs[i].path
  PROVE  Deep(t, gs, via)
BY DEF Deep

\* What is deep stays so without the frame on top.
LEMMA DeepTail ==
  ASSUME NEW t, NEW fs \in Seq(WalkFrame), fs # <<>>, NEW via, Deep(t, fs, via)
  PROVE  \E v : Deep(t, Tail(fs), v)
<1> DEFINE ts == Tail(fs)
           v  == [i \in 1..Len(ts) |-> via[i + 1]]
<1>1. /\ ts \in Seq(WalkFrame) /\ Len(fs) \in Nat \ {0} /\ Len(ts) = Len(fs) - 1
      /\ \A i \in 1..Len(ts) : ts[i] = fs[i + 1]
  BY HeadTailProperties, EmptySeq
<1> HIDE DEF ts
<1>2. \A i \in 1..Len(ts) : i + 1 \in 1..Len(fs) /\ v[i] = via[i + 1]
  BY <1>1
<1>3. v \in [1..Len(ts) -> LinksOf(t.kind) \cup {Nowhere}]
  BY <1>1, <1>2 DEF Deep
<1> HIDE DEF v
<1>4. \A i \in 1..Len(ts) :
        /\ IsLink(t, ts[i].path) => v[i] = ts[i].path
        /\ ~IsLink(t, ts[i].path) => t.kind[ts[i].path] = "dir"
  BY <1>1, <1>2 DEF Deep
<1>5. ASSUME NEW i \in 1..Len(ts), v[i] # Nowhere
      PROVE  \E k \in i..Len(ts) : ts[k].path = v[i]
  <2>1. PICK k \in (i + 1)..Len(fs) : fs[k].path = via[i + 1]
    BY <1>2, <1>5 DEF Deep
  <2>2. k - 1 \in i..Len(ts) /\ ts[k - 1] = fs[k]
    BY <1>1, <2>1
  <2> QED
    BY <1>2, <2>1, <2>2
<1>6. ASSUME NEW i \in 1..Len(ts), NEW j \in 1..Len(ts), i < j, v[i] = v[j]
      PROVE  ~IsLink(t, ts[i].path)
             /\ (IsLink(t, ts[j].path) \/ ts[j].path < ts[i].path)
  <2>1. i + 1 < j + 1 /\ via[i + 1] = via[j + 1]
    BY <1>2, <1>6
  <2> QED
    BY <1>1, <1>2, <2>1 DEF Deep
<1>7. Deep(t, ts, v)
  BY <1>3, <1>4, <1>5, <1>6 DEF Deep
<1> QED
  BY <1>7 DEF ts

\* Going down into a directory, or through a link that the walk is not in.
LEMMA DeepPush ==
  ASSUME NEW t, NEW fs \in Seq(WalkFrame), NEW via, Deep(t, fs, via), NEW f \in WalkFrame,
         \/ /\ ~IsLink(t, f.path) /\ t.kind[f.path] = "dir"
            /\ fs # <<>> /\ ~IsLink(t, fs[1].path) => fs[1].path < f.path
         \/ /\ IsLink(t, f.path)
            /\ \A i \in 1..Len(fs) : fs[i].path # f.path
  PROVE  \E v : Deep(t, <<f>> \o fs, v)
<1> DEFINE gs  == <<f>> \o fs
           top == IF IsLink(t, f.path) THEN f.path
                  ELSE IF fs = <<>> THEN Nowhere ELSE via[1]
           v   == [i \in 1..Len(gs) |-> IF i = 1 THEN top ELSE via[i - 1]]
<1>1. /\ gs \in Seq(WalkFrame) /\ Len(fs) \in Nat /\ Len(gs) = Len(fs) + 1 /\ gs[1] = f
      /\ \A i \in 2..(Len(fs) + 1) : gs[i] = fs[i - 1]
  BY PushProperties
<1> HIDE DEF gs
<1>2. /\ \A i \in 1..Len(fs) : via[i] \in LinksOf(t.kind) \cup {Nowhere}
      /\ fs # <<>> => 1 \in 1..Len(fs)
      /\ f.path \in Entries
  <2>1. \A i \in 1..Len(fs) : via[i] \in LinksOf(t.kind) \cup {Nowhere}
    BY DEF Deep
  <2>2. fs # <<>> => 1 \in 1..Len(fs)
    BY <1>1, EmptySeq
  <2>3. f.path \in Entries
    BY DEF WalkFrame
  <2> QED
    BY <2>1, <2>2, <2>3
<1>3. top \in LinksOf(t.kind) \cup {Nowhere}
  BY <1>2 DEF LinksOf, IsLink
<1>4. /\ \A i \in 2..Len(gs) : i - 1 \in 1..Len(fs) /\ v[i] = via[i - 1] /\ gs[i] = fs[i - 1]
      /\ v[1] = top
  BY <1>1
<1>5. v \in [1..Len(gs) -> LinksOf(t.kind) \cup {Nowhere}]
  BY <1>1, <1>2, <1>3, <1>4
<1> HIDE DEF v
<1>6. ASSUME NEW i \in 1..Len(gs)
      PROVE  /\ IsLink(t, gs[i].path) => v[i] = gs[i].path
             /\ ~IsLink(t, gs[i].path) => t.kind[gs[i].path] = "dir"
             /\ v[i] # Nowhere => \E k \in i..Len(gs) : gs[k].path = v[i]
  <2>1. CASE i > 1
    <3>1. i \in 2..Len(gs)
      BY <2>1
    <3>2. /\ IsLink(t, gs[i].path) => v[i] = gs[i].path
          /\ ~IsLink(t, gs[i].path) => t.kind[gs[i].path] = "dir"
      BY <3>1, <1>4 DEF Deep
    <3>3. ASSUME v[i] # Nowhere
          PROVE  \E k \in i..Len(gs) : gs[k].path = v[i]
      <4>1. PICK k \in (i - 1)..Len(fs) : fs[k].path = via[i - 1]
        BY <3>1, <3>3, <1>4 DEF Deep
      <4>2. k + 1 \in i..Len(gs) /\ gs[k + 1] = fs[k]
        BY <3>1, <4>1, <1>1
      <4> QED
        BY <3>1, <4>1, <4>2, <1>4
    <3> QED
      BY <3>2, <3>3
  <2>2. CASE i = 1
    <3>1. CASE IsLink(t, f.path)
      <4>1. 1 \in 1..Len(gs)
        BY <1>1
      <4> QED
        BY <2>2, <3>1, <4>1, <1>1, <1>4
    <3>2. CASE ~IsLink(t, f.path) /\ fs = <<>>
      BY <2>2, <3>2, <1>1, <1>4
    <3>3. CASE ~IsLink(t, f.path) /\ fs # <<>>
      <4>1. ASSUME via[1] # Nowhere
            PROVE  \E k \in 1..Len(gs) : gs[k].path = via[1]
        <5>1. PICK k \in 1..Len(fs) : fs[k].path = via[1]
          BY <4>1, <3>3, <1>2 DEF Deep
        <5>2. k + 1 \in 1..Len(gs) /\ gs[k + 1] = fs[k]
          BY <5>1, <1>1
        <5> QED
          BY <5>1, <5>2
      <4> QED
        BY <2>2, <3>3, <4>1, <1>1, <1>4
    <3> QED
      BY <3>1, <3>2, <3>3
  <2> QED
    BY <1>1, <2>1, <2>2
<1>7. ASSUME NEW i \in 1..Len(gs), NEW j \in 1..Len(gs), i < j, v[i] = v[j]
      PROVE  ~IsLink(t, gs[i].path)
             /\ (IsLink(t, gs[j].path) \/ gs[j].path < gs[i].path)
  <2>1. j \in 2..Len(gs) /\ j - 1 \in 1..Len(fs) /\ v[j] = via[j - 1] /\ gs[j] = fs[j - 1]
    BY <1>4, <1>7
  <2>2. CASE i > 1
    <3>1. i - 1 \in 1..Len(fs) /\ v[i] = via[i - 1] /\ gs[i] = fs[i - 1] /\ i - 1 < j - 1
      BY <1>4, <1>7, <2>2
    <3> QED
      BY <2>1, <3>1, <1>7 DEF Deep
  <2>3. CASE i = 1
    <3>1. v[i] = top /\ gs[i] = f /\ via[j - 1] = top /\ fs # <<>>
      BY <1>1, <1>4, <1>7, <2>1, <2>3
    <3>2. CASE IsLink(t, f.path)
      <4>1. f.path # Nowhere
        BY <1>2, TreesAssumption DEF Entries, Nowhere
      <4>2. \E k \in (j - 1)..Len(fs) : fs[k].path = f.path
        BY <2>1, <3>1, <3>2, <4>1 DEF Deep
      <4> QED
        BY <2>1, <3>2, <4>2
    <3>3. CASE ~IsLink(t, f.path)
      <4>1. via[j - 1] = via[1] /\ 1 \in 1..Len(fs)
        BY <3>1, <3>3, <1>2
      <4>2. fs[1].path \in Entries /\ fs[j - 1].path \in Entries /\ Entries \subseteq Nat
        <5>1. fs[1] \in WalkFrame /\ fs[j - 1] \in WalkFrame
          BY <2>1, <4>1
        <5>2. Entries \subseteq Nat
          BY TreesAssumption DEF Entries
        <5> QED
          BY <5>1, <5>2 DEF WalkFrame
      <4>3. CASE j - 1 = 1
        BY <2>1, <3>1, <3>3, <4>1, <4>3
      <4>4. CASE j - 1 > 1
        <5>1. ~IsLink(t, fs[1].path)
              /\ (IsLink(t, fs[j - 1].path) \/ fs[j - 1].path < fs[1].path)
          BY <2>1, <4>1, <4>4 DEF Deep
        <5>2. fs[1].path < f.path
          BY <3>1, <3>3, <5>1
        <5>3. \A a, b, c \in Nat : a < b /\ b < c => a < c
          OBVIOUS
        <5>4. f.path \in Nat
          BY <1>2, <4>2
        <5>5. IsLink(t, fs[j - 1].path) \/ fs[j - 1].path < f.path
          BY <4>2, <5>1, <5>2, <5>3, <5>4
        <5> QED
          BY <2>1, <3>1, <3>3, <5>5
      <4> QED
        BY <2>1, <4>3, <4>4
    <3> QED
      BY <3>2, <3>3
  <2> QED
    BY <1>1, <2>2, <2>3
<1>8. Deep(t, gs, v)
  BY <1>5, <1>6, <1>7 DEF Deep
<1> QED
  BY <1>8 DEF gs

\* A walk that starts is in one directory.
LEMMA DeepFirst ==
  ASSUME NEW t, NEW f \in WalkFrame, IsLink(t, f.path) \/ t.kind[f.path] = "dir"
  PROVE  \E v : Deep(t, <<f>>, v)
<1>1. <<>> \in Seq(WalkFrame) /\ Len(<<>>) = 0
  BY EmptySeq
<1>2. Deep(t, <<>>, <<>>)
  BY <1>1 DEF Deep
<1>3. <<f>> \o <<>> = <<f>>
  BY DEF WalkFrame
<1>4. \E v : Deep(t, <<f>> \o <<>>, v)
  <2>1. \A i \in 1..Len(<<>>) : <<>>[i].path # f.path
    BY <1>1
  <2> DEFINE fs == <<>>
  <2>2. /\ fs \in Seq(WalkFrame) /\ fs = <<>> /\ Deep(t, fs, <<>>)
        /\ \A i \in 1..Len(fs) : fs[i].path # f.path
    BY <1>1, <1>2, <2>1
  <2> HIDE DEF fs
  <2>3. \E v : Deep(t, <<f>> \o fs, v)
    BY <2>2, DeepPush
  <2> QED
    BY <2>3 DEF fs
<1> QED
  BY <1>3, <1>4

\* No more calls than there are pairs of a link, or none, and a directory of the
\* tree, or the frame of the link.
LEMMA DeepBound ==
  ASSUME NEW t, NEW fs \in Seq(WalkFrame), NEW via, Deep(t, fs, via)
  PROVE  LET dirCount == Cardinality({e \in Entries : t.kind[e] = "dir"})
             linkCount == Cardinality({e \in Entries : IsLink(t, e)})
         IN  Len(fs) + 1 <= (linkCount + 1) * (dirCount + 1)
<1> DEFINE D == {e \in Entries : t.kind[e] = "dir"}
           L == {e \in Entries : IsLink(t, e)}
           A == L \cup {Nowhere}
           B == D \cup {Nowhere}
           P == (A \X B) \ {<<Nowhere, Nowhere>>}
           g == [i \in 1..Len(fs) |->
                   <<via[i], IF IsLink(t, fs[i].path) THEN Nowhere ELSE fs[i].path>>]
<1>1. IsFiniteSet(Entries) /\ Nowhere \notin Entries /\ Entries \subseteq Nat
  BY FS_Interval, TreesAssumption DEF Entries, Nowhere
<1>2. D \in SUBSET Entries /\ L \in SUBSET Entries /\ L = LinksOf(t.kind)
  BY DEF LinksOf, IsLink
<1>3. /\ \A i \in 1..Len(fs) : fs[i] \in WalkFrame /\ fs[i].path \in Entries
      /\ Len(fs) \in Nat
  <2>1. Len(fs) \in Nat /\ \A i \in 1..Len(fs) : fs[i] \in WalkFrame
    OBVIOUS
  <2>2. \A f \in WalkFrame : f.path \in Entries
    BY DEF WalkFrame
  <2> QED
    BY <2>1, <2>2
<1>4. \A i \in 1..Len(fs) : via[i] \in A
  BY <1>2 DEF Deep
<1> HIDE DEF D, L
<1>5. /\ IsFiniteSet(D) /\ IsFiniteSet(L) /\ Cardinality(D) \in Nat /\ Cardinality(L) \in Nat
      /\ Nowhere \notin D /\ Nowhere \notin L
  BY <1>1, <1>2, FS_Subset, FS_CardinalityType
<1>6. /\ IsFiniteSet(A) /\ Cardinality(A) = Cardinality(L) + 1
      /\ IsFiniteSet(B) /\ Cardinality(B) = Cardinality(D) + 1
  BY <1>5, FS_AddElement
<1>7. IsFiniteSet(A \X B) /\ Cardinality(A \X B) = (Cardinality(L) + 1) * (Cardinality(D) + 1)
      /\ Cardinality(A \X B) \in Nat
  <2> HIDE DEF A, B
  <2>1. IsFiniteSet(A \X B) /\ Cardinality(A \X B) = Cardinality(A) * Cardinality(B)
    BY <1>6, FS_Product
  <2> QED
    BY <1>6, <2>1, FS_CardinalityType
<1>8. <<Nowhere, Nowhere>> \in A \X B
  OBVIOUS
<1>9. IsFiniteSet(P) /\ Cardinality(P) = Cardinality(A \X B) - 1
  <2> HIDE DEF A, B
  <2> QED
    BY <1>7, <1>8, FS_RemoveElement
<1>10. \A i \in 1..Len(fs) : g[i] \in P
  <2> SUFFICES ASSUME NEW i \in 1..Len(fs) PROVE g[i] \in P
    OBVIOUS
  <2>1. CASE IsLink(t, fs[i].path)
    <3>1. via[i] = fs[i].path
      BY <2>1 DEF Deep
    <3>2. g[i] = <<via[i], Nowhere>> /\ via[i] # Nowhere
      BY <2>1, <3>1, <1>1, <1>3
    <3> QED
      BY <1>4, <3>2
  <2>2. CASE ~IsLink(t, fs[i].path)
    <3>1. fs[i].path \in D /\ fs[i].path # Nowhere
      BY <2>2, <1>1, <1>3 DEF Deep, D
    <3>2. g[i] = <<via[i], fs[i].path>>
      BY <2>2
    <3> QED
      BY <1>4, <3>1, <3>2
  <2> QED
    BY <2>1, <2>2
<1>11. \A i, j \in 1..Len(fs) : i < j => g[i] # g[j]
  <2> SUFFICES ASSUME NEW i \in 1..Len(fs), NEW j \in 1..Len(fs), i < j, g[i] = g[j]
               PROVE  FALSE
    OBVIOUS
  <2> DEFINE h(k) == IF IsLink(t, fs[k].path) THEN Nowhere ELSE fs[k].path
  <2>1. g[i] = <<via[i], h(i)>> /\ g[j] = <<via[j], h(j)>>
    OBVIOUS
  <2>2. via[i] = via[j] /\ h(i) = h(j)
    BY <2>1
  <2>3. ~IsLink(t, fs[i].path) /\ (IsLink(t, fs[j].path) \/ fs[j].path < fs[i].path)
    BY <2>2 DEF Deep
  <2>4. fs[i].path # Nowhere /\ fs[i].path \in Nat
    BY <1>1, <1>3
  <2> QED
    BY <2>2, <2>3, <2>4
<1>12. g \in [1..Len(fs) -> P]
  <2> HIDE DEF P
  <2> QED
    BY <1>10
<1> HIDE DEF g, P
<1>13. \A i, j \in 1..Len(fs) : g[i] = g[j] => i = j
  BY <1>3, <1>11
<1>14. g \in Injection(1..Len(fs), P)
  BY <1>12, <1>13, Fun_IsInj
<1>15. Cardinality(1..Len(fs)) = Len(fs)
  <2>1. ASSUME NEW n \in Nat
        PROVE  Cardinality(1..n) = n
    <3>1. Cardinality(1..n) = IF 1 > n THEN 0 ELSE n - 1 + 1
      BY FS_Interval
    <3> QED
      BY <3>1
  <2> QED
    BY <1>3, <2>1
<1>16. Len(fs) <= Cardinality(P)
  BY <1>9, <1>14, <1>15, FS_Injection
<1> QED
  BY <1>3, <1>7, <1>9, <1>16 DEF D, L

\* Names are taken from the innermost frame: the paths stay.
LEMMA LeftChanged ==
  ASSUME NEW fs \in Seq(WalkFrame), fs # <<>>, NEW S \in SUBSET Entries
  PROVE  LET gs == [fs EXCEPT ![1].left = S]
         IN  /\ gs \in Seq(WalkFrame) /\ Len(gs) = Len(fs) /\ gs # <<>>
             /\ \A i \in 1..Len(fs) : gs[i].path = fs[i].path /\ gs[i].isDir = fs[i].isDir
             /\ \A i \in 2..Len(fs) : gs[i] = fs[i]
             /\ gs[1].left = S /\ Head(gs) = gs[1] /\ Head(fs) = fs[1]
<1> DEFINE gs == [fs EXCEPT ![1].left = S]
<1>1. Len(fs) \in Nat \ {0} /\ 1 \in 1..Len(fs) /\ \A i \in 1..Len(fs) : fs[i] \in WalkFrame
  BY EmptySeq
<1>2. [fs[1] EXCEPT !.left = S] \in WalkFrame
  BY <1>1 DEF WalkFrame
<1>3. /\ gs[1] = [fs[1] EXCEPT !.left = S] /\ \A i \in 2..Len(fs) : gs[i] = fs[i]
      /\ gs = [fs EXCEPT ![1] = [fs[1] EXCEPT !.left = S]]
  BY <1>1
<1>4. gs \in Seq(WalkFrame) /\ Len(gs) = Len(fs)
  BY <1>1, <1>2, <1>3, ExceptSeq
<1>5. gs[1].path = fs[1].path /\ gs[1].isDir = fs[1].isDir /\ gs[1].left = S
  BY <1>1, <1>3 DEF WalkFrame
<1> HIDE DEF gs
<1>6. \A i \in 1..Len(fs) : i = 1 \/ i \in 2..Len(fs)
  BY <1>1
<1>7. gs # <<>> /\ Head(gs) = gs[1] /\ Head(fs) = fs[1]
  BY <1>1, <1>4, EmptySeq
<1> QED
  BY <1>3, <1>4, <1>5, <1>6, <1>7 DEF gs

\* A change of the names left is none of how deep the walk is.
LEMMA DescendingKept ==
  ASSUME NEW t, NEW fs \in Seq(WalkFrame), NEW gs \in Seq(WalkFrame), fs # <<>>,
         Len(gs) = Len(fs), Descending(t, fs),
         \A i \in 1..Len(fs) : gs[i].path = fs[i].path /\ gs[i].isDir = fs[i].isDir
  PROVE  Descending(t, gs)
<1>1. Len(fs) \in Nat \ {0} /\ gs # <<>> /\ Head(fs) = fs[1] /\ Head(gs) = gs[1]
      /\ 1 \in 1..Len(fs)
  BY EmptySeq
<1>2. PICK via : Deep(t, DirsOf(fs), via)
  BY DEF Descending
<1>3. CASE fs[1].isDir
  <2>1. DirsOf(fs) = fs /\ DirsOf(gs) = gs
    BY <1>1, <1>3 DEF DirsOf
  <2>2. Deep(t, gs, via)
    BY <1>2, <2>1, DeepPaths
  <2> QED
    BY <1>1, <2>1, <2>2 DEF Descending
<1>4. CASE ~fs[1].isDir
  <2>1. DirsOf(fs) = Tail(fs) /\ DirsOf(gs) = Tail(gs)
    BY <1>1, <1>4 DEF DirsOf
  <2>2. /\ Tail(fs) \in Seq(WalkFrame) /\ Tail(gs) \in Seq(WalkFrame)
        /\ Len(Tail(gs)) = Len(Tail(fs)) /\ Len(Tail(fs)) = Len(fs) - 1
        /\ \A i \in 1..Len(Tail(fs)) : Tail(fs)[i] = fs[i + 1] /\ Tail(gs)[i] = gs[i + 1]
    BY <1>1, HeadTailProperties
  <2>3. \A i \in 1..Len(Tail(fs)) : Tail(gs)[i].path = Tail(fs)[i].path
    BY <1>1, <2>2
  <2>4. Deep(t, Tail(gs), via)
    BY <1>2, <2>1, <2>2, <2>3, DeepPaths
  <2> QED
    BY <1>1, <2>1, <2>4 DEF Descending
<1> QED
  BY <1>3, <1>4

\* A call returns to its caller, which is in a directory.
LEMMA DescendingTail ==
  ASSUME NEW t, NEW fs \in Seq(WalkFrame), Len(fs) > 1, Descending(t, fs)
  PROVE  Descending(t, Tail(fs))
<1>1. Len(fs) \in Nat \ {0} /\ fs # <<>> /\ Head(fs) = fs[1]
  BY EmptySeq
<1> DEFINE ts == Tail(fs)
<1>2. /\ ts \in Seq(WalkFrame) /\ Len(ts) = Len(fs) - 1
      /\ \A i \in 1..Len(ts) : ts[i] = fs[i + 1]
  BY <1>1, HeadTailProperties
<1>3. \E v : Deep(t, ts, v)
  BY <1>1, DeepTail DEF Descending, DirsOf
<1> HIDE DEF ts
<1>4. \A i \in 1..Len(ts) : ts[i].isDir
  BY <1>1, <1>2 DEF Descending
<1>5. ts # <<>> /\ 1 \in 1..Len(ts) /\ Head(ts) = ts[1]
  BY <1>1, <1>2, EmptySeq
<1>6. DirsOf(ts) = ts
  BY <1>4, <1>5 DEF DirsOf
<1>7. \A i \in 2..Len(ts) : ts[i].isDir
  BY <1>2, <1>4
<1> QED
  BY <1>3, <1>6, <1>7 DEF Descending, ts

\* A walk that starts.
LEMMA DescendingFirst ==
  ASSUME NEW t, NEW f \in WalkFrame, f.isDir => StatIsDir(t, f.path)
  PROVE  Descending(t, <<f>>)
<1>1. Head(<<f>>) = f /\ Tail(<<f>>) = <<>> /\ <<f>> # <<>> /\ Len(<<f>>) = 1 /\ Len(<<>>) = 0
  OBVIOUS
<1>2. CASE f.isDir
  <2>1. f.path \in Entries
    BY DEF WalkFrame
  <2>2. IsLink(t, f.path) \/ t.kind[f.path] = "dir"
    BY <1>2, <2>1, NoLinkResolves
  <2>3. \E v : Deep(t, DirsOf(<<f>>), v)
    BY <1>1, <1>2, <2>2, DeepFirst DEF DirsOf
  <2> QED
    BY <1>1, <2>3 DEF Descending
<1>3. CASE ~f.isDir
  <2>1. Deep(t, <<>>, <<>>)
    BY <1>1, EmptySeq DEF Deep
  <2> QED
    BY <1>1, <1>3, <2>1 DEF Descending, DirsOf
<1> QED
  BY <1>2, <1>3

\* A call for a name that is left: its directory is deeper, or the link is one
\* that the walk is not in.
LEMMA DescendingPush ==
  ASSUME NEW t \in Trees, NEW fs \in Seq(WalkFrame), fs # <<>>, Descending(t, fs), Head(fs).isDir,
         NEW f \in WalkFrame, f.path \in Children(t, Resolve(t, fs[1].path)),
         f.isDir => StatIsDir(t, f.path),
         f.isDir /\ IsLink(t, f.path) => \A i \in 1..Len(fs) : fs[i].path # f.path
  PROVE  Descending(t, <<f>> \o fs)
<1> DEFINE gs == <<f>> \o fs
<1>1. /\ gs \in Seq(WalkFrame) /\ gs # <<>> /\ Len(gs) = Len(fs) + 1 /\ gs[1] = f
      /\ \A i \in 2..(Len(fs) + 1) : gs[i] = fs[i - 1]
      /\ Head(gs) = f /\ Tail(gs) = fs /\ Len(fs) \in Nat \ {0} /\ Head(fs) = fs[1]
  BY PushProperties, EmptySeq
<1> HIDE DEF gs
<1>2. \A i \in 2..Len(gs) : gs[i].isDir
  <2> SUFFICES ASSUME NEW i \in 2..Len(gs) PROVE gs[i].isDir
    OBVIOUS
  <2>1. gs[i] = fs[i - 1] /\ i - 1 \in 1..Len(fs)
    BY <1>1
  <2>2. CASE i = 2
    BY <1>1, <2>1, <2>2
  <2>3. CASE i > 2
    <3>1. i - 1 \in 2..Len(fs)
      BY <2>1, <2>3
    <3> QED
      BY <2>1, <3>1 DEF Descending
  <2> QED
    BY <2>2, <2>3
<1>3. PICK via : Deep(t, fs, via)
  BY DEF Descending, DirsOf
<1>4. CASE f.isDir
  <2>0. DirsOf(gs) = gs
    BY <1>1, <1>4 DEF DirsOf
  <2>1. /\ f.path \in Entries \ {Top} /\ t.parent[f.path] = Resolve(t, fs[1].path)
        /\ fs[1].path \in Entries
    <3>1. fs[1] \in WalkFrame
      BY <1>1
    <3> QED
      BY <3>1 DEF Children, WalkFrame
  <2>2. CASE IsLink(t, f.path)
    <3>1. \E v : Deep(t, gs, v)
      BY <1>3, <1>4, <2>2, DeepPush DEF gs
    <3> QED
      BY <1>2, <2>0, <3>1 DEF Descending, gs
  <2>3. CASE ~IsLink(t, f.path)
    <3>1. t.kind[f.path] = "dir"
      BY <1>4, <2>1, <2>3, NoLinkResolves
    <3>2. ~IsLink(t, fs[1].path) => fs[1].path < f.path
      BY <2>1, NoLinkResolves, ParentsFirst
    <3>3. \E v : Deep(t, gs, v)
      BY <1>3, <2>3, <3>1, <3>2, DeepPush DEF gs
    <3> QED
      BY <1>2, <2>0, <3>3 DEF Descending, gs
  <2> QED
    BY <2>2, <2>3
<1>5. CASE ~f.isDir
  <2>1. DirsOf(gs) = fs
    BY <1>1, <1>5 DEF DirsOf
  <2> QED
    BY <1>2, <1>3, <2>1 DEF Descending, gs
<1> QED
  BY <1>4, <1>5 DEF gs

\* The name that is taken next is one that is left.
LEMMA NameIsLeft ==
  ASSUME left \in SUBSET Entries, left # {}
  PROVE  name \in left
<1>1. Entries \subseteq Nat
  BY TreesAssumption DEF Entries
<1>2. \E e \in left : \A f \in left : e <= f
  BY <1>1, LeastExists
<1> QED
  BY <1>2 DEF name

\* What a frame is made of.
FramesTyped(t, fs) ==
  \A i \in 1..Len(fs) :
    fs[i].path \in Entries /\ fs[i].left \subseteq Children(t, Resolve(t, fs[i].path))

\* A step of a call that leaves the calls where they are keeps the invariant.
LEMMA WalkQuietStep ==
  ASSUME WalkInv, frames # <<>>, tree' = tree, into' = into,
         visited \subseteq visited',
         visited' \subseteq {e \in Entries : IsLink(tree, e) /\ StatIsDir(tree, e)},
         frames' \in Seq(WalkFrame), Len(frames') = Len(frames), FramesTyped(tree, frames'),
         \A i \in 1..Len(frames) : /\ frames'[i].path = frames[i].path
                                   /\ frames'[i].isDir = frames[i].isDir,
         walkAt' \in {"read", "loop", "return"},
         walkAt' # "return" => isDir /\ (into /\ IsLink(tree, path) => path \in visited'),
         walkErr' \in Results, told' \subseteq Entries, cut' \in BOOLEAN, refused' \in BOOLEAN
  PROVE  WalkInv'
<1>1. /\ frames \in Seq(WalkFrame) /\ Len(frames) \in Nat \ {0} /\ frames' # <<>>
      /\ Head(frames) = frames[1] /\ Head(frames') = frames'[1] /\ 1 \in 1..Len(frames)
  BY EmptySeq DEF WalkInv, WalkTypes
<1>2. WalkTypeOK'
  BY DEF WalkInv, WalkTypeOK, FramesTyped
<1>3. isDir' = isDir /\ path' = path
  BY <1>1 DEF isDir, path
<1>4. WalkTypes'
  BY <1>1, <1>3 DEF WalkInv, WalkTypes
<1>5. Descending(tree, frames)'
  <2>1. Descending(tree, frames')
    BY <1>1, DescendingKept DEF WalkInv
  <2> QED
    BY <2>1 DEF Descending
<1>6. Remembered'
  <2> SUFFICES ASSUME into', NEW i \in 1..Len(frames'),
                      i > 1 \/ walkAt' \in {"read", "loop"},
                      IsLink(tree', frames'[i].path)
               PROVE  frames'[i].path \in visited'
    BY DEF Remembered
  <2>1. i \in 1..Len(frames) /\ frames'[i].path = frames[i].path
    OBVIOUS
  <2>2. CASE i > 1
    BY <2>1, <2>2 DEF WalkInv, Remembered
  <2>3. CASE i = 1
    BY <1>1, <2>1, <2>3 DEF path
  <2> QED
    BY <1>1, <2>2, <2>3
<1> QED
  BY <1>2, <1>4, <1>5, <1>6 DEF WalkInv

\* A step that takes names from the innermost frame, or lists them.
LEMMA WalkNamesStep ==
  ASSUME WalkInv, frames # <<>>, tree' = tree, into' = into, visited' = visited,
         NEW S \in SUBSET Children(tree, Resolve(tree, path)),
         frames' = [frames EXCEPT ![1].left = S],
         walkAt \in {"read", "loop"}, walkAt' \in {"loop", "return"},
         walkErr' \in Results, told' \subseteq Entries, cut' \in BOOLEAN, refused' \in BOOLEAN
  PROVE  WalkInv'
<1>1. S \in SUBSET Entries
  BY DEF Children
<1>2. frames \in Seq(WalkFrame) /\ Len(frames) \in Nat \ {0}
  BY EmptySeq DEF WalkInv, WalkTypes
<1>3. /\ frames' \in Seq(WalkFrame) /\ Len(frames') = Len(frames)
      /\ \A i \in 1..Len(frames) : /\ frames'[i].path = frames[i].path
                                   /\ frames'[i].isDir = frames[i].isDir
      /\ \A i \in 2..Len(frames) : frames'[i] = frames[i]
      /\ frames'[1].left = S /\ Head(frames) = frames[1]
  <2> DEFINE gs == [frames EXCEPT ![1].left = S]
  <2>1. /\ gs \in Seq(WalkFrame) /\ Len(gs) = Len(frames)
        /\ \A i \in 1..Len(frames) : /\ gs[i].path = frames[i].path
                                     /\ gs[i].isDir = frames[i].isDir
        /\ \A i \in 2..Len(frames) : gs[i] = frames[i]
        /\ gs[1].left = S /\ Head(frames) = frames[1]
    BY <1>1, <1>2, LeftChanged
  <2>2. frames' = gs
    OBVIOUS
  <2> HIDE DEF gs
  <2> QED
    BY <2>1, <2>2
<1>4. FramesTyped(tree, frames')
  <2> SUFFICES ASSUME NEW i \in 1..Len(frames)
               PROVE  /\ frames'[i].path \in Entries
                      /\ frames'[i].left \subseteq Children(tree, Resolve(tree, frames'[i].path))
    BY <1>3 DEF FramesTyped
  <2>1. CASE i = 1
    BY <1>3, <2>1 DEF WalkInv, WalkTypeOK, path
  <2>2. CASE i > 1
    BY <1>3, <2>2 DEF WalkInv, WalkTypeOK
  <2> QED
    BY <1>2, <2>1, <2>2
<1>5. isDir /\ (into /\ IsLink(tree, path) => path \in visited)
  BY <1>2, <1>3 DEF WalkInv, WalkTypes, Remembered, path
<1> QED
  BY <1>3, <1>4, <1>5, WalkQuietStep DEF WalkInv, WalkTypeOK

\* A step that leaves the frames alone.
LEMMA WalkSameFrames ==
  ASSUME WalkInv, frames # <<>>, tree' = tree, into' = into, frames' = frames,
         visited \subseteq visited',
         visited' \subseteq visited \cup {l \in {path} : IsLink(tree, l) /\ StatIsDir(tree, l)},
         walkAt' \in {"read", "return"},
         walkAt' # "return" => isDir /\ (into /\ IsLink(tree, path) => path \in visited'),
         walkErr' \in Results, told' \subseteq Entries, cut' \in BOOLEAN, refused' \in BOOLEAN
  PROVE  WalkInv'
<1>1. /\ frames \in Seq(WalkFrame) /\ Len(frames) \in Nat \ {0} /\ Head(frames) = frames[1]
      /\ 1 \in 1..Len(frames)
  BY EmptySeq DEF WalkInv, WalkTypes
<1>2. path \in Entries
  BY <1>1 DEF WalkInv, WalkTypeOK, path
<1>3. /\ visited \subseteq visited'
      /\ visited' \subseteq {e \in Entries : IsLink(tree, e) /\ StatIsDir(tree, e)}
  BY <1>2 DEF WalkInv, WalkTypeOK
<1>4. FramesTyped(tree, frames)
  BY DEF WalkInv, WalkTypeOK, FramesTyped
<1> QED
  BY <1>1, <1>3, <1>4, WalkQuietStep

\* The tree of an idle walk is one.
LEMMA NoTreeIsATree == NoTree \in Trees
<1>1. Top \in Entries /\ Entries \subseteq Nat /\ \A e \in Entries \ {Top} : Top < e
  BY TreesAssumption DEF Entries, Top
<1> DEFINE k == [e \in Entries |-> "dir"]
           p == [e \in Entries \ {Top} |-> Top]
<1>2. /\ k \in [Entries -> {"dir", "file", "link"}] /\ k[Top] = "dir"
      /\ \A e \in Entries : k[e] = "dir"
  BY <1>1
<1>3. p \in [Entries \ {Top} -> Entries] /\ \A e \in Entries \ {Top} : p[e] = Top
  BY <1>1
<1>4. LinksOf(k) = {}
  BY <1>2 DEF LinksOf
<1>5. [e \in {} |-> Nowhere] \in [LinksOf(k) -> Entries \cup {Nowhere}]
  BY <1>4
<1>6. NoTree = [kind |-> k, parent |-> p, target |-> [e \in {} |-> Nowhere]]
  BY DEF NoTree
<1> HIDE DEF k, p
<1> DEFINE Ps(q) == {x \in [Entries \ {Top} -> Entries] :
                       \A e \in Entries \ {Top} : x[e] < e /\ q[x[e]] = "dir"}
           Ts(q) == [LinksOf(q) -> Entries \cup {Nowhere}]
           Ks == {q \in [Entries -> {"dir", "file", "link"}] : q[Top] = "dir"}
<1>7. p \in Ps(k) /\ [e \in {} |-> Nowhere] \in Ts(k) /\ k \in Ks
  BY <1>1, <1>2, <1>3, <1>5
<1>8. Trees = UNION {{[kind |-> q, parent |-> x, target |-> y] : x \in Ps(q), y \in Ts(q)} :
                     q \in Ks}
  BY DEF Trees
<1> HIDE DEF Ps, Ts, Ks
<1>9. NoTree \in {[kind |-> k, parent |-> x, target |-> y] : x \in Ps(k), y \in Ts(k)}
  BY <1>6, <1>7
<1> QED
  BY <1>7, <1>8, <1>9

\* No walk is in progress.
WalkIdle ==
  /\ walkAt = "idle" /\ tree \in Trees /\ into \in BOOLEAN /\ frames = <<>> /\ visited = {}
  /\ walkErr = "nil" /\ told = {} /\ cut = FALSE /\ refused = FALSE

\* An idle walk satisfies the invariant.
LEMMA IdleWalkInv == WalkIdle => WalkInv
<1> SUFFICES ASSUME WalkIdle PROVE WalkInv
  OBVIOUS
<1> USE DEF WalkIdle
<1>1. frames \in Seq(WalkFrame) /\ Len(frames) = 0
  BY EmptySeq
<1>2. WalkTypeOK
  <2>1. \A i \in 1..Len(frames) : FALSE
    BY <1>1
  <2>2. walkErr \in Results /\ told \subseteq Entries /\ cut \in BOOLEAN /\ refused \in BOOLEAN
        /\ visited \subseteq {e \in Entries : IsLink(tree, e) /\ StatIsDir(tree, e)}
    BY DEF Results
  <2> QED
    BY <2>1, <2>2 DEF WalkTypeOK
<1>3. WalkTypes
  BY <1>1 DEF WalkTypes
<1>4. Descending(tree, frames) /\ Remembered
  BY <1>1 DEF Descending, Remembered
<1> QED
  BY <1>2, <1>3, <1>4 DEF WalkInv

\* A walk begins with one call, of its root, which is visited or cannot be.
LEMMA Begins ==
  ASSUME WalkInv, Walk
  PROVE  \E f \in WalkFrame :
           /\ frames' = <<f>> /\ f.left = {}
           /\ f.isDir <=> StatIsDir(tree', f.path)
           /\ \/ walkAt' = "visit" /\ UNCHANGED <<walkErr, told, cut, refused>>
              \/ /\ walkAt' = "return" /\ cut' = TRUE /\ told' = told \cup {f.path}
                 /\ walkErr' \in Results /\ refused' \in BOOLEAN
<1>1. walkAt = "idle" /\ frames = <<>> /\ refused \in BOOLEAN
  BY DEF Walk, WalkInv, WalkTypes, WalkTypeOK
<1>2. PICK root \in {Top} \cup LinksOf(tree'.kind) :
        IF Exists(tree', root)
          THEN Call(root, StatIsDir(tree', root)) /\ UNCHANGED <<walkErr, told, cut, refused>>
          ELSE \E err \in Results : /\ ReturnWith(err) /\ Tells(root, err)
                                    /\ cut' = TRUE /\ frames' = <<Frame(root, FALSE)>>
  BY DEF Walk
<1>3. root \in Entries
  BY TreesAssumption DEF LinksOf, Entries, Top
<1>4. ASSUME NEW d \in BOOLEAN
      PROVE  /\ Frame(root, d) \in WalkFrame /\ Frame(root, d).path = root
             /\ Frame(root, d).left = {} /\ Frame(root, d).isDir = d
  BY <1>3 DEF Frame, WalkFrame
<1>5. CASE Exists(tree', root)
  <2> DEFINE f == Frame(root, StatIsDir(tree', root))
  <2>1. StatIsDir(tree', root) \in BOOLEAN
    BY DEF StatIsDir, Exists
  <2>2. f \in WalkFrame /\ f.path = root /\ f.left = {} /\ (f.isDir <=> StatIsDir(tree', root))
    BY <1>4, <2>1
  <2>3. frames' = <<f>> \o <<>> /\ walkAt' = "visit" /\ UNCHANGED <<walkErr, told, cut, refused>>
    BY <1>1, <1>2, <1>5 DEF Call
  <2> HIDE DEF f
  <2>4. <<f>> \o <<>> = <<f>>
    BY <2>2
  <2> QED
    BY <2>2, <2>3, <2>4
<1>6. CASE ~Exists(tree', root)
  <2> DEFINE f == Frame(root, FALSE)
  <2>1. f \in WalkFrame /\ f.path = root /\ f.left = {} /\ ~f.isDir
    BY <1>4
  <2>2. ~StatIsDir(tree', root)
    BY <1>6 DEF StatIsDir
  <2>3. /\ frames' = <<f>> /\ walkAt' = "return" /\ cut' = TRUE /\ told' = told \cup {root}
        /\ walkErr' \in Results /\ refused' \in BOOLEAN
    BY <1>1, <1>2, <1>6 DEF ReturnWith, Tells
  <2> HIDE DEF f
  <2> QED
    BY <2>1, <2>2, <2>3
<1> QED
  BY <1>5, <1>6

\* The beginning of a walk.
LEMMA WalkInvWalk ==
  ASSUME WalkInv, Walk
  PROVE  WalkInv'
<1>1. /\ walkAt = "idle" /\ frames = <<>> /\ visited = {} /\ visited' = {}
      /\ tree' \in Trees /\ into' \in BOOLEAN
  BY DEF Walk, WalkInv, WalkTypes
<1>2. PICK f \in WalkFrame :
        /\ frames' = <<f>> /\ f.left = {}
        /\ f.isDir <=> StatIsDir(tree', f.path)
        /\ \/ walkAt' = "visit" /\ UNCHANGED <<walkErr, told, cut, refused>>
           \/ /\ walkAt' = "return" /\ cut' = TRUE /\ told' = told \cup {f.path}
              /\ walkErr' \in Results /\ refused' \in BOOLEAN
  BY Begins
<1>3. /\ frames' \in Seq(WalkFrame) /\ Len(frames') = 1 /\ frames' # <<>>
      /\ Head(frames') = f /\ frames'[1] = f
  BY <1>2
<1>4. f.path \in Entries
  BY DEF WalkFrame
<1>5. WalkTypeOK'
  <2>1. /\ walkErr' \in Results /\ told' \subseteq Entries
        /\ cut' \in BOOLEAN /\ refused' \in BOOLEAN /\ walkAt' \in {"visit", "return"}
    BY <1>2, <1>4 DEF WalkInv, WalkTypeOK
  <2> QED
    BY <1>1, <1>2, <1>3, <1>4, <2>1 DEF WalkTypeOK
<1>6. WalkTypes'
  BY <1>1, <1>2, <1>3 DEF WalkTypes, isDir, path
<1>7. Descending(tree, frames)'
  <2>1. Descending(tree', <<f>>)
    BY <1>2, DescendingFirst
  <2> QED
    BY <1>2, <2>1
<1>8. Remembered'
  BY <1>2, <1>3 DEF Remembered
<1> QED
  BY <1>5, <1>6, <1>7, <1>8 DEF WalkInv

\* lstat says of an entry that it is a directory if it is no link and stat says so.
LEMMA LstatFollowsNothing ==
  ASSUME NEW t, NEW e \in Entries
  PROVE  LstatIsDir(t, e) <=> ~IsLink(t, e) /\ StatIsDir(t, e)
<1>1. e # Nowhere
  BY TreesAssumption DEF Entries, Nowhere
<1>2. ASSUME ~IsLink(t, e)
      PROVE  LstatIsDir(t, e) <=> StatIsDir(t, e)
  BY <1>1, <1>2, NoLinkResolves DEF StatIsDir, Exists, LstatIsDir
<1> QED
  BY <1>2 DEF LstatIsDir, IsLink

\* A name is taken from the calls, and a call is put on top of them.
LEMMA Descends ==
  ASSUME WalkInv, Descend
  PROVE  \E f \in WalkFrame, r \in Seq(WalkFrame) :
           /\ frames' = <<f>> \o r /\ f.path = name /\ f.left = {}
           /\ f.isDir <=> IF into THEN StatIsDir(tree, name) ELSE LstatIsDir(tree, name)
           /\ f.isDir => StatIsDir(tree, name)
           /\ Len(r) = Len(frames) /\ r # <<>> /\ Head(r) = r[1]
           /\ \A i \in 1..Len(frames) : r[i].path = frames[i].path /\ r[i].isDir = frames[i].isDir
           /\ \A i \in 2..Len(frames) : r[i] = frames[i]
           /\ r[1].left = left \ {name}
<1> DEFINE f == Frame(name, IF into THEN StatIsDir(tree, name) ELSE LstatIsDir(tree, name))
           S == left \ {name}
           r == [frames EXCEPT ![1].left = S]
<1>1. frames \in Seq(WalkFrame) /\ frames # <<>> /\ Head(frames) = frames[1]
  <2>1. frames \in Seq(WalkFrame) /\ frames # <<>>
    BY DEF WalkInv, WalkTypes, Descend
  <2> QED
    BY <2>1
<1>2. frames' = <<f>> \o r /\ left # {}
  <2>1. rest = [frames EXCEPT ![1].left = frames[1].left \ {name}]
    BY DEF rest
  <2>2. frames[1].left = left
    BY <1>1 DEF left
  <2> QED
    BY <2>1, <2>2 DEF Descend
<1>3. Len(frames) \in Nat \ {0} /\ 1 \in 1..Len(frames)
  BY <1>1, EmptySeq
<1>4. left \in SUBSET Entries
  BY <1>1, <1>3 DEF WalkInv, WalkTypeOK, left, Children
<1>5. name \in Entries
  BY <1>2, <1>4, NameIsLeft
<1>6. /\ f \in WalkFrame /\ f.path = name /\ f.left = {}
      /\ f.isDir <=> IF into THEN StatIsDir(tree, name) ELSE LstatIsDir(tree, name)
  <2>1. StatIsDir(tree, name) \in BOOLEAN /\ LstatIsDir(tree, name) \in BOOLEAN
    BY DEF StatIsDir, LstatIsDir, Exists
  <2> QED
    BY <1>5, <2>1 DEF Frame, WalkFrame
<1>7. f.isDir => StatIsDir(tree, name)
  BY <1>5, <1>6, LstatFollowsNothing
<1>8. /\ r \in Seq(WalkFrame) /\ Len(r) = Len(frames) /\ r # <<>> /\ Head(r) = r[1]
      /\ \A i \in 1..Len(frames) : r[i].path = frames[i].path /\ r[i].isDir = frames[i].isDir
      /\ \A i \in 2..Len(frames) : r[i] = frames[i]
      /\ r[1].left = left \ {name}
  <2>1. S \in SUBSET Entries /\ S = left \ {name}
    BY <1>4
  <2> HIDE DEF S
  <2>2. /\ r \in Seq(WalkFrame) /\ Len(r) = Len(frames) /\ r # <<>>
        /\ \A i \in 1..Len(frames) : r[i].path = frames[i].path /\ r[i].isDir = frames[i].isDir
        /\ \A i \in 2..Len(frames) : r[i] = frames[i]
        /\ r[1].left = S /\ Head(r) = r[1]
    BY <1>1, <2>1, LeftChanged
  <2> QED
    BY <2>1, <2>2
<1> HIDE DEF f, r, S
<1> QED
  BY <1>2, <1>6, <1>7, <1>8

\* A name is walked.
LEMMA WalkInvDescend ==
  ASSUME WalkInv, Descend
  PROVE  WalkInv'
<1>1. /\ walkAt = "loop" /\ walkAt' = "visit" /\ left # {} /\ ~seen
      /\ UNCHANGED <<tree, into, visited, walkErr, told, cut, refused>>
  BY DEF Descend
<1>2. /\ tree \in Trees /\ frames \in Seq(WalkFrame) /\ frames # <<>> /\ isDir
      /\ Len(frames) \in Nat \ {0} /\ Head(frames) = frames[1] /\ 1 \in 1..Len(frames)
  BY <1>1, EmptySeq DEF WalkInv, WalkTypes
<1>3. left \subseteq Children(tree, Resolve(tree, frames[1].path)) /\ left \in SUBSET Entries
  BY <1>2 DEF WalkInv, WalkTypeOK, left, Children
<1>4. name \in left /\ name \in Entries /\ name \in Children(tree, Resolve(tree, frames[1].path))
  BY <1>1, <1>3, NameIsLeft
<1>5. PICK f \in WalkFrame, r \in Seq(WalkFrame) :
        /\ frames' = <<f>> \o r /\ f.path = name /\ f.left = {}
        /\ f.isDir <=> IF into THEN StatIsDir(tree, name) ELSE LstatIsDir(tree, name)
        /\ f.isDir => StatIsDir(tree, name)
        /\ Len(r) = Len(frames) /\ r # <<>> /\ Head(r) = r[1]
        /\ \A i \in 1..Len(frames) : r[i].path = frames[i].path /\ r[i].isDir = frames[i].isDir
        /\ \A i \in 2..Len(frames) : r[i] = frames[i]
        /\ r[1].left = left \ {name}
  BY Descends
<1>6. /\ frames' \in Seq(WalkFrame) /\ frames' # <<>> /\ Len(frames') = Len(r) + 1
      /\ frames'[1] = f /\ Head(frames') = f
      /\ \A i \in 2..Len(frames') : i - 1 \in 1..Len(r) /\ frames'[i] = r[i - 1]
  BY <1>2, <1>5, PushProperties
<1>7. into => \A i \in 1..Len(frames) : IsLink(tree, frames[i].path) => frames[i].path \in visited
  BY <1>1 DEF WalkInv, Remembered
<1>8. FramesTyped(tree, frames')
  <2> SUFFICES ASSUME NEW i \in 1..Len(frames')
               PROVE  /\ frames'[i].path \in Entries
                      /\ frames'[i].left \subseteq Children(tree, Resolve(tree, frames'[i].path))
    BY DEF FramesTyped
  <2>1. CASE i = 1
    BY <1>4, <1>5, <1>6, <2>1
  <2>2. CASE i = 2
    <3>1. frames'[2] = r[1] /\ r[1].path = frames[1].path /\ frames[1].path \in Entries
      BY <1>2, <1>5, <1>6, <2>2 DEF WalkInv, WalkTypeOK
    <3> QED
      BY <1>3, <1>5, <2>2, <3>1
  <2>3. CASE i > 2
    <3>1. i - 1 \in 2..Len(frames)
      BY <1>2, <1>5, <1>6, <2>3
    <3>2. frames'[i] = frames[i - 1]
      BY <1>5, <1>6, <2>3, <3>1
    <3> QED
      BY <3>1, <3>2 DEF WalkInv, WalkTypeOK
  <2> QED
    BY <1>2, <1>5, <1>6, <2>1, <2>2, <2>3
<1>9. WalkTypeOK'
  BY <1>1, <1>8 DEF WalkInv, WalkTypeOK, FramesTyped
<1>10. WalkTypes'
  BY <1>1, <1>2, <1>5, <1>6 DEF WalkInv, WalkTypes, isDir, path
<1>11. Descending(tree, frames)'
  <2>1. Descending(tree, r)
    BY <1>2, <1>5, DescendingKept DEF WalkInv
  <2>2. Head(r).isDir /\ r[1].path = frames[1].path
    BY <1>2, <1>5 DEF isDir
  <2>3. f.isDir /\ IsLink(tree, f.path) => \A i \in 1..Len(r) : r[i].path # f.path
    <3> SUFFICES ASSUME f.isDir, IsLink(tree, f.path), NEW i \in 1..Len(r), r[i].path = f.path
                 PROVE  FALSE
      OBVIOUS
    <3>1. into
      BY <1>5 DEF LstatIsDir, IsLink
    <3>2. name \notin visited
      BY <1>1, <1>5, <3>1 DEF seen
    <3> QED
      BY <1>5, <1>7, <3>1, <3>2
  <2>4. Descending(tree, <<f>> \o r)
    BY <1>2, <1>4, <1>5, <2>1, <2>2, <2>3, DescendingPush
  <2>5. frames' = <<f>> \o r /\ tree' = tree
    BY <1>1, <1>5
  <2> QED
    BY <2>4, <2>5
<1>12. Remembered'
  <2> SUFFICES ASSUME into, NEW i \in 1..Len(frames'), i > 1, IsLink(tree, frames'[i].path)
               PROVE  frames'[i].path \in visited
    BY <1>1, <1>6 DEF Remembered
  <2>1. i - 1 \in 1..Len(frames) /\ frames'[i].path = frames[i - 1].path
    BY <1>5, <1>6
  <2> QED
    BY <1>7, <2>1
<1> QED
  BY <1>9, <1>10, <1>11, <1>12 DEF WalkInv

\* A call returns to the one that made it.
LEMMA WalkInvReturn ==
  ASSUME WalkInv, Return
  PROVE  WalkInv'
<1>1. /\ walkAt = "return" /\ Len(frames) > 1 /\ frames' = Tail(frames)
      /\ walkAt' \in {"return", "loop"} /\ walkErr' \in {walkErr, "nil"}
      /\ UNCHANGED <<tree, into, visited, told, cut, refused>>
  BY DEF Return
<1>2. frames \in Seq(WalkFrame) /\ Len(frames) \in Nat \ {0} /\ frames # <<>>
  BY <1>1, EmptySeq DEF WalkInv, WalkTypes
<1>3. /\ frames' \in Seq(WalkFrame) /\ Len(frames') = Len(frames) - 1
      /\ \A i \in 1..Len(frames') : i + 1 \in 2..Len(frames) /\ frames'[i] = frames[i + 1]
  BY <1>1, <1>2, HeadTailProperties
<1>4. frames' # <<>> /\ 1 \in 1..Len(frames') /\ Head(frames') = frames'[1]
  <2>1. Len(frames') \in Nat \ {0}
    BY <1>1, <1>2, <1>3
  <2>2. frames' # <<>>
    BY <2>1, EmptySeq
  <2> QED
    BY <2>1, <2>2
<1>5. \A i \in 1..Len(frames') : frames'[i].isDir
  BY <1>3 DEF WalkInv, Descending
<1>6. WalkTypeOK'
  <2>1. FramesTyped(tree, frames')
    BY <1>3 DEF WalkInv, WalkTypeOK, FramesTyped
  <2> QED
    BY <1>1, <2>1 DEF WalkInv, WalkTypeOK, FramesTyped, Results
<1>7. WalkTypes'
  BY <1>1, <1>3, <1>4, <1>5 DEF WalkInv, WalkTypes, isDir
<1>8. Descending(tree, frames)'
  <2>1. Descending(tree, Tail(frames))
    BY <1>1, <1>2, DescendingTail DEF WalkInv
  <2> QED
    BY <1>1, <2>1
<1>9. Remembered'
  <2> SUFFICES ASSUME into, NEW i \in 1..Len(frames'), IsLink(tree, frames'[i].path)
               PROVE  frames'[i].path \in visited
    BY <1>1 DEF Remembered
  <2>1. i + 1 \in 1..Len(frames) /\ i + 1 > 1 /\ frames'[i] = frames[i + 1]
    BY <1>2, <1>3
  <2> QED
    BY <2>1 DEF WalkInv, Remembered
<1> QED
  BY <1>6, <1>7, <1>8, <1>9 DEF WalkInv

\* The other steps of a call.
LEMMA WalkInvCall ==
  ASSUME WalkInv,
         \/ Visit \/ VisitFails \/ readDirNames \/ readDirNamesFails
         \/ SkipVisited \/ StatFails \/ EvalPathFails \/ EndOfNames
  PROVE  WalkInv'
<1>1. frames # <<>> /\ frames \in Seq(WalkFrame) /\ Head(frames) = frames[1]
      /\ 1 \in 1..Len(frames)
  <2>1. frames # <<>> /\ frames \in Seq(WalkFrame)
    BY DEF WalkInv, WalkTypes, Visit, VisitMarking, VisitFails, readDirNames, readDirNamesFails,
           SkipVisited, StatFails, EvalPathFails, EndOfNames
  <2> QED
    BY <2>1, EmptySeq
<1>2. path \in Entries /\ path = frames[1].path /\ left = frames[1].left
      /\ left \subseteq Children(tree, Resolve(tree, path)) /\ left \in SUBSET Entries
  BY <1>1 DEF WalkInv, WalkTypeOK, path, left, Children
<1>3. /\ walkErr \in Results /\ told \subseteq Entries /\ cut \in BOOLEAN /\ refused \in BOOLEAN
      /\ {"nil", "failure"} \subseteq Results
  BY DEF WalkInv, WalkTypeOK, Results
<1>4. CASE Visit
  <2> DEFINE marked == {l \in {path} : into /\ IsLink(tree, l) /\ StatIsDir(tree, l)}
  <2>1. /\ walkAt = "visit" /\ visited' = visited \cup marked
        /\ tree' = tree /\ into' = into /\ frames' = frames
    BY <1>4 DEF Visit, VisitMarking
  <2>2. PICK err \in Results :
          /\ Tells(path, err) /\ cut' = (cut \/ err = "skip")
          /\ IF err # "nil" \/ ~isDir
               THEN ReturnWith(IF isDir /\ err = "skip" THEN "nil" ELSE err)
               ELSE walkAt' = "read" /\ UNCHANGED walkErr
    BY <1>4 DEF Visit, VisitMarking
  <2>3. told' \subseteq Entries /\ cut' \in BOOLEAN /\ refused' \in BOOLEAN
    BY <1>2, <1>3, <2>2 DEF Tells
  <2>4. walkErr' \in Results /\ walkAt' \in {"read", "return"} /\ (walkAt' # "return" => isDir)
    BY <1>3, <2>2 DEF ReturnWith
  <2>5. isDir => StatIsDir(tree, path)
    BY <2>1 DEF WalkInv, WalkTypes
  <2> QED
    BY <1>1, <2>1, <2>3, <2>4, <2>5, WalkSameFrames
<1>5. CASE VisitFails \/ EvalPathFails \/ EndOfNames \/ readDirNamesFails
  <2>1. /\ walkAt' = "return" /\ walkErr' \in Results /\ told' \subseteq Entries
        /\ cut' \in BOOLEAN /\ refused' \in BOOLEAN
        /\ UNCHANGED <<tree, into, frames, visited>>
    BY <1>2, <1>3, <1>5
       DEF VisitFails, EvalPathFails, EndOfNames, readDirNamesFails, ReturnWith, Tells
  <2> QED
    BY <1>1, <2>1, WalkSameFrames
<1>6. CASE readDirNames
  <2> DEFINE S == Children(tree, Resolve(tree, path))
  <2>1. /\ walkAt = "read" /\ walkAt' = "loop" /\ frames' = [frames EXCEPT ![1].left = S]
        /\ UNCHANGED <<tree, into, visited, walkErr, told, cut, refused>>
    BY <1>6 DEF readDirNames
  <2>2. S \in SUBSET Children(tree, Resolve(tree, path))
    OBVIOUS
  <2> HIDE DEF S
  <2> QED
    BY <1>1, <1>3, <2>1, <2>2, WalkNamesStep
<1>7. CASE SkipVisited \/ StatFails
  <2> DEFINE S == left \ {name}
  <2>1. /\ walkAt = "loop" /\ left # {} /\ frames' = rest
        /\ UNCHANGED <<tree, into, visited>>
    BY <1>7 DEF SkipVisited, StatFails
  <2>2. /\ walkAt' \in {"loop", "return"} /\ walkErr' \in Results /\ told' \subseteq Entries
        /\ cut' \in BOOLEAN /\ refused' \in BOOLEAN
    <3>1. name \in Entries
      BY <1>2, <2>1, NameIsLeft
    <3> QED
      BY <1>3, <1>7, <2>1, <3>1 DEF SkipVisited, StatFails, ReturnWith, Tells
  <2>3. frames' = [frames EXCEPT ![1].left = S]
    <3>1. rest = [frames EXCEPT ![1].left = frames[1].left \ {name}]
      BY DEF rest
    <3> QED
      BY <1>2, <2>1, <3>1
  <2>4. S \in SUBSET Children(tree, Resolve(tree, path))
    BY <1>2
  <2> HIDE DEF S
  <2> QED
    BY <1>1, <2>1, <2>2, <2>3, <2>4, WalkNamesStep
<1> QED
  BY <1>4, <1>5, <1>6, <1>7

\* The initial state of a walk is one in which no walk is in progress.
LEMMA WalkInvInit == WalkInit => WalkInv
<1> SUFFICES ASSUME WalkInit PROVE WalkInv
  OBVIOUS
<1> QED
  BY NoTreeIsATree, IdleWalkInv DEF WalkInit, WalkIdle

\* The invariant of a walk is inductive.
LEMMA WalkInvStep == WalkInv /\ [WalkNext]_walkVars => WalkInv'
<1> SUFFICES ASSUME WalkInv, [WalkNext]_walkVars PROVE WalkInv'
  OBVIOUS
<1>1. CASE Walk
  BY <1>1, WalkInvWalk
<1>2. CASE \/ Visit \/ VisitFails \/ readDirNames \/ readDirNamesFails
           \/ SkipVisited \/ StatFails \/ EvalPathFails \/ EndOfNames
  BY <1>2, WalkInvCall
<1>3. CASE Descend
  BY <1>3, WalkInvDescend
<1>4. CASE Return
  BY <1>4, WalkInvReturn
<1>5. CASE WalkReturns
  <2>1. WalkIdle'
    BY <1>5, NoTreeIsATree DEF WalkReturns, WalkIdle
  <2> QED
    BY <2>1, IdleWalkInv, PTL
<1>6. CASE UNCHANGED walkVars
  BY <1>6 DEF walkVars, WalkInv, WalkTypeOK, WalkTypes, Remembered, isDir, path
<1> QED
  BY <1>1, <1>2, <1>3, <1>4, <1>5, <1>6 DEF WalkNext, WalkStep

\* How deep a walk can be follows from where its calls are.
LEMMA WalkInvDepth == WalkInv => DepthBounded
<1> SUFFICES ASSUME WalkInv PROVE DepthBounded
  OBVIOUS
<1> DEFINE dirCount == Cardinality({e \in Entries : tree.kind[e] = "dir"})
           linkCount == Cardinality({e \in Entries : IsLink(tree, e)})
           bound == (linkCount + 1) * (dirCount + 1)
<1>1. linkCount \in Nat /\ dirCount \in Nat
  <2>1. IsFiniteSet(Entries)
    BY FS_Interval, TreesAssumption DEF Entries
  <2>2. /\ {e \in Entries : tree.kind[e] = "dir"} \in SUBSET Entries
        /\ {e \in Entries : IsLink(tree, e)} \in SUBSET Entries
    OBVIOUS
  <2> QED
    BY <2>1, <2>2, FS_Subset, FS_CardinalityType
<1>2. bound \in Int /\ (Len(frames) <= bound => DepthBounded)
  <2> HIDE DEF linkCount, dirCount
  <2>1. bound \in Int
    BY <1>1
  <2> QED
    BY <2>1 DEF DepthBounded, linkCount, dirCount
<1>3. frames \in Seq(WalkFrame) /\ Len(frames) \in Nat
  BY DEF WalkInv, WalkTypes
<1>4. CASE frames = <<>>
  <2>1. \A t : Deep(t, <<>>, <<>>)
    BY EmptySeq DEF Deep
  <2>2. 0 + 1 <= bound
    BY <2>1, DeepBound, EmptySeq
  <2> HIDE DEF bound
  <2> QED
    BY <1>2, <1>3, <1>4, <2>2
<1>5. CASE frames # <<>>
  <2>1. PICK via : Deep(tree, DirsOf(frames), via)
    BY <1>5 DEF WalkInv, Descending
  <2>2. /\ DirsOf(frames) \in Seq(WalkFrame) /\ Len(DirsOf(frames)) \in Nat
        /\ Len(frames) <= Len(DirsOf(frames)) + 1
    BY <1>3, <1>5, HeadTailProperties DEF DirsOf
  <2>3. Len(DirsOf(frames)) + 1 <= bound
    BY <2>1, <2>2, DeepBound
  <2> HIDE DEF bound
  <2> QED
    BY <1>2, <1>3, <2>2, <2>3
<1> QED
  BY <1>4, <1>5

\* The recursion of Walk is bounded, in every tree and whatever walkFn answers:
\* links that lead back to a directory that is being walked do not make it endless.
THEOREM WalkDepthBounded == WalkSpec => []DepthBounded
<1>1. WalkSpec => []WalkInv
  BY WalkInvInit, WalkInvStep, PTL DEF WalkSpec
<1> QED
  BY <1>1, WalkInvDepth, PTL

\* An error of walkFn ends the walk, in every tree: walkFn is not called again.
LEMMA WalkErrorStops == WalkSpec => []ErrorStops
<1>1. WalkInit => ErrorStops
  BY DEF WalkInit, ErrorStops
<1>2. ErrorStops /\ [WalkNext]_walkVars => ErrorStops'
  <2> SUFFICES ASSUME ErrorStops, [WalkNext]_walkVars PROVE ErrorStops'
    OBVIOUS
  <2> USE DEF ErrorStops
  <2>1. CASE Walk
    BY <2>1 DEF Walk, Call, ReturnWith, Tells
  <2>2. CASE Visit
    BY <2>2 DEF Visit, VisitMarking, ReturnWith, Tells
  <2>3. CASE VisitFails \/ readDirNames \/ readDirNamesFails
    BY <2>3 DEF VisitFails, readDirNames, readDirNamesFails, ReturnWith, Tells
  <2>4. CASE SkipVisited \/ Descend \/ StatFails \/ EvalPathFails \/ EndOfNames
    BY <2>4 DEF SkipVisited, Descend, StatFails, EvalPathFails, EndOfNames, ReturnWith, Tells
  <2>5. CASE Return \/ WalkReturns
    BY <2>5 DEF Return, WalkReturns
  <2>6. CASE UNCHANGED walkVars
    BY <2>6 DEF walkVars
  <2> QED
    BY <2>1, <2>2, <2>3, <2>4, <2>5, <2>6 DEF WalkNext, WalkStep
<1> QED
  BY <1>1, <1>2, PTL DEF WalkSpec

-----------------------------------------------------------------------------
(* What a walk tells of.                                                    *)

Root    == frames[Len(frames)].path
Within  == Names(Root)
Reach   == Reachable(Root)

\* A call lists what is next to its entry.
Lists ==
  \A i \in 1..Len(frames) :
    frames[i].isDir <=> /\ i = Len(frames) \/ into \/ ~IsLink(tree, frames[i].path)
                        /\ StatIsDir(tree, frames[i].path)

\* The walk goes only where its root leads, and starts anew.
Inside ==
  /\ walkAt = "idle" => told = {} /\ walkErr = "nil"
  /\ walkAt # "idle" => told \subseteq Reach /\ \A i \in 1..Len(frames) : frames[i].path \in Reach

\* As long as nothing is skipped and nothing fails, there are names left only in
\* the loops, and a link that is remembered has been told of.
Going == walkAt # "idle" /\ ~cut /\ ~refused
Looping ==
  Going =>
    /\ walkErr = "nil" /\ visited \subseteq told
    /\ walkAt \in {"visit", "return"} => left = {}
    /\ Root \in told \/ (walkAt = "visit" /\ Len(frames) = 1)

\* What is next to an entry that has been told of has been told of, or is still to come.
Coming ==
  {x \in Entries : \/ walkAt = "visit" /\ x = path
                   \/ \E i \in 1..Len(frames) : x \in frames[i].left}
Complete ==
  Going => \A e \in told : \/ Within[e] \subseteq told \cup Coming
                           \/ walkAt = "read" /\ e = path

WholeInv == Lists /\ Inside /\ Looping /\ Complete

\* The root and the innermost call.
LEMMA RootFacts ==
  ASSUME WalkInv, Lists, frames # <<>>
  PROVE  /\ frames \in Seq(WalkFrame) /\ Len(frames) \in Nat \ {0}
         /\ 1 \in 1..Len(frames) /\ Len(frames) \in 1..Len(frames)
         /\ path = frames[1].path /\ isDir = frames[1].isDir /\ left = frames[1].left
         /\ path \in Entries /\ Root \in Entries
         /\ \A i \in 1..Len(frames) : frames[i].left \subseteq Entries
         /\ left \subseteq Children(tree, Resolve(tree, path))
         /\ isDir => Within[path] = Children(tree, Resolve(tree, path))
         /\ ~isDir => Within[path] = {} \/ (path = Root /\ Len(frames) # 1)
<1>1. /\ frames \in Seq(WalkFrame) /\ Len(frames) \in Nat \ {0} /\ Head(frames) = frames[1]
      /\ 1 \in 1..Len(frames) /\ Len(frames) \in 1..Len(frames)
  BY EmptySeq DEF WalkInv, WalkTypes
<1>2. path = frames[1].path /\ isDir = frames[1].isDir /\ left = frames[1].left
  BY <1>1 DEF path, isDir, left
<1>3. path \in Entries /\ Root \in Entries /\ left \subseteq Children(tree, Resolve(tree, path))
  BY <1>1, <1>2 DEF WalkInv, WalkTypeOK, Root
<1>4. \A i \in 1..Len(frames) : frames[i].left \subseteq Entries
  BY DEF WalkInv, WalkTypeOK, Children
<1>5. isDir <=> (1 = Len(frames) \/ into \/ ~IsLink(tree, path)) /\ StatIsDir(tree, path)
  BY <1>1, <1>2 DEF Lists
<1>6. Len(frames) = 1 => path = Root
  BY <1>2 DEF Root
<1>7. Within[path] = IF (path = Root \/ into \/ ~IsLink(tree, path)) /\ StatIsDir(tree, path)
                       THEN Children(tree, Resolve(tree, path)) ELSE {}
  BY <1>3 DEF Within, Names
<1>8. isDir => Within[path] = Children(tree, Resolve(tree, path))
  BY <1>5, <1>6, <1>7
<1>9. ~isDir => Within[path] = {} \/ (path = Root /\ Len(frames) # 1)
  BY <1>5, <1>6, <1>7
<1> QED
  BY <1>1, <1>2, <1>3, <1>4, <1>8, <1>9

\* What the root leads to.
LEMMA ReachFacts ==
  ASSUME Root \in Entries
  PROVE  /\ Reach \subseteq Entries /\ Root \in Reach /\ \A x \in Reach : Within[x] \subseteq Reach
         /\ \A V \in SUBSET Entries :
              Root \in V /\ (\A y \in V : Within[y] \subseteq V) => Reach \subseteq V
<1>1. Within \in [Entries -> SUBSET Entries]
  <2>1. \A e \in Entries : Children(tree, Resolve(tree, e)) \subseteq Entries
    BY DEF Children
  <2> QED
    BY <2>1 DEF Within, Names
<1>2. Reach = Reached(Root, Within)
  BY DEF Reach, Reachable, Within
<1> QED
  BY <1>1, <1>2, ReachedFacts, ReachedLeast

LEMMA ReachSame ==
  ASSUME UNCHANGED <<tree, into>>, Root' = Root
  PROVE  Within' = Within /\ Reach' = Reach
<1>1. Within' = Within
  BY DEF Within, Names
<1>2. Reach = Reached(Root, Within)
  BY DEF Reach, Reachable, Within
<1>3. Reach' = Reached(Root, Within)'
  BY DEF Reach, Reachable, Within
<1>4. Reached(Root, Within)' = Reached(Root, Within)
  BY <1>1 DEF Reached
<1> QED
  BY <1>1, <1>2, <1>3, <1>4

\* The steps of a call that leave the calls where they are.
LEMMA SameWalks ==
  ASSUME WalkInv, WholeInv, frames # <<>>, UNCHANGED <<tree, into>>,
         Len(frames') = Len(frames), frames' # <<>>,
         frames' \in Seq(WalkFrame),
         \A i \in 1..Len(frames) : /\ frames'[i].path = frames[i].path
                                   /\ frames'[i].isDir = frames[i].isDir,
         walkAt' # "idle",
         told' \subseteq told \cup {path} \cup (IF isDir THEN left ELSE {})
  PROVE  /\ path' = path /\ Within' = Within /\ Reach' = Reach /\ Root' = Root
         /\ Lists' /\ Inside'
<1>1. /\ frames \in Seq(WalkFrame) /\ Len(frames) \in Nat \ {0} /\ 1 \in 1..Len(frames)
      /\ Len(frames) \in 1..Len(frames) /\ path = frames[1].path /\ Root \in Entries
  BY RootFacts DEF WholeInv
<1>2. Head(frames') = frames'[1]
  OBVIOUS
<1>3. path' = path /\ Root' = Root
  BY <1>1, <1>2 DEF path, Root
<1>4. Within' = Within /\ Reach' = Reach
  BY <1>3, ReachSame
<1>5. Lists'
  BY DEF WholeInv, Lists
<1>6. walkAt # "idle"
  BY DEF WalkInv, WalkTypes
<1>7. path \in Reach
  BY <1>1, <1>6 DEF WholeInv, Inside
<1>8. isDir => left \subseteq Reach
  BY <1>1, <1>7, RootFacts, ReachFacts DEF WholeInv
<1>9. Inside'
  BY <1>3, <1>4, <1>6, <1>7, <1>8 DEF WholeInv, Inside
<1> QED
  BY <1>3, <1>4, <1>5, <1>9

\* The steps of a call but those that begin and end one.
LEMMA CallWhole ==
  ASSUME WalkInv, WholeInv,
         \/ Visit \/ VisitFails \/ readDirNames \/ readDirNamesFails
         \/ SkipVisited \/ StatFails \/ EvalPathFails \/ EndOfNames
  PROVE  WholeInv'
<1>1. walkAt # "idle" /\ walkAt' # "idle" /\ frames # <<>> /\ UNCHANGED <<tree, into>>
  <2>1. walkAt # "idle" /\ walkAt' # "idle" /\ UNCHANGED <<tree, into>>
    BY DEF Visit, VisitMarking, VisitFails, readDirNames, readDirNamesFails, SkipVisited, StatFails,
           EvalPathFails, EndOfNames, ReturnWith
  <2> QED
    BY <2>1 DEF WalkInv, WalkTypes
<1>2. /\ frames \in Seq(WalkFrame) /\ Len(frames) \in Nat \ {0}
      /\ 1 \in 1..Len(frames) /\ Len(frames) \in 1..Len(frames)
      /\ path = frames[1].path /\ isDir = frames[1].isDir /\ left = frames[1].left
      /\ path \in Entries /\ Root \in Entries
      /\ \A i \in 1..Len(frames) : frames[i].left \subseteq Entries
      /\ left \subseteq Children(tree, Resolve(tree, path))
      /\ isDir => Within[path] = Children(tree, Resolve(tree, path))
      /\ ~isDir => Within[path] = {} \/ (path = Root /\ Len(frames) # 1)
  BY <1>1, RootFacts DEF WholeInv
<1>3. walkAt \in {"read", "loop"} => isDir
  BY DEF WalkInv, WalkTypes
<1>4. left # {} => name \in left
  BY <1>2, NameIsLeft
<1>5. PICK S \in SUBSET Entries : \/ frames' = frames /\ S = left
                                  \/ frames' = [frames EXCEPT ![1].left = S]
  <2>1. CASE readDirNames
    BY <2>1 DEF readDirNames, Children
  <2>2. CASE SkipVisited \/ StatFails
    <3>1. rest = [frames EXCEPT ![1].left = frames[1].left \ {name}]
      BY DEF rest
    <3> QED
      BY <1>2, <2>2, <3>1 DEF SkipVisited, StatFails
  <2>3. CASE Visit \/ VisitFails \/ readDirNamesFails \/ EvalPathFails \/ EndOfNames
    BY <1>2, <2>3 DEF Visit, VisitMarking, VisitFails, readDirNamesFails, EvalPathFails, EndOfNames
  <2> QED
    BY <2>1, <2>2, <2>3
<1>6. /\ frames' \in Seq(WalkFrame) /\ Len(frames') = Len(frames) /\ frames' # <<>>
      /\ \A i \in 1..Len(frames) : /\ frames'[i].path = frames[i].path
                                   /\ frames'[i].isDir = frames[i].isDir
      /\ \A i \in 2..Len(frames) : frames'[i] = frames[i]
      /\ frames'[1].left = S
  <2>1. CASE frames' = frames /\ S = left
    BY <1>1, <1>2, <2>1
  <2>2. CASE frames' = [frames EXCEPT ![1].left = S]
    <3> DEFINE gs == [frames EXCEPT ![1].left = S]
    <3>1. /\ gs \in Seq(WalkFrame) /\ Len(gs) = Len(frames) /\ gs # <<>>
          /\ \A i \in 1..Len(frames) : gs[i].path = frames[i].path /\ gs[i].isDir = frames[i].isDir
          /\ \A i \in 2..Len(frames) : gs[i] = frames[i]
          /\ gs[1].left = S
      BY <1>1, <1>2, LeftChanged
    <3>2. frames' = gs
      BY <2>2
    <3> HIDE DEF gs
    <3> QED
      BY <3>1, <3>2
  <2> QED
    BY <1>5, <2>1, <2>2
<1>7. left' = S
  BY <1>6 DEF left
<1>8. told' \subseteq told \cup {path} \cup (IF isDir THEN left ELSE {})
  <2>1. told' \subseteq told \cup {path} \/ (walkAt = "loop" /\ left # {} /\ told' \subseteq told \cup {name})
    BY DEF Visit, VisitMarking, VisitFails, readDirNames, readDirNamesFails, SkipVisited, StatFails,
           EvalPathFails, EndOfNames, Tells
  <2> QED
    BY <1>3, <1>4, <2>1
<1>9. path' = path /\ Within' = Within /\ Reach' = Reach /\ Root' = Root /\ Lists' /\ Inside'
  BY <1>1, <1>6, <1>8, SameWalks
<1>10. \A x \in Coming : \/ x \in Coming'
                         \/ x \in left /\ x \notin S
                         \/ walkAt = "visit" /\ x = path
  <2> SUFFICES ASSUME NEW x \in Entries, NEW i \in 1..Len(frames), x \in frames[i].left
               PROVE  x \in Coming' \/ (x \in left /\ x \notin S)
    BY DEF Coming
  <2>1. CASE i = 1
    BY <1>2, <1>6, <2>1 DEF Coming
  <2>2. CASE i # 1
    <3>1. i \in 2..Len(frames)
      BY <1>2, <2>2
    <3> QED
      BY <1>6, <3>1 DEF Coming
  <2> QED
    BY <2>1, <2>2
<1>11. CASE VisitFails \/ readDirNamesFails \/ StatFails \/ EvalPathFails
  <2>1. ~Going'
    BY <1>11 DEF VisitFails, readDirNamesFails, StatFails, EvalPathFails, Going
  <2> QED
    BY <1>9, <2>1 DEF WholeInv, Looping, Complete
<1>12. CASE Visit
  <2>1. /\ walkAt = "visit" /\ frames' = frames /\ visited' \subseteq visited \cup {path}
        /\ told' = told \cup {path}
    BY <1>12 DEF Visit, VisitMarking, Tells
  <2>2. S = left
    BY <1>2, <1>6, <2>1
  <2> SUFFICES ASSUME Going' PROVE Looping' /\ Complete'
    BY <1>9 DEF WholeInv, Looping, Complete
  <2>3. /\ Going /\ IF isDir THEN walkAt' = "read" /\ UNCHANGED walkErr
                             ELSE walkAt' = "return" /\ walkErr' = "nil"
    BY <1>1, <1>12 DEF Visit, VisitMarking, Tells, ReturnWith, Going, Results
  <2>4. walkErr = "nil" /\ visited \subseteq told /\ left = {} /\ (Root \in told \/ Len(frames) = 1)
    BY <2>1, <2>3 DEF WholeInv, Looping
  <2>5. Looping'
    <3>1. Root \in told'
      BY <1>2, <2>1, <2>4 DEF Root
    <3> QED
      BY <1>7, <1>9, <2>1, <2>2, <2>3, <2>4, <3>1 DEF Looping
  <2>6. \A x \in Coming : x \in Coming' \/ x = path
    BY <1>10, <2>2
  <2>7. \A e \in told : Within[e] \subseteq told' \cup Coming'
    BY <2>1, <2>3, <2>6 DEF WholeInv, Complete
  <2>8. isDir \/ Within[path] \subseteq told' \cup Coming'
    <3>1. CASE Within[path] = {}
      BY <3>1
    <3>2. CASE ~isDir /\ path = Root /\ Len(frames) # 1
      BY <2>4, <2>7, <3>2
    <3> QED
      BY <1>2, <3>1, <3>2
  <2>9. Complete'
    BY <1>9, <2>1, <2>3, <2>7, <2>8 DEF Complete
  <2> QED
    BY <2>5, <2>9
<1>13. CASE readDirNames
  <2>1. /\ walkAt = "read" /\ walkAt' = "loop" /\ UNCHANGED <<visited, walkErr, told, cut, refused>>
        /\ frames' = [frames EXCEPT ![1].left = Children(tree, Resolve(tree, path))]
    BY <1>13 DEF readDirNames
  <2>2. S = Children(tree, Resolve(tree, path))
    <3>1. Children(tree, Resolve(tree, path)) \in SUBSET Entries
      BY DEF Children
    <3> DEFINE C == Children(tree, Resolve(tree, path))
    <3> HIDE DEF C
    <3>2. frames'[1].left = C
      BY <1>1, <1>2, <2>1, <3>1, LeftChanged DEF C
    <3> QED
      BY <1>6, <3>2 DEF C
  <2>3. Going' => Going
    BY <1>1, <2>1 DEF Going
  <2>4. Looping'
    BY <1>9, <2>1, <2>3 DEF WholeInv, Looping
  <2>5. \A x \in Coming : x \in Coming'
    BY <1>2, <1>10, <2>1, <2>2
  <2>6. Within[path] \subseteq Coming'
    <3>1. Within[path] = S
      BY <1>2, <1>3, <2>1, <2>2
    <3>2. 1 \in 1..Len(frames')
      BY <1>2, <1>6
    <3> QED
      BY <1>6, <3>1, <3>2 DEF Coming
  <2>7. Complete'
    BY <1>9, <2>1, <2>3, <2>5, <2>6 DEF WholeInv, Complete
  <2> QED
    BY <1>9, <2>4, <2>7 DEF WholeInv
<1>14. CASE SkipVisited
  <2>1. /\ walkAt = "loop" /\ left # {} /\ seen /\ frames' = rest
        /\ UNCHANGED <<walkAt, visited, walkErr, told, cut, refused>>
    BY <1>14 DEF SkipVisited
  <2>2. S = left \ {name}
    <3> DEFINE D == left \ {name}
    <3>1. frames' = [frames EXCEPT ![1].left = D] /\ D \in SUBSET Entries
      BY <1>2, <2>1 DEF rest
    <3> HIDE DEF D
    <3>2. frames'[1].left = D
      BY <1>1, <1>2, <3>1, LeftChanged
    <3> QED
      BY <1>6, <3>2 DEF D
  <2>3. Going' => Going
    BY <2>1 DEF Going
  <2>4. Looping'
    BY <1>9, <2>1, <2>3 DEF WholeInv, Looping
  <2>5. Going' => \A x \in Coming : x \in Coming' \/ x \in told
    BY <1>10, <2>1, <2>2, <2>3 DEF WholeInv, Looping, seen
  <2>6. Complete'
    BY <1>9, <2>1, <2>3, <2>5 DEF WholeInv, Complete
  <2> QED
    BY <1>9, <2>4, <2>6 DEF WholeInv
<1>15. CASE EndOfNames
  <2>1. /\ walkAt = "loop" /\ left = {} /\ walkAt' = "return" /\ walkErr' = "nil"
        /\ UNCHANGED <<frames, visited, told, cut, refused>>
    BY <1>15 DEF EndOfNames, ReturnWith
  <2>2. left' = {} /\ S = left
    BY <1>2, <1>6, <1>7, <2>1
  <2>3. Going' => Going
    BY <1>1, <2>1 DEF Going
  <2>4. Looping'
    BY <1>9, <2>1, <2>2, <2>3 DEF WholeInv, Looping
  <2>5. \A x \in Coming : x \in Coming'
    BY <1>10, <2>1, <2>2
  <2>6. Complete'
    BY <1>9, <2>1, <2>3, <2>5 DEF WholeInv, Complete
  <2> QED
    BY <1>9, <2>4, <2>6 DEF WholeInv
<1> QED
  BY <1>11, <1>12, <1>13, <1>14, <1>15

\* A name that is walked leaves the names of its directory and is the entry of a new call.
LEMMA DescendWhole ==
  ASSUME WalkInv, WholeInv, Descend
  PROVE  WholeInv'
<1>1. /\ walkAt = "loop" /\ walkAt' = "visit" /\ left # {} /\ frames # <<>> /\ isDir
      /\ UNCHANGED <<tree, into, visited, walkErr, told, cut, refused>>
  BY DEF Descend, WalkInv, WalkTypes
<1>2. /\ frames \in Seq(WalkFrame) /\ Len(frames) \in Nat \ {0}
      /\ 1 \in 1..Len(frames) /\ Len(frames) \in 1..Len(frames)
      /\ path = frames[1].path /\ left = frames[1].left
      /\ path \in Entries /\ Root \in Entries
      /\ \A i \in 1..Len(frames) : frames[i].left \subseteq Entries
      /\ left \subseteq Children(tree, Resolve(tree, path))
      /\ Within[path] = Children(tree, Resolve(tree, path))
  BY <1>1, RootFacts DEF WholeInv
<1>3. name \in left /\ name \in Entries
  BY <1>1, <1>2, NameIsLeft
<1>4. PICK f \in WalkFrame, r \in Seq(WalkFrame) :
        /\ frames' = <<f>> \o r /\ f.path = name /\ f.left = {}
        /\ f.isDir <=> IF into THEN StatIsDir(tree, name) ELSE LstatIsDir(tree, name)
        /\ f.isDir => StatIsDir(tree, name)
        /\ Len(r) = Len(frames) /\ r # <<>> /\ Head(r) = r[1]
        /\ \A i \in 1..Len(frames) : r[i].path = frames[i].path /\ r[i].isDir = frames[i].isDir
        /\ \A i \in 2..Len(frames) : r[i] = frames[i]
        /\ r[1].left = left \ {name}
  BY Descends
<1>5. /\ Len(frames') = Len(frames) + 1 /\ frames'[1] = f /\ Head(frames') = f
      /\ \A i \in 1..Len(frames) : i + 1 \in 1..Len(frames') /\ frames'[i + 1] = r[i]
  <2>1. /\ Len(frames') = Len(r) + 1 /\ frames'[1] = f /\ Head(frames') = f
        /\ \A i \in 2..(Len(r) + 1) : frames'[i] = r[i - 1]
    BY <1>4, PushProperties
  <2> QED
    BY <1>2, <1>4, <2>1
<1>6. \A i \in 1..Len(frames') : i = 1 \/ \E j \in 1..Len(frames) : i = j + 1
  <2> SUFFICES ASSUME NEW i \in 1..Len(frames'), i # 1
               PROVE  \E j \in 1..Len(frames) : i = j + 1
    OBVIOUS
  <2>1. i - 1 \in 1..Len(frames) /\ i = (i - 1) + 1
    BY <1>2, <1>5
  <2> QED
    BY <2>1
<1>7. path' = name /\ left' = {} /\ Root' = Root /\ Within' = Within /\ Reach' = Reach
  <2>1. path' = name /\ left' = {}
    BY <1>4, <1>5 DEF path, left
  <2>2. Root' = Root
    BY <1>2, <1>4, <1>5 DEF Root
  <2> QED
    BY <1>1, <2>1, <2>2, ReachSame
<1>8. Lists'
  <2> SUFFICES ASSUME NEW i \in 1..Len(frames')
               PROVE  frames'[i].isDir <=>
                        /\ i = Len(frames') \/ into \/ ~IsLink(tree, frames'[i].path)
                        /\ StatIsDir(tree, frames'[i].path)
    BY <1>1 DEF Lists
  <2>1. CASE i = 1
    <3>1. f.isDir <=> (into \/ ~IsLink(tree, name)) /\ StatIsDir(tree, name)
      BY <1>3, <1>4, LstatFollowsNothing
    <3>2. i # Len(frames')
      BY <1>2, <1>5, <2>1
    <3> QED
      BY <1>4, <1>5, <2>1, <3>1, <3>2
  <2>2. ASSUME NEW j \in 1..Len(frames), i = j + 1
        PROVE  frames'[i].isDir <=>
                 /\ i = Len(frames') \/ into \/ ~IsLink(tree, frames'[i].path)
                 /\ StatIsDir(tree, frames'[i].path)
    <3>1. frames'[i].path = frames[j].path /\ frames'[i].isDir = frames[j].isDir
      BY <1>4, <1>5, <2>2
    <3>2. i = Len(frames') <=> j = Len(frames)
      BY <1>2, <1>5, <2>2
    <3> QED
      BY <3>1, <3>2 DEF WholeInv, Lists
  <2> QED
    BY <1>6, <2>1, <2>2
<1>9. Inside'
  <2>1. path \in Reach /\ told \subseteq Reach /\ \A i \in 1..Len(frames) : frames[i].path \in Reach
    BY <1>1, <1>2 DEF WholeInv, Inside
  <2>2. name \in Reach
    BY <1>2, <1>3, <2>1, ReachFacts
  <2>3. \A i \in 1..Len(frames') : frames'[i].path \in Reach
    <3> SUFFICES ASSUME NEW i \in 1..Len(frames') PROVE frames'[i].path \in Reach
      OBVIOUS
    <3>1. CASE i = 1
      BY <1>4, <1>5, <2>2, <3>1
    <3>2. ASSUME NEW j \in 1..Len(frames), i = j + 1 PROVE frames'[i].path \in Reach
      BY <1>4, <1>5, <2>1, <3>2
    <3> QED
      BY <1>6, <3>1, <3>2
  <2> QED
    BY <1>1, <1>7, <2>1, <2>3 DEF Inside
<1>10. Going' => Going
  BY <1>1 DEF Going
<1>11. Looping'
  BY <1>1, <1>7, <1>10 DEF WholeInv, Looping
<1>12. \A x \in Coming : x \in Coming'
  <2> SUFFICES ASSUME NEW x \in Entries, NEW i \in 1..Len(frames), x \in frames[i].left
               PROVE  x \in Coming'
    BY <1>1 DEF Coming
  <2>1. CASE x = name
    BY <1>1, <1>7, <2>1 DEF Coming
  <2>2. CASE x # name
    <3>1. x \in r[i].left
      <4>1. CASE i = 1
        BY <1>2, <1>4, <2>2, <4>1
      <4>2. CASE i # 1
        <5>1. i \in 2..Len(frames)
          BY <1>2, <4>2
        <5> QED
          BY <1>4, <5>1
      <4> QED
        BY <4>1, <4>2
    <3>2. i + 1 \in 1..Len(frames') /\ frames'[i + 1] = r[i]
      BY <1>5
    <3> QED
      BY <3>1, <3>2 DEF Coming
  <2> QED
    BY <2>1, <2>2
<1>13. Complete'
  BY <1>1, <1>7, <1>10, <1>12 DEF WholeInv, Complete
<1> QED
  BY <1>8, <1>9, <1>11, <1>13 DEF WholeInv

\* A call returns when it has no names left.
LEMMA ReturnWhole ==
  ASSUME WalkInv, WholeInv, Return
  PROVE  WholeInv'
<1>1. /\ walkAt = "return" /\ Len(frames) > 1 /\ frames' = Tail(frames)
      /\ walkErr = "nil" => walkAt' = "loop" /\ walkErr' = "nil"
      /\ walkAt' # "idle" /\ walkAt' # "visit"
      /\ UNCHANGED <<tree, into, visited, told, cut, refused>>
  BY DEF Return
<1>2. frames \in Seq(WalkFrame) /\ Len(frames) \in Nat \ {0} /\ frames # <<>>
  BY <1>1, EmptySeq DEF WalkInv, WalkTypes
<1>3. /\ 1 \in 1..Len(frames) /\ path = frames[1].path /\ left = frames[1].left
      /\ \A i \in 1..Len(frames) : frames[i].left \subseteq Entries
  BY <1>2, RootFacts DEF WholeInv
<1>4. /\ Len(frames') = Len(frames) - 1
      /\ \A i \in 1..Len(frames') : i + 1 \in 1..Len(frames) /\ frames'[i] = frames[i + 1]
  BY <1>1, <1>2, HeadTailProperties
<1>5. \A i \in 2..Len(frames) : i - 1 \in 1..Len(frames') /\ frames'[i - 1] = frames[i]
  <2> SUFFICES ASSUME NEW i \in 2..Len(frames)
               PROVE  i - 1 \in 1..Len(frames') /\ frames'[i - 1] = frames[i]
    OBVIOUS
  <2>1. i - 1 \in 1..Len(frames') /\ (i - 1) + 1 = i
    BY <1>2, <1>4
  <2> QED
    BY <1>4, <2>1
<1>6. Root' = Root /\ Within' = Within /\ Reach' = Reach
  <2>1. Len(frames) \in 2..Len(frames) /\ Len(frames') = Len(frames) - 1
    BY <1>1, <1>2, <1>4
  <2>2. Root' = Root
    BY <1>5, <2>1 DEF Root
  <2> QED
    BY <1>1, <2>2, ReachSame
<1>7. Lists'
  <2> SUFFICES ASSUME NEW i \in 1..Len(frames')
               PROVE  frames'[i].isDir <=>
                        /\ i = Len(frames') \/ into \/ ~IsLink(tree, frames'[i].path)
                        /\ StatIsDir(tree, frames'[i].path)
    BY <1>1 DEF Lists
  <2>1. i + 1 \in 1..Len(frames) /\ frames'[i] = frames[i + 1]
    BY <1>4
  <2>2. i = Len(frames') <=> i + 1 = Len(frames)
    BY <1>2, <1>4
  <2> QED
    BY <2>1, <2>2 DEF WholeInv, Lists
<1>8. Inside'
  BY <1>1, <1>4, <1>6 DEF WholeInv, Inside
<1>9. Going' => Going /\ walkErr = "nil" /\ left = {}
  BY <1>1 DEF WholeInv, Going, Looping
<1>10. Looping'
  BY <1>1, <1>6, <1>9 DEF WholeInv, Looping
<1>11. Going' => \A x \in Coming : x \in Coming'
  <2> SUFFICES ASSUME left = {}, NEW x \in Entries, NEW i \in 1..Len(frames), x \in frames[i].left
               PROVE  x \in Coming'
    BY <1>1, <1>9 DEF Coming
  <2>1. i \in 2..Len(frames)
    BY <1>2, <1>3
  <2> QED
    BY <1>5, <2>1 DEF Coming
<1>12. Complete'
  BY <1>1, <1>6, <1>9, <1>11 DEF WholeInv, Complete
<1> QED
  BY <1>7, <1>8, <1>10, <1>12 DEF WholeInv

LEMMA RootReached == Root \in Entries => Root \in Reach
BY ReachFacts

\* A walk begins with its root.
LEMMA WalkWhole ==
  ASSUME WalkInv, WholeInv, Walk
  PROVE  WholeInv'
<1>1. visited' = {} /\ told = {} /\ walkErr = "nil"
  <2>1. walkAt = "idle" /\ visited' = visited
    BY DEF Walk
  <2> QED
    BY <2>1 DEF WalkInv, WalkTypes, WholeInv, Inside
<1>2. PICK f \in WalkFrame :
        /\ frames' = <<f>> /\ f.left = {}
        /\ f.isDir <=> StatIsDir(tree', f.path)
        /\ \/ walkAt' = "visit" /\ UNCHANGED <<walkErr, told, cut, refused>>
           \/ /\ walkAt' = "return" /\ cut' = TRUE /\ told' = told \cup {f.path}
              /\ walkErr' \in Results /\ refused' \in BOOLEAN
  BY Begins
<1>3. Len(frames') = 1 /\ frames'[1] = f /\ Head(frames') = f /\ \A i \in 1..Len(frames') : i = 1
  BY <1>2
<1>4. Root' = f.path /\ f.path \in Entries /\ left' = {}
  BY <1>2, <1>3 DEF Root, WalkFrame, left
<1>5. f.path \in Reach'
  <2>1. (Root \in Entries => Root \in Reach)'
    BY RootReached, PTL
  <2> QED
    BY <1>4, <2>1 DEF Entries
<1>6. Lists'
  BY <1>2, <1>3 DEF Lists
<1>7. Inside'
  BY <1>1, <1>2, <1>3, <1>5 DEF Inside
<1>8. Going' => walkAt' = "visit" /\ walkErr' = "nil" /\ told' = {}
  BY <1>1, <1>2 DEF Going
<1>9. Looping' /\ Complete'
  BY <1>1, <1>3, <1>4, <1>8 DEF Looping, Complete
<1> QED
  BY <1>6, <1>7, <1>9 DEF WholeInv

\* Before a walk there is nothing to tell of.
LEMMA IdleWhole == WalkIdle => WholeInv
<1> SUFFICES ASSUME WalkIdle PROVE WholeInv
  OBVIOUS
<1>1. \A i \in 1..Len(frames) : FALSE
  BY EmptySeq DEF WalkIdle
<1> QED
  BY <1>1 DEF WalkIdle, WholeInv, Lists, Inside, Looping, Complete, Going

LEMMA WholeInvInit == WalkInit => WholeInv
<1> SUFFICES ASSUME WalkInit PROVE WholeInv
  OBVIOUS
<1> QED
  BY NoTreeIsATree, IdleWhole DEF WalkInit, WalkIdle

LEMMA WholeInvStep == WalkInv /\ WholeInv /\ [WalkNext]_walkVars => WholeInv'
<1> SUFFICES ASSUME WalkInv, WholeInv, [WalkNext]_walkVars PROVE WholeInv'
  OBVIOUS
<1>1. CASE Walk
  BY <1>1, WalkWhole
<1>2. CASE \/ Visit \/ VisitFails \/ readDirNames \/ readDirNamesFails
           \/ SkipVisited \/ StatFails \/ EvalPathFails \/ EndOfNames
  BY <1>2, CallWhole
<1>3. CASE Descend
  BY <1>3, DescendWhole
<1>4. CASE Return
  BY <1>4, ReturnWhole
<1>5. CASE WalkReturns
  <2>1. WalkIdle'
    BY <1>5, NoTreeIsATree DEF WalkReturns, WalkIdle
  <2> QED
    BY <2>1, IdleWhole, PTL
<1>6. CASE UNCHANGED walkVars
  <2>1. /\ Root' = Root /\ path' = path /\ left' = left /\ Coming' = Coming /\ Going' = Going
        /\ UNCHANGED <<walkAt, tree, into, frames, visited, walkErr, told, cut, refused>>
    BY <1>6 DEF walkVars, Root, path, left, Coming, Going
  <2>2. Within' = Within /\ Reach' = Reach
    BY <2>1, ReachSame
  <2> QED
    BY <2>1, <2>2 DEF WholeInv, Lists, Inside, Looping, Complete
<1> QED
  BY <1>1, <1>2, <1>3, <1>4, <1>5, <1>6 DEF WalkNext, WalkStep

\* When the outermost call returns nothing is to come, so what has been told of
\* has the root and everything that is next to one of its entries.
LEMMA WholeInvTree == WalkInv /\ WholeInv /\ ErrorStops => WholeTree
<1> SUFFICES ASSUME WalkInv, WholeInv, ErrorStops,
                    walkAt = "return", Len(frames) = 1, walkErr = "nil", ~cut
             PROVE  told = Reachable(path)
  BY DEF WholeTree
<1>1. Going
  BY DEF Going, ErrorStops
<1>2. frames # <<>>
  BY DEF WalkInv, WalkTypes
<1>3. path = Root /\ left = frames[1].left /\ Root \in Entries /\ told \subseteq Entries
  BY <1>2, RootFacts DEF WholeInv, Root, WalkInv, WalkTypeOK
<1>4. told \subseteq Reach /\ left = {} /\ Root \in told
  BY <1>1, <1>3 DEF WholeInv, Inside, Looping
<1>5. Coming = {}
  <2>1. \A i \in 1..Len(frames) : i = 1
    OBVIOUS
  <2>2. frames[1].left = {}
    BY <1>3, <1>4
  <2> QED
    BY <2>1, <2>2 DEF Coming
<1>6. \A e \in told : Within[e] \subseteq told
  BY <1>1, <1>5 DEF WholeInv, Complete
<1>7. Reach \subseteq told
  BY <1>3, <1>4, <1>6, ReachFacts
<1> QED
  BY <1>3, <1>4, <1>7 DEF Reach

\* A walk is faithful to every tree, whatever walkFn answers and whatever fails: if
\* nothing was skipped and nothing failed it has told walkFn of all that its root
\* leads to and of nothing else, and an error of walkFn ends it.
THEOREM WalkIsFaithful == WalkSpec => []WalkFaithful
<1>1. WalkSpec => [](WalkInv /\ WholeInv)
  BY WalkInvInit, WalkInvStep, WholeInvInit, WholeInvStep, PTL DEF WalkSpec
<1>2. WalkInv /\ WholeInv /\ ErrorStops => WalkFaithful
  BY WholeInvTree DEF WalkFaithful
<1> QED
  BY <1>1, <1>2, WalkErrorStops, PTL

-----------------------------------------------------------------------------
(* Side by side.                                                            *)

\* The types of a move.
LEMMA MoveInvTypes == MoveInv /\ MoveFiles => MoveTypeOK
<1> SUFFICES ASSUME MoveInv, MoveFiles PROVE MoveTypeOK
  OBVIOUS
<1>1. \A i \in 1..Len(dirs) : dirs[i] \in MoveFrame
  BY DEF MoveInv, MoveTypes
<1>2. \A i \in 1..Len(dirs) : source.kind[dirs[i].dir] = "dir" /\ dirs[i].todo \subseteq Entries
  BY <1>1 DEF MoveFrame, MoveFiles
<1> QED
  BY <1>2 DEF MoveInv, MoveTypes, MoveTypeOK, MoveFiles

\* A step of the whole is a step of each component, or changes nothing of it.
LEMMA UtilitiesSideBySide ==
  ASSUME [AllNext]_<<vars, retryVars, versionVars, convertVars, walkVars, moveVars>>
  PROVE  /\ [Next]_vars /\ [RetryNext]_retryVars /\ [VersionNext]_versionVars
         /\ [WalkNext]_walkVars /\ [MoveNext]_moveVars
BY DEF AllNext, CacheNext

(* The types of the components hold in every run of them side by side.     *)
THEOREM UtilityTypesAlways == AllSpec => []TypesOK
<1> DEFINE Inv == CacheInv /\ RetryInv /\ VersionInv /\ WalkInv /\ MoveInv /\ MoveFiles
           allVars == <<vars, retryVars, versionVars, convertVars, walkVars, moveVars>>
<1>1. AllInit => Inv
  BY CacheInvInit, RetryInvInit, VersionInvInit, WalkInvInit, MoveInvInit, MoveFilesInit
     DEF AllInit, CacheInit
<1>2. Inv /\ [AllNext]_allVars => Inv'
  BY UtilitiesSideBySide, CacheStep, RetryInvStep, VersionInvStep, WalkInvStep, MoveInvStep,
     MoveFilesStep
<1>3. Inv => TypesOK
  BY CacheInvMatches, VersionInvOrder, MoveInvTypes DEF TypesOK, RetryInv, WalkInv, VersionInv
<1> QED
  BY <1>1, <1>2, <1>3, PTL DEF AllSpec
=============================================================================
