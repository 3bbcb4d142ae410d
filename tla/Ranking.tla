-------------------------------- MODULE Ranking --------------------------------
(***************************************************************************)
(* The ranking package: a top of channel posts under settings the product  *)
(* seeds one key at a time.  Scores are exact fractions where the code has *)
(* floats: ages are whole half-lives, and a criterion's score is counted   *)
(* in fourths.                                                             *)
(***************************************************************************)
EXTENDS Integers, FiniteSets, Sequences, SequencesExt

CONSTANTS
    Post,           \* [id, age, views, reactions, forwards, words]; {} is not reported, {n} is n
    Weights,        \* functions from Criteria to percent
    Keyword,        \* values of ranking.keywords: sets of words
    Count,          \* values of ranking.top_count
    MaxPosts        \* bound on the posts of one answer of the provider

VARIABLES
    copy,           \* the package's copy of the seeded settings, a function from local names
    posts,          \* what the provider answered last
    answer          \* what top answered

vars == <<copy, posts, answer>>

Metrics == {"views", "reactions", "forwards"}
Criteria == Metrics \cup {"freshness", "keywords"}
Names == {"weights", "keywords", "top_count"}
Unit == 4

RankingAssumption ==
    /\ \A p \in Post :
        /\ p.id \in Int /\ p.age \in Int
        /\ \A m \in Metrics : p[m] \subseteq Nat /\ \A k, n \in p[m] : k = n
    /\ Weights \subseteq [Criteria -> Nat]
    /\ \A words \in Keyword : IsFiniteSet(words)
    /\ Count \subseteq Nat \ {0} /\ MaxPosts \in Nat

TypeOK ==
    /\ DOMAIN copy \subseteq Names
    /\ "weights" \in DOMAIN copy => copy["weights"] \in Weights
    /\ "keywords" \in DOMAIN copy => copy["keywords"] \in Keyword
    /\ "top_count" \in DOMAIN copy => copy["top_count"] \in Count
    /\ posts \in Seq(Post)
    /\ answer \in {"none", "top", "not_configured", "try_later"}

-------------------------------------------------------------------------------
(* scoring.py *)

At(f, c) == IF c \in DOMAIN f THEN f[c] ELSE 0
Total(f) ==
    At(f, "views") + At(f, "reactions") + At(f, "forwards") + At(f, "freshness") + At(f, "keywords")

Maximum(items, metric) ==
    LET reported == UNION {items[i][metric] : i \in DOMAIN items}
    IN IF reported = {} THEN 0 ELSE CHOOSE n \in reported : \A k \in reported : k <= n

\* Of an age in half-lives; a post from the future is as fresh as one of now.
Freshness(p) ==
    CASE p.age <= 0 -> Unit
      [] p.age = 1 -> Unit \div 2
      [] p.age = 2 -> Unit \div 4
      [] OTHER -> 0

UsesKeywords(s) == s.weights["keywords"] > 0 /\ s.keywords # {}

\* The criteria a post carries data for; words holds the set of words of its text, if it has one.
Carries(p, s) ==
    {m \in Metrics : p[m] # {}} \cup {"freshness"} \cup
    (IF UsesKeywords(s) /\ p.words # {} THEN {"keywords"} ELSE {})

CriterionScore(p, c, s, items) ==
    CASE c = "freshness" -> Freshness(p)
      [] c = "keywords" -> (Unit * Cardinality(s.keywords \cap UNION p.words)) \div Cardinality(s.keywords)
      [] OTHER -> LET maximum == Maximum(items, c)
                  IN IF p[c] = {} \/ maximum = 0 THEN 0 ELSE (Unit * Maximum(<<p>>, c)) \div maximum

\* [num, den]: the mean of the carried criteria, by the weights above zero; contributions left out.
Score(p, s, items) ==
    LET applicable == {c \in Carries(p, s) : s.weights[c] > 0}
        total == Total([c \in applicable |-> s.weights[c]])
    IN IF total = 0 THEN [num |-> 0, den |-> 1]
       ELSE [num |-> Total([c \in applicable |-> s.weights[c] * CriterionScore(p, c, s, items)]),
             den |-> total]

Higher(a, b) == a.num * b.den > b.num * a.den
Equal(a, b) == a.num * b.den = b.num * a.den

\* Mutant: posts of one score and one moment stay in the order they came in.
OrderedByMoment(p, q, s, items) ==
    LET a == Score(p, s, items)  b == Score(q, s, items)
    IN Higher(a, b) \/ (Equal(a, b) /\ p.age < q.age)

\* _order_key: score, then recency, then identifier.
Ordered(p, q, s, items) ==
    LET a == Score(p, s, items)  b == Score(q, s, items)
    IN \/ Higher(a, b)
       \/ Equal(a, b) /\ p.age < q.age
       \/ Equal(a, b) /\ p.age = q.age /\ p.id < q.id

\* sorted() is stable: the posts before the one at i, and those of equal keys that came earlier.
Before(i, s, items) ==
    {j \in DOMAIN items :
        \/ Ordered(items[j], items[i], s, items)
        \/ j < i /\ ~Ordered(items[i], items[j], s, items)}
Place(i, s, items) == Cardinality(Before(i, s, items)) + 1
Sorted(items, s) ==
    LET places == [i \in DOMAIN items |-> Place(i, s, items)]
    IN [k \in DOMAIN items |-> items[CHOOSE i \in DOMAIN items : places[i] = k]]

\* rank, without the moment and the half-life: {} is a RankingInputError.
Rank(items, s, limit) ==
    IF \/ ~IsInjective([i \in DOMAIN items |-> items[i].id])
       \/ Total(s.weights) <= 0 \/ limit < 1
    THEN {}
    ELSE {IF Len(items) <= limit THEN Sorted(items, s) ELSE SubSeq(Sorted(items, s), 1, limit)}

-------------------------------------------------------------------------------
(* store.py, api.py and top.py *)

Init == copy = [n \in {} |-> {}] /\ posts = <<>> /\ answer = "none"

\* seed_setting: a valid value overrides; another raises and leaves the copy.  A request changes
\* no setting, so only what is seeded before it is followed.
Seed ==
    /\ answer = "none"
    /\ \E n \in Names : \E v \in (CASE n = "weights" -> Weights [] n = "keywords" -> Keyword [] OTHER -> Count) :
        copy' = [m \in DOMAIN copy \cup {n} |-> IF m = n THEN v ELSE copy[m]]
    /\ UNCHANGED <<posts, answer>>

\* What the caller's top becomes for a provider's answer.
Top(provided) ==
    IF DOMAIN copy # Names THEN "not_configured"
    ELSE IF provided \in {"not_configured", "try_later"} THEN provided
    ELSE IF Rank(posts', copy, copy.top_count) = {} THEN "not_configured" ELSE "top"

Request ==
    /\ answer = "none"
    /\ \E provided \in {"posts", "not_configured", "try_later"} :
        /\ posts' \in IF provided = "posts" THEN BoundedSeq(Post, MaxPosts) ELSE {<<>>}
        /\ answer' = Top(provided)
    /\ UNCHANGED copy

Next == Seed \/ Request

Spec == Init /\ [][Next]_vars

-------------------------------------------------------------------------------
Shown == CHOOSE top \in Rank(posts, copy, copy.top_count) : TRUE

\* The top is reproducible: it does not depend on the order the provider answered in, and a smaller
\* top is the beginning of a larger one.
TopIsReproducible ==
    answer = "top" =>
        /\ Rank(Reverse(posts), copy, copy.top_count) = {Shown}
        /\ \A n \in Count : \E larger \in Rank(posts, copy, Len(posts) + 1) :
            Rank(posts, copy, n) = {SubSeq(larger, 1, IF n < Len(posts) THEN n ELSE Len(posts))}

===============================================================================
