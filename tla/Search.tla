-------------------------------- MODULE Search --------------------------------
(***************************************************************************)
(* services/search-service and services/search-autocomplete: a catalogue     *)
(* that only grows, the pipeline that searches it, and the two tries.  A     *)
(* search holds the lock; the pages of one customer are searches of their    *)
(* own, and the catalogue changes between them.  Relevance counts in halves, *)
(* margins and popularity in percent, the rank in ten-thousandths.  There is *)
(* no Redis: main passes none, and every product of a hub has ten in stock.  *)
(***************************************************************************)
EXTENDS Integers, Sequences, SequencesExt, FiniteSets

CONSTANTS
    Products, Product,  \* SKUs, and what each one is: texts (name, brand and tags) to
                        \* suggest; name, brand, label (its category) and about
                        \* (description) as the terms each holds; place of its name in
                        \* the alphabet; category, margin, popularity, price
    Seeds,          \* the SKUs of seedProducts; Active is set on none of them
    Queries,        \* [terms, category, hub, sort, pageSize]
    TermLength,     \* TermLength[t]
    Customers,
    Texts, TextPlace, PrefixOf, \* what tries hold; its place in the alphabet; PrefixOf[x]:
                    \* the texts that begin with x
    TrainTexts,     \* texts that search-autocomplete is trained with
    MaxTrained      \* bound: times it is trained with each

SearchAssumption ==
    /\ \A k \in Products : /\ {Product[k].place, Product[k].price, Product[k].popularity, Product[k].margin} \subseteq Nat
                          /\ Product[k].texts \in Seq(Texts)
    /\ Seeds \subseteq Products
    /\ Queries # {} /\ \A q \in Queries : q.pageSize \in Int /\ q.terms \in Seq(DOMAIN TermLength)
    /\ IsFiniteSet(Texts) /\ TextPlace \in [Texts -> Nat]
    /\ \A t, u \in Texts : TextPlace[t] = TextPlace[u] => t = u
    /\ \A x \in DOMAIN PrefixOf : PrefixOf[x] \subseteq Texts
    /\ TrainTexts \subseteq Texts /\ MaxTrained \in Nat

ASSUME SearchAssumption

VARIABLES
    catalogue,      \* the products; every search sorts them, so their order is not kept
    enabled,        \* SKUs whose Active is set
    trie, trained,  \* the frequencies of texts in the search-service and in
                    \* search-autocomplete; 0 when a text only leads to others
    pager           \* pager[c]: a customer's query, its next page, and history: what it saw,
                    \* and what its query matched when it began

searchVars == <<catalogue, enabled, trie, trained, pager>>

SearchInit ==
    /\ catalogue = Seeds /\ enabled = {}
    /\ trie = [t \in Texts |-> 0] /\ trained = [t \in TrainTexts |-> 0]
    /\ pager = [c \in Customers |-> [pc |-> "idle", query |-> CHOOSE q \in Queries : TRUE,
                                     page |-> 1, seen |-> {}, began |-> {}]]

-----------------------------------------------------------------------------
(* Matching: a field holds the terms it contains, and `whole` is the term    *)
(* that it is.  A search keeps the score of each product that it found.     *)

\* The elements of S in the order `before`, a set of pairs that leaves no ties.
Ordered(S, before) ==
    [i \in 1 .. Cardinality(S) |-> CHOOSE x \in S : Cardinality({y \in S : <<y, x>> \in before}) = i - 1]

\* sort.Slice is not stable: when `before` leaves ties, every list that it allows.
Sortings(S, before) ==
    {list \in [1 .. Cardinality(S) -> S] :
        \A i, j \in 1 .. Cardinality(S) : i < j => list[i] # list[j] /\ <<list[j], list[i]>> \notin before}

NoCategory == ""

Hits(terms, T) == Cardinality({i \in DOMAIN terms : terms[i] \in T})

ScoreProduct(k, terms) ==
    LET p == Product[k]
        Field(field, exact, part) ==
            exact * Hits(terms, {field.whole}) + part * Hits(terms, field.holds \ {field.whole})
    IN  Field(p.name, 6, 4) + Field(p.label, 4, 3) + Field(p.brand, 4, 3)
        + 2 * Hits(terms, p.about) + 4 * Hits(terms, Range(Tail(Tail(p.texts))))

MatchProducts(terms, category) ==
    LET Fits(k) == /\ category # NoCategory => Product[k].category = category
                   /\ IF terms = <<>> THEN category # NoCategory ELSE ScoreProduct(k, terms) > 0
    IN  [k \in {l \in enabled : Fits(l)} |-> IF terms = <<>> THEN 2 ELSE ScoreProduct(k, terms)]

\* The most popular, any of those that tie for the last place.  Popularity is what is left of
\* the score then, in halves of a percent.
PopularProducts(limit) ==
    LET Popular == {S \in SUBSET enabled :
                       /\ Cardinality(S) = IF Cardinality(enabled) > limit THEN limit ELSE Cardinality(enabled)
                       /\ \A k \in S, l \in enabled \ S : Product[l].popularity <= Product[k].popularity}
    IN  {[k \in S |-> 2 * Product[k].popularity] : S \in Popular}

\* The longest term alone, then the category alone, then what is popular.
Longest(terms) ==
    FoldLeft(LAMBDA a, t : IF TermLength[t] > TermLength[a] THEN t ELSE a, terms[1], terms)

FallbackProducts(terms, category) ==
    LET byTerm == IF Len(terms) > 1 THEN MatchProducts(<<Longest(terms)>>, category) ELSE <<>>
        byCategory == IF category # NoCategory THEN MatchProducts(<<>>, category) ELSE <<>>
    IN  IF DOMAIN byTerm # {} THEN {byTerm}
        ELSE IF DOMAIN byCategory # {} THEN {byCategory} ELSE PopularProducts(20)

-----------------------------------------------------------------------------
(* Ranking and sorting.  Half the logarithm of 10 + 1 is 0.5207.              *)
Highest(S) == CHOOSE x \in S \cup {0} : \A y \in S : y <= x
Share(x, max, weight) == IF max > 0 THEN (x * weight) \div max ELSE 0

Total(found, hub) ==
    LET maxRel == Highest(Range(found))
        maxMargin == Highest({Product[k].margin : k \in DOMAIN found})
    IN  [k \in DOMAIN found |->
            Share(found[k], maxRel, 4000) + Share(Product[k].margin, maxMargin, 2000)
            + 15 * Product[k].popularity + (IF hub THEN 1302 ELSE 0)]

\* The pairs that a less function compares.
Compared(found) == (DOMAIN found) \X (DOMAIN found)

Rank(found, hub) ==
    LET total == Total(found, hub)
    IN  {b \in Compared(found) : \/ total[b[1]] > total[b[2]]
                                 \/ total[b[1]] = total[b[2]] /\ Product[b[1]].place < Product[b[2]].place}

\* A sort that is asked for takes the place of the rank, also among what it leaves equal.
ApplySort(found, hub, sort) ==
    CASE sort = "price_asc" -> {b \in Compared(found) : Product[b[1]].price < Product[b[2]].price}
      [] sort = "price_desc" -> {b \in Compared(found) : Product[b[1]].price > Product[b[2]].price}
      [] sort = "popularity" -> {b \in Compared(found) : Product[b[1]].popularity > Product[b[2]].popularity}
      [] OTHER -> Rank(found, hub)

\* Every list that the search may answer.
Results(q) ==
    LET matched == MatchProducts(q.terms, q.category)
        found == IF DOMAIN matched = {} /\ q.terms # <<>> THEN FallbackProducts(q.terms, q.category) ELSE {matched}
    IN  UNION {Sortings(DOMAIN f, ApplySort(f, q.hub, q.sort)) : f \in found}

\* The handler makes sizes below 1 and above 100 the default.
PageSize(q) == IF q.pageSize < 1 \/ q.pageSize > 100 THEN 20 ELSE q.pageSize
Paginate(list, page, size) ==
    SubSeq(list, (page - 1) * size + 1, IF page * size > Len(list) THEN Len(list) ELSE page * size)

-----------------------------------------------------------------------------
(* Tries: the most frequent texts that begin with the prefix, at most limit; *)
(* the handlers ask for ten.                                                 *)
SuggestLimit == 10

\* Texts differ, so this leaves no ties.
Likelier(freq, t, u) == \/ freq[t] > freq[u]
                        \/ freq[t] = freq[u] /\ TextPlace[t] < TextPlace[u]

Suggestions(freq, prefix, limit) ==
    LET terms == {t \in DOMAIN freq : freq[t] > 0 /\ t \in PrefixOf[prefix]}
        found == Ordered(terms, {b \in terms \X terms : Likelier(freq, b[1], b[2])})
    IN  SubSeq(found, 1, IF limit > 0 /\ Len(found) > limit THEN limit ELSE Len(found))

Occurrences(t, texts) == Cardinality({i \in DOMAIN texts : texts[i] = t})

\* A SKU may be given to several products; the instances add each product once.
AddProduct(k) ==
    /\ k \notin catalogue
    /\ catalogue' = catalogue \cup {k} /\ enabled' = enabled \cup {k}
    /\ trie' = [t \in Texts |-> trie[t] + Occurrences(t, Product[k].texts)]
    /\ UNCHANGED <<trained, pager>>

Train(t) ==
    /\ trained[t] < MaxTrained
    /\ trained' = [trained EXCEPT ![t] = @ + 1]
    /\ UNCHANGED <<catalogue, enabled, trie, pager>>

-----------------------------------------------------------------------------
(* A customer that turns the pages of one query.                             *)
BeginPaging(c, q) ==
    /\ pager[c].pc = "idle"
    /\ pager' = [pager EXCEPT ![c] = [pc |-> "paging", query |-> q, page |-> 1, seen |-> {},
                    began |-> DOMAIN MatchProducts(q.terms, q.category)]]
    /\ UNCHANGED <<catalogue, enabled, trie, trained>>

NextPage(c) ==
    LET q == pager[c].query IN
    /\ pager[c].pc = "paging"
    /\ \E found \in Results(q) :
          pager' = IF (pager[c].page - 1) * PageSize(q) >= Len(found)
                   THEN [pager EXCEPT ![c].pc = "end"]
                   ELSE [pager EXCEPT ![c].page = @ + 1,
                            ![c].seen = @ \cup Range(Paginate(found, pager[c].page, PageSize(q)))]
    /\ UNCHANGED <<catalogue, enabled, trie, trained>>

SearchNext ==
    \/ \E k \in Products : AddProduct(k)
    \/ \E t \in TrainTexts : Train(t)
    \/ \E c \in Customers : NextPage(c) \/ \E q \in Queries : BeginPaging(c, q)

SearchSpec == SearchInit /\ [][SearchNext]_searchVars

-----------------------------------------------------------------------------
SearchTypeOK ==
    /\ catalogue \subseteq Products /\ enabled \subseteq catalogue
    /\ trie \in [Texts -> Nat] /\ trained \in [TrainTexts -> 0 .. MaxTrained]
    /\ \A c \in Customers : /\ pager[c].pc \in {"idle", "paging", "end"} /\ pager[c].query \in Queries
                           /\ pager[c].seen \cup pager[c].began \subseteq Products

\* A customer who turns the pages by price misses no product that matched when it began,
\* whatever is added meanwhile, except one whose price another match has: an addition may
\* turn those two round.  By relevance it may miss others, for one product changes the rank
\* of all.  Every text of a product that can be found is suggested for each of its
\* prefixes, unless ten likelier ones are.
PagesMissNothing ==
    /\ \A c \in Customers :
          LET q == pager[c].query
              matches == DOMAIN MatchProducts(q.terms, q.category)
              Tied(k) == \E l \in matches \ {k} : Product[l].price = Product[k].price
          IN  pager[c].pc # "idle" /\ q.sort = "price_asc" =>
                 \A k \in pager[c].began \ pager[c].seen : ~ Tied(k) =>
                    /\ pager[c].pc = "paging"
                    /\ \A found \in Results(q) :
                          k \in Range(SubSeq(found, (pager[c].page - 1) * PageSize(q) + 1, Len(found)))
    /\ \A x \in DOMAIN PrefixOf :
          LET offered == Range(Suggestions(trie, x, SuggestLimit)) IN
          \A k \in enabled : \A t \in Range(Product[k].texts) :
             t \in PrefixOf[x] \ offered =>
                Cardinality({u \in PrefixOf[x] : trie[u] > 0 /\ Likelier(trie, u, t)}) >= SuggestLimit
=============================================================================
