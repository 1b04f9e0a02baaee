------------------------------- MODULE Condense -------------------------------
(***************************************************************************)
(* condense.rs: a settled page condensed into five levels, each with an    *)
(* account of what it dropped, and the cache of recent condensations keyed *)
(* by URL and settle revision.                                             *)
(*                                                                         *)
(* A page is a sequence of nodes in document order, a text a sequence of   *)
(* words, a word a number in the order of the alphabet: what the levels    *)
(* tell apart is which words of which nodes they keep, and their length.   *)
(***************************************************************************)
EXTENDS Naturals, Sequences, SequencesExt, FiniteSetsExt, Functions

CONSTANTS
    Length,      \* word -> its length in bytes
    RoleLength,  \* role -> the length of its name
    Stop,        \* the words that carry no subject
    Keys,        \* the settle keys: a URL and a revision
    Loads,       \* [page, preview, sentences, keywords]: the pages that settle
                 \* and the caller's limits
    Capacity,    \* of the cache, at least 1 after new
    MaxInserts   \* bound: the pages condensed in a behaviour

VARIABLES order, entries, inserted, asked, answer

vars == <<order, entries, inserted, asked, answer>>

Nothing == << >>

-----------------------------------------------------------------------------
(* The levels.                                                             *)

\* A level's answer with the account of what it kept.
Condensed(value, kept, page, bytes, present) ==
  [value |-> value, nodesKept |-> kept, nodesPresent |-> Len(page),
   bytesKept |-> bytes, bytesPresent |-> present]

RoleWeight(role) ==
  CASE role = "h1" -> 5 [] role = "h4" -> 4 [] role = "link" -> 3
    [] role = "label" -> 2 [] OTHER -> 1

\* words: those long enough to mean something that the stop list lets pass.
Word(w) == Length[w] >= 3 /\ w \notin Stop

VisibleText(node) == node.name \o node.value

\* The words with a space between each two.
Bytes(text) == FoldLeft(LAMBDA n, w : n + Length[w], 0, text)
                 + (IF text = << >> THEN 0 ELSE Len(text) - 1)

Visible(page) == SelectSeq(page, LAMBDA node : node.visible)

TextBytes(page) ==
  FoldLeft(LAMBDA n, node : n + Bytes(VisibleText(node)), 0, Visible(page))

Count(text, w) == Cardinality({i \in DOMAIN text : text[i] = w})

\* ranked_terms: every word of every visible node, at the node's weight.
RankedTerms(page) ==
  LET visible == Visible(page)
      terms == UNION {{w \in Range(VisibleText(visible[i])) : Word(w)} : i \in DOMAIN visible}
  IN  [w \in terms |->
         FoldLeft(LAMBDA n, node : n + RoleWeight(node.role) * Count(VisibleText(node), w),
                  0, visible)]

SumOver(text, score) ==
  FoldLeft(LAMBDA n, w : n + (IF w \in DOMAIN score THEN score[w] ELSE 0), 0, text)

Keywords(page) ==
  LET score == RankedTerms(page)
      better(v, w) == score[v] > score[w] \/ (score[v] = score[w] /\ v < w)
      terms == SetToSortSeq(DOMAIN score, better)
      contributing == {i \in DOMAIN page : page[i].visible /\
                         \E w \in Range(VisibleText(page[i])) : Word(w)}
  IN  Condensed(terms, Cardinality(contributing), page,
                FoldLeft(LAMBDA n, w : n + Length[w], 0, terms), TextBytes(page))

\* The texts that a summary is put together from.
Units(page) == {i \in DOMAIN page : page[i].visible /\ VisibleText(page[i]) # << >>}

\* The best units by the same terms, in the order of the document.
Summary(page, limit) ==
  LET score == RankedTerms(page)
      worth(i) == SumOver(VisibleText(page[i]), score)
      better(i, j) == worth(i) > worth(j) \/ (worth(i) = worth(j) /\ i < j)
      chosen == {i \in Units(page) : Cardinality({j \in Units(page) : better(j, i)}) < limit}
      sentences == [k \in 1..Cardinality(chosen) |-> VisibleText(page[SetToSortSeq(chosen, <)[k]])]
  IN  Condensed(sentences, Len(sentences), page,
                FoldLeft(LAMBDA n, s : n + Bytes(s), 0, sentences), TextBytes(page))

\* The leading visible nodes, in bytes of role and name.
Preview(page, limit) ==
  LET first == SubSeq(Visible(page), 1, Min({limit, Len(Visible(page))}))
  IN  Condensed([i \in DOMAIN first |-> first[i].id], Len(first), page,
                FoldLeft(LAMBDA n, node : n + RoleLength[node.role] + Bytes(node.name), 0, first),
                TextBytes(page))

\* A node whose parent is not in the page is a root; the tree holds whatever
\* hangs from a root.
Structure(page) ==
  LET ids == {page[i].id : i \in DOMAIN page}
      roots == SelectSeq(page, LAMBDA node : node.parent \notin ids)
      children(id) == SelectSeq(page, LAMBDA node : node.parent = id /\ id \in ids)
      grow(found) == found \cup UNION {{c.id : c \in Range(children(id))} : id \in found}
      held == FoldLeft(LAMBDA found, i : grow(found), {n.id : n \in Range(roots)}, page)
      names == SelectSeq(page, LAMBDA node : node.id \in held)
  IN  Condensed([roots |-> [i \in DOMAIN roots |-> roots[i].id],
                 children |-> [id \in held |-> [i \in DOMAIN children(id) |-> children(id)[i].id]]],
                Len(page), page,
                FoldLeft(LAMBDA n, node : n + Bytes(node.name), 0, names), TextBytes(page))

Content(page) ==
  LET text == SelectSeq([i \in DOMAIN Visible(page) |-> VisibleText(Visible(page)[i])],
                        LAMBDA t : t # << >>)
  IN  Condensed(text, Len(Visible(page)), page,
                FoldLeft(LAMBDA n, t : n + Bytes(t), 0, text), TextBytes(page))

\* condense: every level at once, the keywords cut to the caller's limit.
CondenseAll(load) ==
  LET all == Keywords(load.page)
      terms == SubSeq(all.value, 1, Min({load.keywords, Len(all.value)}))
      cut == [all EXCEPT !.value = terms,
                         !.bytesKept = FoldLeft(LAMBDA n, w : n + Length[w], 0, terms)]
  IN  [keywords |-> cut, summary |-> Summary(load.page, load.sentences),
       preview |-> Preview(load.page, load.preview), structure |-> Structure(load.page),
       content |-> Content(load.page)]

Levels == {"keywords", "summary", "preview", "structure", "content"}

\* Level::select.
Select(level, condensed) == condensed[level]

-----------------------------------------------------------------------------
(* The cache.  entries maps a key to the number of the insertion whose     *)
(* page it holds; inserted is every insertion of the behaviour.            *)

Init ==
  /\ order = << >>
  /\ entries = << >>
  /\ inserted = << >>
  /\ asked = Nothing
  /\ answer = Nothing

\* Mutation: a key that is cached already gets a second place.
PushedBack(key) == Append(order, key)

\* A key inserted again moves to the end.
Reordered(key) == Append(SelectSeq(order, LAMBDA k : k # key), key)

\* insert: the oldest goes when the cache is over its capacity.
Insert(key, load) ==
  LET number == Len(inserted) + 1
      grown == [k \in DOMAIN entries \cup {key} |-> IF k = key THEN number ELSE entries[k]]
  IN  /\ inserted' = Append(inserted, [key |-> key, load |-> load])
      /\ IF Cardinality(DOMAIN grown) <= Capacity
           THEN /\ order' = Reordered(key)
                /\ entries' = grown
           ELSE /\ order' = Tail(Reordered(key))
                /\ entries' = Restrict(grown, DOMAIN grown \ {Head(Reordered(key))})
      /\ asked' = Nothing
      /\ answer' = Nothing

\* condense of the cache.
CondensePage(key, load) ==
  Len(inserted) < MaxInserts /\ Insert(key, load)

\* get: the page that the key has now.
Get(key) ==
  /\ asked' = key
  /\ answer' = IF key \in DOMAIN entries THEN <<entries[key]>> ELSE Nothing
  /\ UNCHANGED <<order, entries, inserted>>

\* The request of the in-process transport, which keeps no cache: the one
\* level that its caller asked for.
Answer(load, level) ==
  /\ inserted = << >>
  /\ asked' = level
  /\ answer' = Select(level, CondenseAll(load))
  /\ UNCHANGED <<order, entries, inserted>>

Next ==
  \/ \E key \in Keys : Get(key) \/ \E load \in Loads : CondensePage(key, load)
  \/ \E load \in Loads, level \in Levels : Answer(load, level)

Spec == Init /\ [][Next]_vars

-----------------------------------------------------------------------------
\* The cache holds exactly the last Capacity keys to be inserted, each with
\* its latest page: a key inserted again is not evicted in the place it had
\* first, and no key is counted twice against the capacity.
LatestOf(key) == Max({i \in DOMAIN inserted : inserted[i].key = key})

CacheIsTheMostRecent ==
  LET known == {inserted[i].key : i \in DOMAIN inserted}
      younger(key) == {k \in known : LatestOf(k) > LatestOf(key)}
  IN  /\ DOMAIN entries = {key \in known : Cardinality(younger(key)) < Capacity}
      /\ \A key \in DOMAIN entries : entries[key] = LatestOf(key)
      /\ order = SetToSortSeq(DOMAIN entries, LAMBDA k, l : entries[k] < entries[l])

\* A narrow level says nothing that a wider one does not: the keywords and
\* the sentences are in the content, the nodes of the preview are in the
\* structure, the structure holds each node once, and no level claims to have
\* kept more nodes than there were.
LevelsNest ==
  Len(inserted) = 1 =>
    \A all \in {CondenseAll(inserted[1].load)} :
    LET page == inserted[1].load.page
        tree == all.structure.value
        places == tree.roots \o FlattenSeq([i \in DOMAIN page |-> tree.children[page[i].id]])
    IN  /\ DOMAIN tree.children = {page[i].id : i \in DOMAIN page}
        /\ IsInjective(places) /\ Range(places) = DOMAIN tree.children
        /\ Range(all.preview.value) \subseteq DOMAIN tree.children
        /\ Range(all.summary.value) \subseteq Range(all.content.value)
        /\ Range(all.keywords.value) \subseteq UNION {Range(t) : t \in Range(all.content.value)}
        /\ \A level \in Levels : all[level].nodesKept <= all[level].nodesPresent
        /\ \A level \in {"summary", "content"} :
             all[level].bytesKept <= all[level].bytesPresent
=============================================================================
