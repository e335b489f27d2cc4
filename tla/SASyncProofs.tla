---------------------------- MODULE SASyncProofs ----------------------------
(***************************************************************************)
(* Invariants and an action property of SASync, proved for any replicas,   *)
(* requests, accounts, contents of the ConfigMap and bounds.               *)
(***************************************************************************)
EXTENDS SASync, TLAPS

-----------------------------------------------------------------------------
(* What an entry of the ConfigMap is parsed to. *)

\* A raw pattern has one normal form or none.
LEMMA OneNormalForm ==
    ASSUME NEW raw, NEW m \in NormalizeResource(raw), NEW n \in NormalizeResource(raw)
    PROVE  m = n
  BY DEF NormalizeResource

LEMMA ChosenNormalForm ==
    ASSUME NEW raw, NEW n \in NormalizeResource(raw)
    PROVE  (CHOOSE m \in NormalizeResource(raw) : TRUE) = n
  <1>1. (CHOOSE m \in NormalizeResource(raw) : TRUE) \in NormalizeResource(raw)
    OBVIOUS
  <1>2. QED
    BY <1>1, OneNormalForm

\* syncSA skips what it cannot grant: what is left is a known verb on a pattern
\* whose namespace is neither the wildcard nor reserved.
LEMMA ParsedIsGrantable ==
    ASSUME NEW e \in ListedEntries, NEW g \in ParsePermissions[e]
    PROVE  g \in Granted /\ g.pat.ns \notin {Star, Reserved}
  <1>1. PICK p \in e.permissions :
          /\ p.verb \in Verbs
          /\ \E n \in NormalizeResource(p.raw) : ValidateResourcePattern(n)
          /\ g = [verb |-> p.verb, pat |-> CHOOSE n \in NormalizeResource(p.raw) : TRUE]
    BY DEF ParsePermissions
  <1>2. PICK n \in NormalizeResource(p.raw) : ValidateResourcePattern(n)
    BY <1>1
  <1>3. g = [verb |-> p.verb, pat |-> n]
    BY <1>1, ChosenNormalForm
  <1>4. PICK c \in Contents : \E k \in DOMAIN c.entries : e = c.entries[k]
    BY DEF ListedEntries
  <1>5. n \in Pattern
    BY <1>4, SyncAssumption
  <1>6. p.verb \in Verbs
    BY <1>1, Zenon
  <1>7. QED
    BY <1>2, <1>3, <1>5, <1>6 DEF Granted, ValidateResourcePattern

-----------------------------------------------------------------------------
(* Type correctness, and where the contents that the loops work on come from. *)

\* syncSA is at work on an entry.
Mid == {"find", "create", "clear", "commit"}

\* Some revision so far lists the entry.
IsListed(e) == \E c \in published : \E j \in DOMAIN Listed(c) : e = Listed(c)[j]

\* Whatever is in the ConfigMap, on its way to a replica or still to be synced was
\* published, and a loop that is at work has an entry at hand.
WorkInv ==
    /\ published \subseteq Contents
    /\ cm.content \in published
    /\ \A r \in Replicas : \A k \in DOMAIN chan[r] : chan[r][k] \in published
    /\ \A r \in Replicas : \A k \in DOMAIN loc[r].todo : IsListed(loc[r].todo[k])
    /\ \A r \in Replicas : pc[r] \in Mid => loc[r].todo # <<>>

LEMMA ListedType ==
    ASSUME NEW c \in Content
    PROVE  Listed(c) \in Seq(SAEntry)
  BY DEF Listed, Content

LEMMA ListedIsEntry ==
    ASSUME published \subseteq Contents, NEW e, IsListed(e)
    PROVE  e \in ListedEntries /\ e \in SAEntry
  <1>1. PICK c \in published : \E j \in DOMAIN Listed(c) : e = Listed(c)[j]
    BY DEF IsListed
  <1>2. PICK j \in DOMAIN Listed(c) : e = Listed(c)[j]
    BY <1>1
  <1>3. c \in Contents /\ c \in Content
    BY SyncAssumption
  <1>4. j \in DOMAIN c.entries /\ e = c.entries[j]
    BY <1>2 DEF Listed
  <1>5. c.entries \in Seq(SAEntry)
    BY <1>3 DEF Content
  <1>6. QED
    BY <1>3, <1>4, <1>5 DEF ListedEntries

\* The entry at hand and those behind it.
LEMMA TailFacts ==
    ASSUME NEW T, NEW seq \in Seq(T), seq # <<>>
    PROVE  /\ 1 \in DOMAIN seq /\ Head(seq) = seq[1]
           /\ \A k \in DOMAIN Tail(seq) : k + 1 \in DOMAIN seq /\ k + 1 > 1 /\ Tail(seq)[k] = seq[k + 1]
           /\ \A k \in DOMAIN seq : k > 1 => k - 1 \in DOMAIN Tail(seq) /\ Tail(seq)[k - 1] = seq[k]
  OBVIOUS

\* The only element of a sequence is its last.
LEMMA LastIsHead ==
    ASSUME NEW T, NEW seq \in Seq(T), seq # <<>>, Tail(seq) = <<>>
    PROVE  Head(seq) = seq[Len(seq)]
  <1>1. Len(Tail(seq)) = Len(seq) - 1 /\ Len(seq) \in Nat /\ Head(seq) = seq[1]
    OBVIOUS
  <1> DEFINE t == Tail(seq)
  <1>2. t = <<>> /\ Len(t) = Len(seq) - 1
    BY <1>1
  <1> HIDE DEF t
  <1>3. Len(t) = 0
    BY <1>2
  <1>4. Len(seq) = 1
    BY <1>1, <1>2, <1>3
  <1>5. QED
    BY <1>1, <1>4, Zenon

\* An entry at hand is one of the ConfigMap.
LEMMA HeadIsListed ==
    ASSUME TypeOK, WorkInv, NEW r \in Replicas, pc[r] \in Mid
    PROVE  /\ loc[r].todo \in Seq(SAEntry) /\ loc[r].todo # <<>>
           /\ IsListed(Head(loc[r].todo))
           /\ Head(loc[r].todo) \in SAEntry /\ Head(loc[r].todo) \in ListedEntries
  <1>1. loc[r].todo \in Seq(SAEntry) /\ loc[r].todo # <<>>
    BY DEF TypeOK, Locals, WorkInv
  <1>2. Head(loc[r].todo) = loc[r].todo[1] /\ 1 \in DOMAIN loc[r].todo
    BY <1>1
  <1>3. IsListed(Head(loc[r].todo))
    BY <1>2 DEF WorkInv
  <1>4. QED
    BY <1>1, <1>3, ListedIsEntry DEF WorkInv

LEMMA FirstType ==
    ASSUME TypeOK, NEW s \in SAs, NEW x \in First(s)
    PROVE  x \in SARow /\ x = [sa |-> s, nth |-> 1] /\ sas[s] > 0
  BY DEF First, SARow

LEMMA RowsType ==
    ASSUME NEW owner \in SARow, NEW granted \in SUBSET Granted, NEW by \in {"sync", "admin"}
    PROVE  Rows(owner, granted, by) \subseteq PermRow
  BY DEF Rows, PermRow

\* Sparing rows changes nothing else.
LEMMA SpareFacts ==
    ASSUME loc \in [Replicas -> Locals], NEW rows
    PROVE  /\ Spare(rows) \in [Replicas -> Locals]
           /\ \A q \in Replicas :
                /\ Spare(rows)[q].todo = loc[q].todo
                /\ Spare(rows)[q].back = loc[q].back
                /\ Spare(rows)[q].sa = loc[q].sa
                /\ Spare(rows)[q].cleared = loc[q].cleared \ rows
  BY DEF Spare, Locals

\* What NextEntry does, entry failed or not.
LEMMA NextEntryFacts ==
    ASSUME pc \in [Replicas -> Labels], NEW l \in [Replicas -> Locals], NEW r \in Replicas,
           l[r].todo # <<>>, NextEntry(r, l)
    PROVE  /\ loc' \in [Replicas -> Locals] /\ pc' \in [Replicas -> Labels]
           /\ \A q \in Replicas \ {r} : loc'[q] = l[q] /\ pc'[q] = pc[q]
           /\ loc'[r].todo = Tail(l[r].todo) /\ loc'[r].back = l[r].back
           /\ loc'[r].sa = None /\ loc'[r].cleared = {}
           /\ pc'[r] = IF Tail(l[r].todo) = <<>> THEN l[r].back ELSE "find"
  <1>1. l[r] \in Locals /\ l[r].todo \in Seq(SAEntry) /\ l[r].back \in {"watch", "recv"}
    BY DEF Locals
  <1>2. Tail(l[r].todo) \in Seq(SAEntry)
    BY <1>1
  <1>3. loc' = [l EXCEPT ![r] = [l[r] EXCEPT !.todo = Tail(l[r].todo), !.sa = None, !.cleared = {}]]
    BY DEF NextEntry
  <1>4. [l[r] EXCEPT !.todo = Tail(l[r].todo), !.sa = None, !.cleared = {}] \in Locals
    BY <1>1, <1>2 DEF Locals
  <1>5. pc' = [pc EXCEPT ![r] = IF Tail(l[r].todo) = <<>> THEN l[r].back ELSE "find"]
    BY DEF NextEntry, Goto
  <1>6. pc' \in [Replicas -> Labels] /\ pc'[r] = (IF Tail(l[r].todo) = <<>> THEN l[r].back ELSE "find")
    BY <1>1, <1>5 DEF Labels
  <1>7. loc' \in [Replicas -> Locals]
    BY <1>3, <1>4
  <1>8. loc'[r] = [l[r] EXCEPT !.todo = Tail(l[r].todo), !.sa = None, !.cleared = {}]
    BY <1>3
  <1>9. /\ loc'[r].todo = Tail(l[r].todo) /\ loc'[r].back = l[r].back
        /\ loc'[r].sa = None /\ loc'[r].cleared = {}
    BY <1>1, <1>8 DEF Locals
  <1>10. QED
    BY <1>3, <1>5, <1>6, <1>7, <1>9

\* What Apply does, to a list of accounts or to a setting.
LEMMA ApplyFacts ==
    ASSUME TypeOK, NEW r \in Replicas, NEW content \in Content, NEW back \in {"watch", "recv"},
           Apply(r, content, back)
    PROVE  /\ setting' \in [Replicas -> SUBSET Values]
           /\ loc' \in [Replicas -> Locals] /\ pc' \in [Replicas -> Labels]
           /\ \A q \in Replicas \ {r} : loc'[q] = loc[q] /\ pc'[q] = pc[q]
           /\ loc'[r].sa = loc[r].sa /\ loc'[r].cleared = loc[r].cleared
           /\ \/ /\ feed = "settings" /\ pc'[r] = back
                 /\ loc' = loc
              \/ /\ feed = "sa" /\ pc'[r] = IF Listed(content) = <<>> THEN back ELSE "find"
                 /\ loc'[r].todo = Listed(content) /\ loc'[r].back = back
  <1>1. CASE feed = "settings" /\ setting' = [setting EXCEPT ![r] = SettingOf(@, content)]
             /\ Goto(r, back) /\ UNCHANGED loc
    <2>1. SettingOf(setting[r], content) \in SUBSET Values
      BY DEF TypeOK, SettingOf, Content
    <2>2. setting' \in [Replicas -> SUBSET Values]
      BY <1>1, <2>1 DEF TypeOK
    <2>3. /\ pc' \in [Replicas -> Labels] /\ pc'[r] = back
          /\ \A q \in Replicas \ {r} : pc'[q] = pc[q]
      BY <1>1 DEF TypeOK, Goto, Labels
    <2>4. QED
      BY <1>1, <2>2, <2>3 DEF TypeOK
  <1>2. CASE /\ feed = "sa"
             /\ Goto(r, IF Listed(content) = <<>> THEN back ELSE "find")
             /\ loc' = [loc EXCEPT ![r].todo = Listed(content), ![r].back = back]
             /\ UNCHANGED setting
    <2>1. loc[r] \in Locals
      BY DEF TypeOK
    <2>2. [loc[r] EXCEPT !.todo = Listed(content), !.back = back] \in Locals
      BY <2>1, ListedType DEF Locals
    <2>3. loc' = [loc EXCEPT ![r] = [loc[r] EXCEPT !.todo = Listed(content), !.back = back]]
      BY <1>2
    <2>4. loc' \in [Replicas -> Locals] /\ (\A q \in Replicas \ {r} : loc'[q] = loc[q])
      BY <2>2, <2>3 DEF TypeOK
    <2>5. loc'[r] = [loc[r] EXCEPT !.todo = Listed(content), !.back = back]
      BY <2>3 DEF TypeOK
    <2>6. /\ loc'[r].todo = Listed(content) /\ loc'[r].back = back
          /\ loc'[r].sa = loc[r].sa /\ loc'[r].cleared = loc[r].cleared
      BY <2>1, <2>5 DEF Locals
    <2>7. /\ pc' \in [Replicas -> Labels] /\ pc'[r] = (IF Listed(content) = <<>> THEN back ELSE "find")
          /\ \A q \in Replicas \ {r} : pc'[q] = pc[q]
      BY <1>2 DEF TypeOK, Goto, Labels
    <2>8. QED
      BY <1>2, <2>4, <2>6, <2>7 DEF TypeOK
  <1>3. QED
    BY <1>1, <1>2 DEF Apply, Listed
LEMMA TypeInit == Init => TypeOK /\ WorkInv
<1> SUFFICES ASSUME Init PROVE TypeOK /\ WorkInv
  OBVIOUS
<1>1. cm \in CMState /\ cm.content \in Contents
  BY SyncAssumption DEF Init
<1>2. NoWork \in Locals /\ NoWork.todo = <<>>
  BY DEF NoWork, Locals
<1>3. published \subseteq Content
  BY <1>1, SyncAssumption DEF Init
<1>4. TypeOK
  BY <1>1, <1>2, <1>3 DEF Init, TypeOK, Labels
<1>5. WorkInv
  BY <1>1, <1>2 DEF Init, WorkInv, Mid
<1>6. QED
  BY <1>4, <1>5

\* The watches that are open get one more event.
LEMMA PublishFacts ==
    ASSUME chan \in [Replicas -> Seq(Content)], NEW c \in Content, Publish(c)
    PROVE  /\ chan' \in [Replicas -> Seq(Content)]
           /\ \A r \in Replicas : chan'[r] = IF Connected(r) THEN Append(chan[r], c) ELSE chan[r]
           /\ \A r \in Replicas : \A k \in DOMAIN chan'[r] :
                chan'[r][k] = c \/ (k \in DOMAIN chan[r] /\ chan'[r][k] = chan[r][k])
  BY DEF Publish

\* What was published stays so.
LEMMA PublishedGrows ==
    ASSUME published \subseteq published', NEW e, IsListed(e)
    PROVE  IsListed(e)'
  BY DEF IsListed, Listed

\* What keeps WorkInv when a loop moves on.
LEMMA WorkOfOthers ==
    ASSUME TypeOK, WorkInv, NEW r \in Replicas, UNCHANGED <<cm, published>>,
           \A q \in Replicas \ {r} : loc'[q].todo = loc[q].todo /\ pc'[q] = pc[q] /\ chan'[q] = chan[q],
           \A k \in DOMAIN chan'[r] : chan'[r][k] \in published,
           \A k \in DOMAIN loc'[r].todo : IsListed(loc'[r].todo[k]),
           pc'[r] \in Mid => loc'[r].todo # <<>>
    PROVE  WorkInv'
  <1>1. \A e : IsListed(e) => IsListed(e)'
    BY PublishedGrows
  <1>2. \A q \in Replicas : \A k \in DOMAIN loc'[q].todo : IsListed(loc'[q].todo[k])
    BY DEF WorkInv
  <1>3. \A q \in Replicas : \A k \in DOMAIN loc'[q].todo : IsListed(loc[q].todo[k])'
    BY <1>1, <1>2 DEF IsListed, Listed
  <1>4. \A q \in Replicas : pc'[q] \in Mid => loc'[q].todo # <<>>
    BY DEF WorkInv
  <1>5. \A q \in Replicas : \A k \in DOMAIN chan'[q] : chan'[q][k] \in published'
    BY DEF WorkInv
  <1>6. QED
    BY <1>3, <1>4, <1>5 DEF WorkInv

LEMMA ApplyKeeps ==
    ASSUME TypeOK, WorkInv, NEW r \in Replicas, NEW content \in published, NEW back \in {"watch", "recv"},
           Apply(r, content, back), UNCHANGED <<cm, published>>,
           \A q \in Replicas \ {r} : chan'[q] = chan[q],
           \A k \in DOMAIN chan'[r] : chan'[r][k] \in published
    PROVE  WorkInv'
  <1>1. content \in Content
    BY DEF TypeOK
  <1>2. \A k \in DOMAIN Listed(content) : IsListed(Listed(content)[k])
    BY DEF IsListed
  <1>3. \A k \in DOMAIN loc'[r].todo : IsListed(loc'[r].todo[k])
    BY <1>1, <1>2, ApplyFacts DEF WorkInv
  <1>4. pc'[r] \in Mid => loc'[r].todo # <<>>
    BY <1>1, ApplyFacts DEF Mid
  <1>5. QED
    BY <1>1, <1>3, <1>4, ApplyFacts, WorkOfOthers

LEMMA NextEntryKeeps ==
    ASSUME TypeOK, WorkInv, NEW r \in Replicas, pc[r] \in Mid, NEW l \in [Replicas -> Locals],
           \A q \in Replicas : l[q].todo = loc[q].todo, NextEntry(r, l),
           UNCHANGED <<cm, published, chan>>
    PROVE  WorkInv'
  <1>1. l[r].todo \in Seq(SAEntry) /\ l[r].todo # <<>>
    BY HeadIsListed
  <1>2. loc'[r].todo = Tail(l[r].todo)
    BY <1>1, NextEntryFacts DEF TypeOK
  <1>3. \A k \in DOMAIN loc'[r].todo : k + 1 \in DOMAIN loc[r].todo /\ loc'[r].todo[k] = loc[r].todo[k + 1]
    BY <1>1, <1>2
  <1>4. \A k \in DOMAIN loc'[r].todo : IsListed(loc'[r].todo[k])
    BY <1>3 DEF WorkInv
  <1>5. pc'[r] \in Mid => loc'[r].todo # <<>>
    <2>1. l[r].back \in {"watch", "recv"}
      BY DEF Locals
    <2>2. QED
      BY <1>1, <1>2, <2>1, NextEntryFacts DEF TypeOK, Mid
  <1>6. \A q \in Replicas \ {r} : loc'[q].todo = loc[q].todo /\ pc'[q] = pc[q]
    <2>1. \A q \in Replicas \ {r} : loc'[q] = l[q] /\ pc'[q] = pc[q]
      BY <1>1, NextEntryFacts DEF TypeOK
    <2>2. QED
      BY <2>1
  <1>7. QED
    BY <1>4, <1>5, <1>6, WorkOfOthers DEF WorkInv
\* What syncSA remembers of an entry.
LEMMA SetSAFacts ==
    ASSUME loc \in [Replicas -> Locals], NEW r \in Replicas, NEW x \in SARow,
           loc' = [loc EXCEPT ![r].sa = x]
    PROVE  /\ loc' \in [Replicas -> Locals]
           /\ \A q \in Replicas \ {r} : loc'[q] = loc[q]
           /\ loc'[r].sa = x /\ loc'[r].todo = loc[r].todo /\ loc'[r].back = loc[r].back
           /\ loc'[r].cleared = loc[r].cleared
  BY DEF Locals

LEMMA SetClearedFacts ==
    ASSUME loc \in [Replicas -> Locals], NEW r \in Replicas, NEW rows \in SUBSET PermRow,
           loc' = [loc EXCEPT ![r].cleared = rows]
    PROVE  /\ loc' \in [Replicas -> Locals]
           /\ \A q \in Replicas \ {r} : loc'[q] = loc[q]
           /\ loc'[r].cleared = rows /\ loc'[r].todo = loc[r].todo /\ loc'[r].back = loc[r].back
           /\ loc'[r].sa = loc[r].sa
  BY DEF Locals

LEMMA GotoFacts ==
    ASSUME pc \in [Replicas -> Labels], NEW r \in Replicas, NEW label \in Labels, Goto(r, label)
    PROVE  /\ pc' \in [Replicas -> Labels]
           /\ pc'[r] = label
           /\ \A q \in Replicas \ {r} : pc'[q] = pc[q]
  BY DEF Goto

\* syncSA has found or created the row of the entry at hand before it uses it,
\* and the rows it will delete belong to that row.
RowAtHand(r) ==
    /\ pc[r] \in {"clear", "commit"} =>
         /\ loc[r].sa \in SARow
         /\ loc[r].sa.sa = Head(loc[r].todo).sa
         /\ 1 <= loc[r].sa.nth /\ loc[r].sa.nth <= sas[loc[r].sa.sa]
    /\ pc[r] # "commit" => loc[r].cleared = {}
    /\ \A p \in loc[r].cleared : p.owner = loc[r].sa

RowsExist == \A p \in perms : 1 <= p.owner.nth /\ p.owner.nth <= sas[p.owner.sa]

RowInv == (\A r \in Replicas : RowAtHand(r)) /\ RowsExist

LEMMA TypeStep == TypeOK /\ WorkInv /\ RowInv /\ [Next]_vars => TypeOK' /\ WorkInv'
<1> SUFFICES ASSUME TypeOK, WorkInv, RowInv, [Next]_vars PROVE TypeOK' /\ WorkInv'
  OBVIOUS
<1> USE DEF cluster, database
<1>1. CASE EditConfigMap
  <2>1. PICK c \in Contents : /\ cm' = [there |-> TRUE, content |-> c]
                              /\ published' = published \cup {c}
                              /\ Publish(c)
    BY <1>1 DEF EditConfigMap
  <2>2. c \in Content
    BY SyncAssumption
  <2>3. TypeOK'
    BY <1>1, <2>1, <2>2, PublishFacts DEF EditConfigMap, TypeOK, CMState
  <2>4. WorkInv'
    <3>1. \A e : IsListed(e) => IsListed(e)'
      BY <2>1, PublishedGrows
    <3>2. \A r \in Replicas : \A k \in DOMAIN loc'[r].todo : IsListed(loc[r].todo[k])'
      BY <1>1, <3>1 DEF EditConfigMap, WorkInv
    <3>3. \A r \in Replicas : \A k \in DOMAIN chan'[r] : chan'[r][k] \in published'
      BY <2>1, <2>2, PublishFacts DEF WorkInv, TypeOK
    <3>4. QED
      BY <1>1, <2>1, <3>2, <3>3 DEF EditConfigMap, WorkInv
  <2>5. QED
    BY <2>3, <2>4
<1>2. CASE DeleteConfigMap
  <2>1. cm.content \in Content /\ cm.content \in published
    BY DEF TypeOK, CMState, WorkInv
  <2>2. cm' \in CMState /\ cm'.content = cm.content
    BY <1>2 DEF DeleteConfigMap, TypeOK, CMState
  <2>3. TypeOK'
    BY <1>2, <2>1, <2>2, PublishFacts DEF DeleteConfigMap, TypeOK
  <2>4. WorkInv'
    <3>1. \A r \in Replicas : \A k \in DOMAIN chan'[r] : chan'[r][k] \in published'
      <4>1. Publish(cm.content) /\ published' = published
        BY <1>2 DEF DeleteConfigMap
      <4>2. \A r \in Replicas : \A k \in DOMAIN chan'[r] :
              chan'[r][k] = cm.content \/ (k \in DOMAIN chan[r] /\ chan'[r][k] = chan[r][k])
        BY <2>1, <4>1, PublishFacts DEF TypeOK
      <4>3. QED
        BY <2>1, <4>1, <4>2 DEF WorkInv
    <3>2. QED
      BY <1>2, <2>1, <2>2, <3>1 DEF DeleteConfigMap, WorkInv, IsListed
  <2>5. QED
    BY <2>3, <2>4
<1>3. ASSUME NEW r \in Replicas, InitialGet(r) PROVE TypeOK' /\ WorkInv'
  <2>1. cm.content \in Content /\ cm.content \in published
    BY DEF TypeOK, CMState, WorkInv
  <2>2. CASE Apply(r, cm.content, "watch")
    BY <1>3, <2>1, <2>2, ApplyFacts, ApplyKeeps DEF InitialGet, TypeOK, WorkInv
  <2>3. CASE Goto(r, "watch") /\ UNCHANGED <<loc, setting>>
    BY <1>3, <2>3 DEF InitialGet, Goto, TypeOK, Labels, WorkInv, IsListed, Mid
  <2>4. QED
    BY <1>3, <2>2, <2>3 DEF InitialGet
<1>4. ASSUME NEW r \in Replicas, Watch(r) PROVE TypeOK' /\ WorkInv'
  <2>1. cm.content \in Content
    BY DEF TypeOK, CMState
  <2>2. TypeOK'
    BY <1>4, <2>1 DEF Watch, Goto, TypeOK, Labels
  <2>3. WorkInv'
    BY <1>4 DEF Watch, Goto, TypeOK, WorkInv, IsListed, Mid
  <2>4. QED
    BY <2>2, <2>3
<1>5. ASSUME NEW r \in Replicas, Receive(r) PROVE TypeOK' /\ WorkInv'
  <2>1. chan[r] \in Seq(Content) /\ chan[r] # <<>> /\ Head(chan[r]) \in Content /\ Head(chan[r]) \in published
    BY <1>5 DEF Receive, TypeOK, WorkInv
  <2>2. /\ chan' \in [Replicas -> Seq(Content)]
        /\ \A q \in Replicas \ {r} : chan'[q] = chan[q]
        /\ \A k \in DOMAIN chan'[r] : chan'[r][k] \in published
    BY <1>5, <2>1 DEF Receive, TypeOK, WorkInv
  <2>3. Apply(r, Head(chan[r]), "recv") /\ UNCHANGED <<cm, published>>
    BY <1>5 DEF Receive
  <2>4. WorkInv'
    BY <2>1, <2>2, <2>3, ApplyKeeps
  <2>5. TypeOK'
    BY <1>5, <2>1, <2>2, <2>3, ApplyFacts DEF Receive, TypeOK
  <2>6. QED
    BY <2>4, <2>5
<1>6. ASSUME NEW r \in Replicas, CloseWatch(r) PROVE TypeOK' /\ WorkInv'
  BY <1>6 DEF CloseWatch, Goto, TypeOK, Labels, WorkInv, IsListed, Mid
<1>7. ASSUME NEW r \in Replicas, GetSA(r) PROVE TypeOK' /\ WorkInv'
  <2>1. pc[r] \in Mid /\ Head(loc[r].todo).sa \in SAs
    BY <1>7, HeadIsListed DEF GetSA, Mid, SAEntry
  <2>2. pc' \in [Replicas -> Labels] /\ pc'[r] \in Mid /\ (\A q \in Replicas \ {r} : pc'[q] = pc[q])
    BY <1>7, GotoFacts DEF GetSA, TypeOK, Labels, Mid
  <2>3. /\ loc' \in [Replicas -> Locals]
        /\ loc'[r].todo = loc[r].todo
        /\ \A q \in Replicas \ {r} : loc'[q] = loc[q]
    BY <1>7, <2>1, FirstType, SetSAFacts DEF GetSA, TypeOK
  <2>4. WorkInv'
    BY <1>7, <2>1, <2>2, <2>3, WorkOfOthers DEF GetSA, WorkInv
  <2>5. QED
    BY <1>7, <2>2, <2>3, <2>4 DEF GetSA, TypeOK
<1>8. ASSUME NEW r \in Replicas, CreateSA(r) PROVE TypeOK' /\ WorkInv'
  <2> DEFINE s == Head(loc[r].todo).sa
  <2>1. pc[r] \in Mid /\ s \in SAs
    BY <1>8, HeadIsListed DEF CreateSA, Mid, SAEntry
  <2>2. pc' \in [Replicas -> Labels] /\ pc'[r] \in Mid /\ (\A q \in Replicas \ {r} : pc'[q] = pc[q])
    BY <1>8, GotoFacts DEF CreateSA, TypeOK, Labels, Mid
  <2>3. [sa |-> s, nth |-> sas[s] + 1] \in SARow /\ sas' \in [SAs -> Nat]
    BY <1>8, <2>1 DEF CreateSA, TypeOK, SARow
  <2>4. /\ loc' \in [Replicas -> Locals]
        /\ loc'[r].todo = loc[r].todo
        /\ \A q \in Replicas \ {r} : loc'[q] = loc[q]
    BY <1>8, <2>3, SetSAFacts DEF CreateSA, TypeOK
  <2>5. WorkInv'
    BY <1>8, <2>1, <2>2, <2>4, WorkOfOthers DEF CreateSA, WorkInv
  <2>6. QED
    BY <1>8, <2>2, <2>3, <2>4, <2>5 DEF CreateSA, TypeOK
<1>9. ASSUME NEW r \in Replicas, ClearPermissions(r) PROVE TypeOK' /\ WorkInv'
  <2>1. pc' \in [Replicas -> Labels] /\ pc'[r] \in Mid /\ (\A q \in Replicas \ {r} : pc'[q] = pc[q])
    BY <1>9, GotoFacts DEF ClearPermissions, TypeOK, Labels, Mid
  <2>2. /\ loc' \in [Replicas -> Locals]
        /\ loc'[r].todo = loc[r].todo
        /\ \A q \in Replicas \ {r} : loc'[q] = loc[q]
    <3>1. {p \in perms : p.owner = loc[r].sa} \in SUBSET PermRow
      BY DEF TypeOK
    <3>2. QED
      BY <1>9, <3>1, SetClearedFacts DEF ClearPermissions, TypeOK
  <2>3. pc[r] \in Mid
    BY <1>9 DEF ClearPermissions, Mid
  <2>4. WorkInv'
    BY <1>9, <2>1, <2>2, <2>3, WorkOfOthers DEF ClearPermissions, WorkInv
  <2>5. QED
    BY <1>9, <2>1, <2>2, <2>4 DEF ClearPermissions, TypeOK
<1>10. ASSUME NEW r \in Replicas, ReplacePermissions(r) PROVE TypeOK' /\ WorkInv'
  <2> DEFINE rows == Rows(loc[r].sa, EntryPerms(loc[r].todo), "sync")
  <2>1. pc[r] \in Mid /\ loc[r].sa \in SARow
    BY <1>10 DEF ReplacePermissions, Mid, RowInv, RowAtHand
  <2>2. rows \subseteq PermRow
    <3>1. EntryPerms(loc[r].todo) \subseteq Granted
      BY <2>1, HeadIsListed, ParsedIsGrantable DEF EntryPerms
    <3>2. QED
      BY <2>1, <3>1, RowsType
  <2>3. perms' = (perms \ loc[r].cleared) \cup rows /\ NextEntry(r, Spare(rows))
    BY <1>10 DEF ReplacePermissions
  <2> HIDE DEF rows
  <2>4. perms' \subseteq PermRow
    BY <2>2, <2>3 DEF TypeOK
  <2>5. Spare(rows) \in [Replicas -> Locals] /\ (\A q \in Replicas : Spare(rows)[q].todo = loc[q].todo)
    BY SpareFacts DEF TypeOK
  <2>6. UNCHANGED <<cm, published, chan>>
    BY <1>10 DEF ReplacePermissions
  <2>7. WorkInv'
    BY <2>1, <2>3, <2>5, <2>6, NextEntryKeeps
  <2>8. loc' \in [Replicas -> Locals] /\ pc' \in [Replicas -> Labels]
    BY <2>1, <2>3, <2>5, HeadIsListed, NextEntryFacts DEF TypeOK
  <2>9. QED
    BY <1>10, <2>4, <2>7, <2>8 DEF ReplacePermissions, TypeOK
<1>11. ASSUME NEW r \in Replicas, EntryFails(r) PROVE TypeOK' /\ WorkInv'
  <2>1. pc[r] \in Mid
    BY <1>11 DEF EntryFails, Mid
  <2>2. WorkInv'
    BY <1>11, <2>1, NextEntryKeeps DEF EntryFails, TypeOK
  <2>3. loc' \in [Replicas -> Locals] /\ pc' \in [Replicas -> Labels]
    BY <1>11, <2>1, HeadIsListed, NextEntryFacts DEF EntryFails, TypeOK
  <2>4. QED
    BY <1>11, <2>2, <2>3 DEF EntryFails, TypeOK
<1>12. ASSUME NEW r \in Replicas, GetFails(r) PROVE TypeOK' /\ WorkInv'
  BY <1>12 DEF GetFails, Goto, TypeOK, Labels, WorkInv, IsListed, Mid
<1>13. ASSUME NEW r \in Replicas, Crash(r) PROVE TypeOK' /\ WorkInv'
  <2>1. NoWork \in Locals /\ NoWork.todo = <<>>
    BY DEF NoWork, Locals
  <2>2. TypeOK'
    BY <1>13, <2>1 DEF Crash, Goto, TypeOK, Labels
  <2>3. loc'[r].todo = <<>> /\ chan'[r] = <<>> /\ pc'[r] = "get"
    BY <1>13, <2>1 DEF Crash, Goto, TypeOK
  <2>4. \A q \in Replicas \ {r} : loc'[q].todo = loc[q].todo /\ pc'[q] = pc[q] /\ chan'[q] = chan[q]
    BY <1>13 DEF Crash, Goto, TypeOK
  <2>5. WorkInv'
    BY <1>13, <2>3, <2>4, WorkOfOthers DEF Crash, Mid
  <2>6. QED
    BY <2>2, <2>5
<1>14. ASSUME NEW c \in Callers, CallerFind(c) PROVE TypeOK' /\ WorkInv'
  BY <1>14 DEF CallerFind, TypeOK, WorkInv, IsListed
<1>15. ASSUME NEW c \in Callers, CallerCreate(c) PROVE TypeOK' /\ WorkInv'
  <2>1. Presents[c] \in SAs
    BY SyncAssumption
  <2>2. sas' \in [SAs -> Nat] /\ caller' \in [Callers -> {"new", "create", "done"}]
    BY <1>15, <2>1 DEF CallerCreate, TypeOK
  <2>3. TypeOK'
    BY <1>15, <2>2 DEF CallerCreate, TypeOK
  <2>4. WorkInv'
    BY <1>15 DEF CallerCreate, WorkInv, IsListed
  <2>5. QED
    BY <2>3, <2>4
<1>16. ASSUME NEW s \in SAs, NEW g \in AdminPerms, AdminGrant(s, g) PROVE TypeOK' /\ WorkInv'
  <2>1. PICK x \in First(s) : /\ perms' = perms \cup Rows(x, {g}, "admin")
                              /\ loc' = Spare(Rows(x, {g}, "admin"))
    BY <1>16 DEF AdminGrant
  <2>2. perms' \subseteq PermRow
    BY <2>1, FirstType, RowsType, SyncAssumption DEF TypeOK
  <2>3. loc' \in [Replicas -> Locals] /\ (\A q \in Replicas : loc'[q].todo = loc[q].todo)
    BY <2>1, SpareFacts DEF TypeOK
  <2>4. UNCHANGED <<cluster, sas, setting, pc, chan, caller, faults>> /\ admin' = admin + 1
    BY <1>16, Zenon DEF AdminGrant
  <2>5. TypeOK'
    BY <2>2, <2>3, <2>4 DEF TypeOK
  <2>6. \A r \in Replicas : \A k \in DOMAIN loc'[r].todo : IsListed(loc[r].todo[k])'
    BY <2>3, <2>4 DEF WorkInv, IsListed
  <2>7. WorkInv'
    BY <2>3, <2>4, <2>6 DEF WorkInv
  <2>8. QED
    BY <2>5, <2>7
<1>17. ASSUME NEW s \in SAs, NEW g \in AdminPerms, AdminRevoke(s, g) PROVE TypeOK' /\ WorkInv'
  <2>1. UNCHANGED <<cluster, sas, setting, pc, chan, loc, caller, faults>> /\ perms' \subseteq perms /\ admin' = admin + 1
    BY <1>17 DEF AdminRevoke
  <2>2. TypeOK' /\ WorkInv'
    BY <2>1 DEF TypeOK, WorkInv, IsListed
  <2>3. QED
    BY <2>2
<1>18. CASE UNCHANGED vars
  BY <1>18 DEF vars, TypeOK, WorkInv, IsListed
<1>19. QED
  BY <1>1, <1>2, <1>3, <1>4, <1>5, <1>6, <1>7, <1>8, <1>9, <1>10, <1>11, <1>12, <1>13,
     <1>14, <1>15, <1>16, <1>17, <1>18 DEF Next, LoopStep
-----------------------------------------------------------------------------
(* The rows of service_accounts that the sync refers to. *)

\* Rows of service_accounts are never deleted.
LEMMA AccountsGrow ==
    ASSUME TypeOK, [Next]_vars
    PROVE  \A s \in SAs : sas[s] <= sas'[s]
<1> USE DEF cluster, database
<1>1. ASSUME NEW s \in SAs, sas' = [sas EXCEPT ![s] = @ + 1] PROVE \A x \in SAs : sas[x] <= sas'[x]
  BY <1>1 DEF TypeOK
<1>2. ASSUME NEW s, s \notin SAs, sas' = [sas EXCEPT ![s] = @ + 1] PROVE \A x \in SAs : sas[x] <= sas'[x]
  BY <1>2 DEF TypeOK
<1>3. CASE sas' = sas
  BY <1>3 DEF TypeOK
<1>4. ASSUME NEW r \in Replicas, CreateSA(r) PROVE \A s \in SAs : sas[s] <= sas'[s]
  BY <1>1, <1>2, <1>4 DEF CreateSA
<1>5. ASSUME NEW c \in Callers, CallerCreate(c) PROVE \A s \in SAs : sas[s] <= sas'[s]
  BY <1>1, <1>2, <1>5 DEF CallerCreate
<1>6. sas' = sas \/ (\E r \in Replicas : CreateSA(r)) \/ (\E c \in Callers : CallerCreate(c))
  <2>1. ASSUME NEW r \in Replicas, LoopStep(r) \/ Receive(r) \/ CloseWatch(r) \/ EntryFails(r) \/ GetFails(r) \/ Crash(r)
        PROVE  sas' = sas \/ CreateSA(r)
    BY <2>1 DEF LoopStep, InitialGet, Watch, GetSA, ClearPermissions, ReplacePermissions, Receive,
                CloseWatch, EntryFails, GetFails, Crash
  <2>2. ASSUME NEW s \in SAs, NEW g \in AdminPerms, AdminGrant(s, g) \/ AdminRevoke(s, g) PROVE sas' = sas
    BY <2>2 DEF AdminGrant, AdminRevoke
  <2>3. ASSUME NEW c \in Callers, CallerFind(c) PROVE sas' = sas
    BY <2>3 DEF CallerFind
  <2>4. CASE EditConfigMap \/ DeleteConfigMap \/ UNCHANGED vars
    BY <2>4 DEF EditConfigMap, DeleteConfigMap, vars
  <2>5. QED
    BY <2>1, <2>2, <2>3, <2>4 DEF Next
<1>7. QED
  BY <1>3, <1>4, <1>5, <1>6

\* A replica that does not move keeps the row it has at hand.
LEMMA RowKept ==
    ASSUME TypeOK, NEW q \in Replicas, RowAtHand(q), pc'[q] = pc[q],
           loc'[q].todo = loc[q].todo, loc'[q].sa = loc[q].sa, loc'[q].cleared \subseteq loc[q].cleared,
           \A s \in SAs : sas[s] <= sas'[s], sas' \in [SAs -> Nat]
    PROVE  RowAtHand(q)'
  <1>1. /\ loc'[q].cleared \subseteq loc[q].cleared
        /\ pc'[q] # "commit" => loc'[q].cleared = {}
        /\ \A p \in loc'[q].cleared : p.owner = loc'[q].sa
    BY DEF RowAtHand
  <1>2. ASSUME pc[q] \in {"clear", "commit"}
        PROVE  /\ loc'[q].sa \in SARow
               /\ loc'[q].sa.sa = Head(loc'[q].todo).sa
               /\ 1 <= loc'[q].sa.nth /\ loc'[q].sa.nth <= sas'[loc'[q].sa.sa]
    <2>1. loc[q].sa \in SARow /\ 1 <= loc[q].sa.nth /\ loc[q].sa.nth <= sas[loc[q].sa.sa]
      BY <1>2 DEF RowAtHand
    <2>2. loc[q].sa.sa \in SAs /\ loc[q].sa.nth \in Nat
      BY <2>1 DEF SARow
    <2>3. loc[q].sa.nth <= sas'[loc[q].sa.sa]
      BY <2>1, <2>2 DEF TypeOK
    <2>4. QED
      BY <1>2, <2>1, <2>3 DEF RowAtHand
  <1>3. QED
    BY <1>1, <1>2 DEF RowAtHand

LEMMA RowsExistKept ==
    ASSUME TypeOK, RowsExist, sas' \in [SAs -> Nat], \A s \in SAs : sas[s] <= sas'[s], perms' \subseteq perms
    PROVE  RowsExist'
  <1>1. \A p \in perms : p.owner.nth \in Nat /\ p.owner.sa \in SAs
    BY DEF TypeOK, PermRow, SARow
  <1>2. QED
    BY <1>1 DEF RowsExist, TypeOK

LEMMA NewRowsExist ==
    ASSUME NEW owner, 1 <= owner.nth, owner.nth <= sas[owner.sa], NEW granted, NEW by,
           NEW p \in Rows(owner, granted, by)
    PROVE  1 <= p.owner.nth /\ p.owner.nth <= sas[p.owner.sa]
  BY DEF Rows

LEMMA RowInit == Init => RowInv
  BY DEF Init, RowInv, RowAtHand, RowsExist, NoWork

LEMMA RowStep == TypeOK /\ WorkInv /\ RowInv /\ [Next]_vars => RowInv'
<1> SUFFICES ASSUME TypeOK, WorkInv, RowInv, [Next]_vars PROVE RowInv'
  OBVIOUS
<1> USE DEF cluster, database
<1>0. TypeOK' /\ sas' \in [SAs -> Nat] /\ (\A s \in SAs : sas[s] <= sas'[s])
  BY TypeStep, AccountsGrow DEF TypeOK
<1>1. ASSUME UNCHANGED pc, UNCHANGED loc, perms' \subseteq perms PROVE RowInv'
  BY <1>0, <1>1, RowKept, RowsExistKept DEF RowInv
<1>2. ASSUME NEW r \in Replicas, RowAtHand(r)',
             \A q \in Replicas \ {r} : loc'[q] = loc[q] /\ pc'[q] = pc[q], perms' = perms
      PROVE  RowInv'
  BY <1>0, <1>2, RowKept, RowsExistKept DEF RowInv
<1>3. CASE EditConfigMap \/ DeleteConfigMap
  BY <1>1, <1>3 DEF EditConfigMap, DeleteConfigMap
<1>4. ASSUME NEW r \in Replicas, NEW content \in Content, NEW back \in {"watch", "recv"},
             pc[r] \in {"get", "recv"}, Apply(r, content, back), perms' = perms
      PROVE  RowInv'
  <2>1. loc[r].cleared = {}
    BY <1>4 DEF RowInv, RowAtHand
  <2>2. loc'[r].cleared = {} /\ pc'[r] \notin {"clear", "commit"}
    BY <1>4, <2>1, ApplyFacts
  <2>3. RowAtHand(r)'
    BY <2>2 DEF RowAtHand
  <2>4. QED
    BY <1>2, <1>4, <2>3, ApplyFacts
<1>5. ASSUME NEW r \in Replicas, NEW label \in {"get", "watch", "recv"}, Goto(r, label),
             loc'[r].cleared = {}, \A q \in Replicas \ {r} : loc'[q] = loc[q], perms' = perms
      PROVE  RowInv'
  <2>1. pc'[r] = label /\ (\A q \in Replicas \ {r} : pc'[q] = pc[q])
    BY <1>5 DEF TypeOK, Goto
  <2>2. RowAtHand(r)'
    BY <1>5, <2>1 DEF RowAtHand
  <2>3. QED
    BY <1>2, <1>5, <2>1, <2>2
<1>6. ASSUME NEW r \in Replicas, InitialGet(r) PROVE RowInv'
  <2>1. cm.content \in Content
    BY DEF TypeOK, CMState
  <2>2. CASE Apply(r, cm.content, "watch")
    BY <1>4, <1>6, <2>1, <2>2 DEF InitialGet
  <2>3. CASE Goto(r, "watch") /\ UNCHANGED loc
    BY <1>5, <1>6, <2>3 DEF InitialGet, RowInv, RowAtHand
  <2>4. QED
    BY <1>6, <2>2, <2>3 DEF InitialGet
<1>7. ASSUME NEW r \in Replicas, Watch(r) \/ CloseWatch(r) \/ GetFails(r) PROVE RowInv'
  <2>1. loc[r].cleared = {}
    BY <1>7 DEF Watch, CloseWatch, GetFails, RowInv, RowAtHand
  <2>2. QED
    BY <1>5, <1>7, <2>1 DEF Watch, CloseWatch, GetFails
<1>8. ASSUME NEW r \in Replicas, Receive(r) PROVE RowInv'
  <2>1. Head(chan[r]) \in Content
    BY <1>8 DEF TypeOK, Receive
  <2>2. QED
    BY <1>4, <1>8, <2>1 DEF Receive
<1>9. ASSUME NEW r \in Replicas, GetSA(r) PROVE RowInv'
  <2> DEFINE s == Head(loc[r].todo).sa
  <2>1. s \in SAs /\ loc[r].cleared = {}
    BY <1>9, HeadIsListed DEF GetSA, Mid, SAEntry, RowInv, RowAtHand
  <2>2. ASSUME NEW x \in First(s), loc' = [loc EXCEPT ![r].sa = x], Goto(r, "clear") PROVE RowInv'
    <3>1. x \in SARow /\ x = [sa |-> s, nth |-> 1] /\ sas[s] > 0
      BY <2>1, FirstType
    <3>2. pc'[r] = "clear" /\ (\A q \in Replicas \ {r} : pc'[q] = pc[q])
      BY <2>2 DEF Goto, TypeOK
    <3>3. /\ loc'[r].sa = x /\ loc'[r].todo = loc[r].todo /\ loc'[r].cleared = {}
          /\ \A q \in Replicas \ {r} : loc'[q] = loc[q]
      BY <2>1, <2>2, <3>1, SetSAFacts DEF TypeOK
    <3>4. sas' = sas /\ perms' = perms /\ sas[s] \in Nat
      BY <1>9, <2>1 DEF GetSA, TypeOK
    <3>5. RowAtHand(r)'
      BY <3>1, <3>2, <3>3, <3>4 DEF RowAtHand
    <3>6. QED
      BY <1>2, <3>2, <3>3, <3>4, <3>5
  <2>3. CASE Goto(r, "create") /\ UNCHANGED loc
    <3>1. pc'[r] = "create" /\ (\A q \in Replicas \ {r} : pc'[q] = pc[q])
      BY <2>3 DEF Goto, TypeOK
    <3>2. RowAtHand(r)'
      BY <2>1, <2>3, <3>1 DEF RowAtHand
    <3>3. QED
      BY <1>2, <1>9, <2>3, <3>1, <3>2 DEF GetSA
  <2>4. QED
    BY <1>9, <2>2, <2>3 DEF GetSA
<1>10. ASSUME NEW r \in Replicas, CreateSA(r) PROVE RowInv'
  <2> DEFINE s == Head(loc[r].todo).sa
             x == [sa |-> s, nth |-> sas[s] + 1]
  <2>1. s \in SAs /\ loc[r].cleared = {}
    BY <1>10, HeadIsListed DEF CreateSA, Mid, SAEntry, RowInv, RowAtHand
  <2>2. x \in SARow /\ sas'[s] = sas[s] + 1 /\ sas[s] \in Nat
    BY <1>10, <2>1 DEF CreateSA, TypeOK, SARow
  <2>3. pc'[r] = "clear" /\ (\A q \in Replicas \ {r} : pc'[q] = pc[q])
    BY <1>10 DEF CreateSA, Goto, TypeOK
  <2>4. /\ loc'[r].sa = x /\ loc'[r].todo = loc[r].todo /\ loc'[r].cleared = {}
        /\ \A q \in Replicas \ {r} : loc'[q] = loc[q]
    BY <1>10, <2>1, <2>2, SetSAFacts DEF CreateSA, TypeOK
  <2>5. RowAtHand(r)'
    BY <2>2, <2>3, <2>4 DEF RowAtHand
  <2>6. QED
    BY <1>2, <1>10, <2>3, <2>4, <2>5 DEF CreateSA
<1>11. ASSUME NEW r \in Replicas, ClearPermissions(r) PROVE RowInv'
  <2>1. pc'[r] = "commit" /\ (\A q \in Replicas \ {r} : pc'[q] = pc[q])
    BY <1>11 DEF ClearPermissions, Goto, TypeOK
  <2>2. /\ loc'[r].sa = loc[r].sa /\ loc'[r].todo = loc[r].todo
        /\ loc'[r].cleared = {p \in perms : p.owner = loc[r].sa}
        /\ \A q \in Replicas \ {r} : loc'[q] = loc[q]
    <3>1. {p \in perms : p.owner = loc[r].sa} \in SUBSET PermRow
      BY DEF TypeOK
    <3>2. QED
      BY <1>11, <3>1, SetClearedFacts DEF ClearPermissions, TypeOK
  <2>3. sas' = sas /\ perms' = perms
    BY <1>11 DEF ClearPermissions
  <2>4. RowAtHand(r)'
    BY <1>11, <2>1, <2>2, <2>3 DEF ClearPermissions, RowInv, RowAtHand
  <2>5. QED
    BY <1>2, <2>1, <2>2, <2>3, <2>4
<1>12. ASSUME NEW r \in Replicas, pc[r] \in Mid, NEW l \in [Replicas -> Locals],
              \A q \in Replicas : l[q].todo = loc[q].todo /\ l[q].sa = loc[q].sa /\ l[q].cleared \subseteq loc[q].cleared,
              NextEntry(r, l)
       PROVE  \A q \in Replicas : RowAtHand(q)'
  <2>1. l[r].todo # <<>> /\ l[r].back \in {"watch", "recv"}
    BY <1>12, HeadIsListed DEF Locals
  <2>2. /\ loc'[r].cleared = {}
        /\ pc'[r] \notin {"clear", "commit"}
        /\ \A q \in Replicas \ {r} : loc'[q] = l[q] /\ pc'[q] = pc[q]
    BY <1>12, <2>1, NextEntryFacts DEF TypeOK
  <2>3. RowAtHand(r)'
    BY <2>2 DEF RowAtHand
  <2>4. ASSUME NEW q \in Replicas \ {r} PROVE RowAtHand(q)'
    BY <1>0, <1>12, <2>2, RowKept DEF RowInv
  <2>5. QED
    BY <2>3, <2>4
<1>13. ASSUME NEW r \in Replicas, ReplacePermissions(r) PROVE RowInv'
  <2> DEFINE rows == Rows(loc[r].sa, EntryPerms(loc[r].todo), "sync")
  <2>1. pc[r] \in Mid /\ 1 <= loc[r].sa.nth /\ loc[r].sa.nth <= sas[loc[r].sa.sa]
    BY <1>13 DEF ReplacePermissions, Mid, RowInv, RowAtHand
  <2>2. perms' = (perms \ loc[r].cleared) \cup rows /\ NextEntry(r, Spare(rows)) /\ sas' = sas
    BY <1>13 DEF ReplacePermissions
  <2>3. \A p \in rows : 1 <= p.owner.nth /\ p.owner.nth <= sas[p.owner.sa]
    BY <2>1, NewRowsExist
  <2> HIDE DEF rows
  <2>4. RowsExist'
    BY <2>2, <2>3 DEF RowsExist, RowInv
  <2>5. \A q \in Replicas : RowAtHand(q)'
    <3>1. /\ Spare(rows) \in [Replicas -> Locals]
          /\ \A q \in Replicas : /\ Spare(rows)[q].todo = loc[q].todo
                                 /\ Spare(rows)[q].sa = loc[q].sa
                                 /\ Spare(rows)[q].cleared \subseteq loc[q].cleared
      BY SpareFacts DEF TypeOK
    <3>2. QED
      BY <1>12, <2>1, <2>2, <3>1, Zenon
  <2>6. QED
    BY <2>4, <2>5 DEF RowInv
<1>14. ASSUME NEW r \in Replicas, EntryFails(r) PROVE RowInv'
  <2>1. \A q \in Replicas : RowAtHand(q)'
    BY <1>12, <1>14 DEF EntryFails, Mid, TypeOK
  <2>2. RowsExist'
    BY <1>0, <1>14, RowsExistKept DEF EntryFails, RowInv
  <2>3. QED
    BY <2>1, <2>2 DEF RowInv
<1>15. ASSUME NEW r \in Replicas, Crash(r) PROVE RowInv'
  <2>1. loc'[r].cleared = {} /\ (\A q \in Replicas \ {r} : loc'[q] = loc[q])
    BY <1>15 DEF Crash, TypeOK, NoWork
  <2>2. QED
    BY <1>5, <1>15, <2>1 DEF Crash
<1>16. ASSUME NEW c \in Callers, CallerFind(c) \/ CallerCreate(c) PROVE RowInv'
  BY <1>1, <1>16 DEF CallerFind, CallerCreate
<1>17. ASSUME NEW s \in SAs, NEW g \in AdminPerms, AdminGrant(s, g) PROVE RowInv'
  <2>1. PICK x \in First(s) : /\ perms' = perms \cup Rows(x, {g}, "admin")
                              /\ loc' = Spare(Rows(x, {g}, "admin"))
    BY <1>17 DEF AdminGrant
  <2>2. UNCHANGED <<sas, pc>>
    BY <1>17, Zenon DEF AdminGrant
  <2>3. x = [sa |-> s, nth |-> 1] /\ sas[s] > 0 /\ sas[s] \in Nat
    BY FirstType DEF TypeOK
  <2>4. \A p \in Rows(x, {g}, "admin") : 1 <= p.owner.nth /\ p.owner.nth <= sas[p.owner.sa]
    BY <2>3, NewRowsExist
  <2>5. RowsExist'
    BY <2>1, <2>2, <2>4 DEF RowsExist, RowInv
  <2>6. \A q \in Replicas : RowAtHand(q)'
    <3>1. \A q \in Replicas : /\ loc'[q].todo = loc[q].todo
                              /\ loc'[q].sa = loc[q].sa
                              /\ loc'[q].cleared \subseteq loc[q].cleared
      BY <2>1, SpareFacts DEF TypeOK
    <3>2. QED
      BY <1>0, <2>2, <3>1, RowKept DEF RowInv
  <2>7. QED
    BY <2>5, <2>6 DEF RowInv
<1>18. ASSUME NEW s \in SAs, NEW g \in AdminPerms, AdminRevoke(s, g) PROVE RowInv'
  <2>1. UNCHANGED <<pc, loc>> /\ perms' \subseteq perms
    BY <1>18 DEF AdminRevoke
  <2>2. QED
    BY <1>1, <2>1
<1>19. CASE UNCHANGED vars
  BY <1>1, <1>19 DEF vars
<1>20. QED
  BY <1>3, <1>6, <1>7, <1>8, <1>9, <1>10, <1>11, <1>13, <1>14, <1>15, <1>16, <1>17, <1>18,
     <1>19 DEF Next, LoopStep
Inv == TypeOK /\ WorkInv /\ RowInv

LEMMA InvInit == Init => Inv
  BY TypeInit, RowInit DEF Inv

LEMMA InvStep == Inv /\ [Next]_vars => Inv'
  BY TypeStep, RowStep DEF Inv

\* The loops, the cluster, requests and administrators keep every variable in its
\* type: what syncSA parses from any ConfigMap is a permission.
THEOREM SASyncTypeCorrect == Spec => []TypeOK
<1>1. Inv => TypeOK
  BY DEF Inv
<1>2. QED
  BY <1>1, InvInit, InvStep, PTL DEF Spec

\* syncSA refers to a row of service_accounts that exists, and every permission
\* belongs to one, although a row may be created more than once.
THEOREM RowsBelongToAccounts == Spec => []RowInv
<1>1. Inv => RowInv
  BY DEF Inv
<1>2. QED
  BY <1>1, InvInit, InvStep, PTL DEF Spec

-----------------------------------------------------------------------------
(* Rows that the sync has written. *)

\* The rows that ReplaceSAPermissions creates.
NewRows(r) == Rows(loc[r].sa, EntryPerms(loc[r].todo), "sync")

\* A row appears by a commit of the sync or by a grant.
LEMMA NewRowStep ==
    ASSUME Inv, [Next]_vars, NEW p \in perms', p \notin perms
    PROVE  p.by = "admin" \/ (\E r \in Replicas : ReplacePermissions(r) /\ p \in NewRows(r))
<1> USE DEF cluster, database
<1>1. ASSUME NEW r \in Replicas, ReplacePermissions(r) PROVE p \in NewRows(r)
  BY <1>1 DEF ReplacePermissions, NewRows
<1>2. ASSUME NEW s \in SAs, NEW g \in AdminPerms, AdminGrant(s, g) PROVE p.by = "admin"
  BY <1>2 DEF AdminGrant, Rows
<1>3. ASSUME NEW s \in SAs, NEW g \in AdminPerms, AdminRevoke(s, g) PROVE FALSE
  BY <1>3 DEF AdminRevoke
<1>4. ASSUME NEW r \in Replicas, LoopStep(r) \/ Receive(r) \/ CloseWatch(r) \/ EntryFails(r) \/ GetFails(r) \/ Crash(r)
      PROVE  ReplacePermissions(r)
  BY <1>4 DEF LoopStep, InitialGet, Watch, GetSA, CreateSA, ClearPermissions, Receive,
              CloseWatch, EntryFails, GetFails, Crash
<1>5. ASSUME NEW c \in Callers, CallerFind(c) \/ CallerCreate(c) PROVE FALSE
  BY <1>5 DEF CallerFind, CallerCreate
<1>6. ~(EditConfigMap \/ DeleteConfigMap \/ UNCHANGED vars)
  BY DEF EditConfigMap, DeleteConfigMap, vars
<1>7. QED
  BY <1>1, <1>2, <1>3, <1>4, <1>5, <1>6 DEF Next

LEMMA PublishedStep == [Next]_vars => published \subseteq published'
<1> SUFFICES ASSUME [Next]_vars PROVE published \subseteq published'
  OBVIOUS
<1> USE DEF cluster, database
<1>1. CASE EditConfigMap
  BY <1>1 DEF EditConfigMap
<1>2. ASSUME NEW r \in Replicas, LoopStep(r) \/ Receive(r) \/ CloseWatch(r) \/ EntryFails(r) \/ GetFails(r) \/ Crash(r)
      PROVE  published' = published
  BY <1>2 DEF LoopStep, InitialGet, Watch, GetSA, CreateSA, ClearPermissions, ReplacePermissions, Receive,
              CloseWatch, EntryFails, GetFails, Crash
<1>3. ASSUME NEW s \in SAs, NEW g \in AdminPerms, AdminGrant(s, g) \/ AdminRevoke(s, g) PROVE published' = published
  BY <1>3 DEF AdminGrant, AdminRevoke
<1>4. ASSUME NEW c \in Callers, CallerFind(c) \/ CallerCreate(c) PROVE published' = published
  BY <1>4 DEF CallerFind, CallerCreate
<1>5. CASE DeleteConfigMap \/ UNCHANGED vars
  BY <1>5 DEF DeleteConfigMap, vars
<1>6. QED
  BY <1>1, <1>2, <1>3, <1>4, <1>5 DEF Next

\* A revision lists the permission of a row for the account of its owner.
Sourced(p) ==
    \E c \in published : \E k \in DOMAIN Listed(c) :
        Listed(c)[k].sa = p.owner.sa /\ p.perm \in ParsePermissions[Listed(c)[k]]

LEMMA SourcedKept ==
    ASSUME published \subseteq published', NEW p, Sourced(p)
    PROVE  \E c \in published' : \E k \in DOMAIN Listed(c) :
             Listed(c)[k].sa = p.owner.sa /\ p.perm \in ParsePermissions[Listed(c)[k]]
  BY DEF Sourced

LEMMA NewRowIsListed ==
    ASSUME Inv, NEW r \in Replicas, pc[r] = "commit", NEW p \in NewRows(r)
    PROVE  p.perm.pat.ns \notin {Star, Reserved} /\ Sourced(p)
  <1> DEFINE e == Head(loc[r].todo)
  <1>1. pc[r] \in Mid
    BY DEF Mid
  <1>2. IsListed(e) /\ e \in ListedEntries
    BY <1>1, HeadIsListed DEF Inv
  <1>3. p.owner = loc[r].sa /\ p.perm \in ParsePermissions[e]
    BY DEF NewRows, Rows, EntryPerms
  <1>4. p.owner.sa = e.sa
    BY <1>3 DEF Inv, RowInv, RowAtHand
  <1>5. p.perm.pat.ns \notin {Star, Reserved}
    BY <1>2, <1>3, ParsedIsGrantable
  <1>6. Sourced(p)
    BY <1>2, <1>3, <1>4 DEF IsListed, Sourced
  <1>7. QED
    BY <1>5, <1>6

LEMMA SyncedStep == Inv /\ SyncedRowsAreListed /\ [Next]_vars => SyncedRowsAreListed'
<1> SUFFICES ASSUME Inv, SyncedRowsAreListed, [Next]_vars, NEW p \in perms', p.by = "sync"
             PROVE  /\ p.perm.pat.ns \notin {Star, Reserved}
                    /\ \E c \in published' : \E k \in DOMAIN Listed(c) :
                         Listed(c)[k].sa = p.owner.sa /\ p.perm \in ParsePermissions[Listed(c)[k]]
  BY DEF SyncedRowsAreListed
<1>1. p.perm.pat.ns \notin {Star, Reserved} /\ Sourced(p)
  <2>1. CASE p \in perms
    BY <2>1 DEF SyncedRowsAreListed, Sourced
  <2>2. CASE p \notin perms
    <3>1. PICK r \in Replicas : ReplacePermissions(r) /\ p \in NewRows(r)
      BY <2>2, NewRowStep
    <3>2. QED
      BY <3>1, NewRowIsListed DEF ReplacePermissions
  <2>3. QED
    BY <2>1, <2>2
<1>2. QED
  BY <1>1, SourcedKept, PublishedStep

\* syncSA: a row that the sync wrote gives an account what some revision of the
\* ConfigMap lists for that very account, and never a wildcard or reserved
\* namespace, in any interleaving of replicas, failures and crashes.
THEOREM SyncWritesWhatIsListed == Spec => []SyncedRowsAreListed
<1>1. Init => SyncedRowsAreListed
  BY DEF Init, SyncedRowsAreListed
<1>2. QED
  BY <1>1, InvInit, InvStep, SyncedStep, PTL DEF Spec
-----------------------------------------------------------------------------
(* A permission that is always listed. *)

\* A revision lists an account once.
LEMMA ListedOnce ==
    ASSUME NEW c \in Contents, NEW i \in DOMAIN Listed(c), NEW j \in DOMAIN Listed(c),
           Listed(c)[i].sa = Listed(c)[j].sa
    PROVE  i = j
  BY SyncAssumption DEF Listed

\* A row disappears by a revocation, or by a commit of the sync that has seen it.
LEMMA LostRowStep ==
    ASSUME Inv, [Next]_vars, NEW p \in perms, p \notin perms', admin' = admin
    PROVE  \E r \in Replicas : ReplacePermissions(r) /\ p \in loc[r].cleared
<1> USE DEF cluster, database
<1>1. ASSUME NEW r \in Replicas, ReplacePermissions(r) PROVE p \in loc[r].cleared
  BY <1>1 DEF ReplacePermissions
<1>2. ASSUME NEW s \in SAs, NEW g \in AdminPerms, AdminGrant(s, g) \/ AdminRevoke(s, g) PROVE FALSE
  <2>1. admin' = admin + 1 /\ admin \in Nat
    BY <1>2 DEF AdminGrant, AdminRevoke, Inv, TypeOK
  <2>2. QED
    BY <2>1
<1>3. ASSUME NEW r \in Replicas, LoopStep(r) \/ Receive(r) \/ CloseWatch(r) \/ EntryFails(r) \/ GetFails(r) \/ Crash(r)
      PROVE  ReplacePermissions(r)
  BY <1>3 DEF LoopStep, InitialGet, Watch, GetSA, CreateSA, ClearPermissions, Receive,
              CloseWatch, EntryFails, GetFails, Crash
<1>4. ASSUME NEW c \in Callers, CallerFind(c) \/ CallerCreate(c) PROVE FALSE
  BY <1>4 DEF CallerFind, CallerCreate
<1>5. ~(EditConfigMap \/ DeleteConfigMap \/ UNCHANGED vars)
  BY DEF EditConfigMap, DeleteConfigMap, vars
<1>6. QED
  BY <1>1, <1>2, <1>3, <1>4, <1>5 DEF Next

LEMMA KeptStep ==
    ASSUME Inv, [Next]_vars, NEW s \in SAs, NEW g \in Effective(s), AlwaysListed(s, g)', admin' = admin
    PROVE  g \in Effective(s)'
<1>1. PICK p \in perms : p.owner \in First(s) /\ p.perm = g
  BY DEF Effective
<1>2. p.owner = [sa |-> s, nth |-> 1] /\ sas[s] > 0 /\ sas[s] \in Nat
  BY <1>1, FirstType DEF Inv, TypeOK
<1>3. [sa |-> s, nth |-> 1] \in First(s)'
  <2>1. sas[s] <= sas'[s] /\ sas'[s] \in Nat
    BY AccountsGrow, InvStep DEF Inv, TypeOK
  <2>2. sas'[s] > 0
    BY <1>2, <2>1
  <2>3. QED
    BY <2>2 DEF First
<1>4. \E q \in perms' : q.owner = [sa |-> s, nth |-> 1] /\ q.perm = g
  <2>1. CASE p \in perms'
    BY <1>1, <1>2, <2>1
  <2>2. CASE p \notin perms'
    <3>1. PICK r \in Replicas : ReplacePermissions(r) /\ p \in loc[r].cleared
      BY <2>2, LostRowStep
    <3> DEFINE e == Head(loc[r].todo)
    <3>2. pc[r] = "commit" /\ pc[r] \in Mid
      BY <3>1 DEF ReplacePermissions, Mid
    <3>3. loc[r].sa = [sa |-> s, nth |-> 1]
      BY <1>2, <3>1 DEF Inv, RowInv, RowAtHand
    <3>4. e.sa = s
      BY <3>2, <3>3 DEF Inv, RowInv, RowAtHand
    <3>5. IsListed(e)
      BY <3>2, HeadIsListed DEF Inv
    <3>6. PICK c \in published : \E j \in DOMAIN Listed(c) : e = Listed(c)[j]
      BY <3>5 DEF IsListed
    <3>7. PICK j \in DOMAIN Listed(c) : e = Listed(c)[j]
      BY <3>6
    <3>8. c \in published' /\ c \in Contents
      BY PublishedStep DEF Inv, WorkInv
    <3>9. PICK k \in DOMAIN Listed(c) : Listed(c)[k].sa = s /\ g \in ParsePermissions[Listed(c)[k]]
      BY <3>8 DEF AlwaysListed
    <3>10. j = k
      BY <3>4, <3>7, <3>8, <3>9, ListedOnce
    <3>11. g \in EntryPerms(loc[r].todo)
      BY <3>7, <3>9, <3>10 DEF EntryPerms
    <3>12. [owner |-> loc[r].sa, perm |-> g, by |-> "sync"] \in perms'
      BY <3>1, <3>11 DEF ReplacePermissions, Rows
    <3>13. QED
      BY <3>3, <3>12
  <2>3. QED
    BY <2>1, <2>2
<1>5. QED
  BY <1>3, <1>4 DEF Effective

\* ReplaceSAPermissions: a permission that every revision lists is never lost for
\* a moment, however many replicas replace the set, crash half way or create the
\* account twice; only a revocation takes it away.
THEOREM ListedIsNeverLost == Spec => ListedPermissionIsKept
<1>1. Inv /\ [Next]_vars =>
        [\A s \in SAs : \A g \in Effective(s) :
            AlwaysListed(s, g)' /\ admin' = admin => g \in Effective(s)']_vars
  BY KeptStep
<1>2. QED
  BY <1>1, InvInit, InvStep, PTL DEF Spec, ListedPermissionIsKept
-----------------------------------------------------------------------------
(* Replicas that wait for an event have synced the last revision. *)

Latest == Listed(cm.content)

\* The loop will still read the ConfigMap as it is, or an event that carries it.
WillRead(r) ==
    \/ pc[r] \in {"get", "watch"}
    \/ pc[r] \in Mid /\ loc[r].back = "watch"
    \/ chan[r] # <<>>

\* The last event of an open watch is about the ConfigMap as it is, and a loop
\* that has received it is at work on what it lists.
EventOK(r) ==
    /\ chan[r] # <<>> => Connected(r) /\ chan[r][Len(chan[r])] = cm.content
    /\ pc[r] \in Mid /\ ~WillRead(r) =>
         \A k \in DOMAIN loc[r].todo : \E j \in DOMAIN Latest : loc[r].todo[k] = Latest[j]

EventInv == \A r \in Replicas : EventOK(r)

\* The loop has yet to sync the entry e, or to clear the rows of its account.
Pending(r, e) ==
    WillRead(r) \/ (pc[r] \in Mid /\ \E k \in DOMAIN loc[r].todo : loc[r].todo[k] = e)

BeforeClear(r, e) ==
    WillRead(r) \/ (pc[r] \in Mid /\ \E k \in DOMAIN loc[r].todo : loc[r].todo[k] = e /\ (k > 1 \/ pc[r] # "commit"))

\* The loop will delete the row p when it commits the entry e.
WillDelete(r, e, p) == pc[r] = "commit" /\ Head(loc[r].todo) = e /\ p \in loc[r].cleared

FirstRow(s) == [sa |-> s, nth |-> 1]

\* What an entry lists is there, or a replica has yet to sync it.
EntryThere(e) ==
    \/ \A g \in ParsePermissions[e] : \E p \in perms : p.owner = FirstRow(e.sa) /\ p.perm = g
    \/ \E r \in Replicas : Pending(r, e)

\* What an entry does not list is not there, or a replica has yet to delete it.
NothingElse(e) ==
    \A p \in perms : p.owner.sa = e.sa /\ p.perm \notin ParsePermissions[e] =>
        \E r \in Replicas : BeforeClear(r, e) \/ WillDelete(r, e, p)

\* Neither a failure nor an administrator has interfered.
Undisturbed == feed = "sa" /\ cm.there /\ faults = 0 /\ admin = 0

LatestEntries == {Latest[k] : k \in DOMAIN Latest}

SyncInv ==
    Undisturbed => \A e \in LatestEntries : sas[e.sa] <= 1 => EntryThere(e) /\ NothingElse(e)

\* A replica that stays where it is, or in the middle of the same entry.
LEMMA EventKept ==
    ASSUME NEW q \in Replicas, EventOK(q), pc'[q] = pc[q] \/ (pc[q] \in Mid /\ pc'[q] \in Mid),
           loc'[q].todo = loc[q].todo, loc'[q].back = loc[q].back, chan'[q] = chan[q],
           cm'.content = cm.content
    PROVE  EventOK(q)'
  BY DEF EventOK, Connected, WillRead, Latest, Mid

\* Every replica that has a watch gets the event, and every other one reads.
LEMMA PublishReaches ==
    ASSUME TypeOK, EventInv, NEW c \in Content, Publish(c), cm'.content = c, UNCHANGED <<pc, loc>>
    PROVE  EventInv' /\ (\A r \in Replicas : WillRead(r)')
<1> SUFFICES ASSUME NEW r \in Replicas PROVE EventOK(r)' /\ WillRead(r)'
  BY DEF EventInv
<1>1. chan'[r] = (IF Connected(r) THEN Append(chan[r], c) ELSE chan[r]) /\ chan[r] \in Seq(Content)
  BY PublishFacts DEF TypeOK
<1>2. EventOK(r)
  BY DEF EventInv
<1>3. CASE Connected(r)
  <2>1. chan'[r] = Append(chan[r], c)
    BY <1>1, <1>3
  <2>2. chan'[r] # <<>> /\ chan'[r][Len(chan'[r])] = c
    BY <1>1, <2>1
  <2>3. Connected(r)' /\ WillRead(r)'
    BY <1>3, <2>2 DEF Connected, WillRead
  <2>4. QED
    BY <2>2, <2>3 DEF EventOK
<1>4. CASE ~Connected(r)
  <2>1. chan'[r] = <<>>
    BY <1>1, <1>2, <1>4 DEF EventOK
  <2>2. loc[r].back \in {"watch", "recv"} /\ pc[r] \in Labels
    BY DEF TypeOK, Locals
  <2>3. WillRead(r)'
    BY <1>4, <2>2 DEF Connected, WillRead, Labels, Mid
  <2>4. QED
    BY <2>1, <2>3 DEF EventOK
<1>5. QED
  BY <1>3, <1>4

\* The loop goes on to the next entry.
LEMMA NextEntryEvents ==
    ASSUME TypeOK, WorkInv, NEW r \in Replicas, pc[r] \in Mid, NEW l \in [Replicas -> Locals],
           \A q \in Replicas : l[q].todo = loc[q].todo /\ l[q].back = loc[q].back, NextEntry(r, l),
           UNCHANGED <<cm, chan>>
    PROVE  /\ loc'[r].todo = Tail(loc[r].todo) /\ loc'[r].back = loc[r].back
           /\ pc'[r] = IF Tail(loc[r].todo) = <<>> THEN loc[r].back ELSE "find"
           /\ \A q \in Replicas \ {r} :
                pc'[q] = pc[q] /\ loc'[q] = l[q] /\ loc'[q].todo = loc[q].todo /\ loc'[q].back = loc[q].back
           /\ WillRead(r) => WillRead(r)'
           /\ EventOK(r) => EventOK(r)'
  <1>1. loc[r].todo \in Seq(SAEntry) /\ loc[r].todo # <<>> /\ l[r].todo # <<>>
    BY HeadIsListed
  <1>2. loc[r].back \in {"watch", "recv"}
    BY DEF TypeOK, Locals
  <1>3. /\ loc'[r].todo = Tail(loc[r].todo) /\ loc'[r].back = loc[r].back
        /\ pc'[r] = IF Tail(loc[r].todo) = <<>> THEN loc[r].back ELSE "find"
    BY <1>1, NextEntryFacts DEF TypeOK
  <1>4. \A q \in Replicas \ {r} : loc'[q] = l[q] /\ pc'[q] = pc[q]
    BY <1>1, NextEntryFacts DEF TypeOK
  <1>5. WillRead(r) => WillRead(r)'
    BY <1>2, <1>3 DEF WillRead, Mid
  <1>6. ASSUME EventOK(r) PROVE EventOK(r)'
    <2>1. chan'[r] # <<>> => Connected(r)' /\ chan'[r][Len(chan'[r])] = cm'.content
      BY <1>2, <1>3, <1>6 DEF EventOK, Connected, Mid
    <2>2. ASSUME pc'[r] \in Mid, ~WillRead(r)', NEW k \in DOMAIN loc'[r].todo
          PROVE  \E j \in DOMAIN Latest' : loc'[r].todo[k] = Latest'[j]
      <3>1. ~WillRead(r)
        BY <1>5, <2>2
      <3>2. loc'[r].todo = Tail(loc[r].todo)
        BY <1>3
      <3>3. \A i \in DOMAIN Tail(loc[r].todo) : i + 1 \in DOMAIN loc[r].todo /\ Tail(loc[r].todo)[i] = loc[r].todo[i + 1]
        BY <1>1, TailFacts
      <3>4. k + 1 \in DOMAIN loc[r].todo /\ loc'[r].todo[k] = loc[r].todo[k + 1]
        BY <2>2, <3>2, <3>3, Zenon
      <3>5. QED
        BY <1>6, <3>1, <3>4 DEF EventOK, Latest
    <2>3. QED
      BY <2>1, <2>2 DEF EventOK
  <1>7. QED
    BY <1>3, <1>4, <1>5, <1>6

LEMMA EventInit == Init => EventInv
  BY DEF Init, EventInv, EventOK, Mid
LEMMA EventStep == Inv /\ EventInv /\ [Next]_vars => EventInv'
<1> SUFFICES ASSUME Inv, EventInv, [Next]_vars PROVE EventInv'
  OBVIOUS
<1> USE DEF Inv, cluster, database
<1>1. ASSUME NEW r \in Replicas, EventOK(r)', cm' = cm,
             \A q \in Replicas \ {r} : pc'[q] = pc[q] /\ loc'[q] = loc[q] /\ chan'[q] = chan[q]
      PROVE  EventInv'
  BY <1>1, EventKept DEF EventInv
<1>2. CASE EditConfigMap
  <2>1. PICK c \in Contents : cm' = [there |-> TRUE, content |-> c] /\ Publish(c)
    BY <1>2 DEF EditConfigMap
  <2>2. c \in Content /\ cm'.content = c
    BY <2>1, SyncAssumption
  <2>3. QED
    BY <1>2, <2>1, <2>2, PublishReaches DEF EditConfigMap
<1>3. CASE DeleteConfigMap
  <2>1. cm.content \in Content /\ cm'.content = cm.content
    BY <1>3 DEF DeleteConfigMap, TypeOK, CMState
  <2>2. QED
    BY <1>3, <2>1, PublishReaches DEF DeleteConfigMap
<1>4. ASSUME NEW r \in Replicas, InitialGet(r) PROVE EventInv'
  <2>1. chan[r] = <<>> /\ chan' = chan /\ cm' = cm
    BY <1>4 DEF InitialGet, EventInv, EventOK, Connected
  <2>2. cm.content \in Content
    BY DEF TypeOK, CMState
  <2>3. /\ pc'[r] = "watch" \/ (pc'[r] \in Mid /\ loc'[r].back = "watch")
        /\ \A q \in Replicas \ {r} : pc'[q] = pc[q] /\ loc'[q] = loc[q]
    <3>1. CASE Apply(r, cm.content, "watch")
      BY <2>2, <3>1, ApplyFacts DEF Mid
    <3>2. CASE Goto(r, "watch") /\ UNCHANGED loc
      BY <3>2 DEF Goto, TypeOK
    <3>3. QED
      BY <1>4, <3>1, <3>2 DEF InitialGet
  <2>4. EventOK(r)'
    BY <2>1, <2>3 DEF EventOK, WillRead
  <2>5. QED
    BY <1>1, <2>1, <2>3, <2>4
<1>5. ASSUME NEW r \in Replicas, Watch(r) PROVE EventInv'
  <2>1. /\ pc'[r] = "recv" /\ chan'[r] \in {<<cm.content>>, <<>>} /\ cm' = cm
        /\ \A q \in Replicas \ {r} : pc'[q] = pc[q] /\ loc'[q] = loc[q] /\ chan'[q] = chan[q]
    BY <1>5 DEF Watch, Goto, TypeOK
  <2>2. EventOK(r)'
    BY <2>1 DEF EventOK, Connected, Mid
  <2>3. QED
    BY <1>1, <2>1, <2>2
<1>6. ASSUME NEW r \in Replicas, Receive(r) PROVE EventInv'
  <2>1. /\ chan[r] \in Seq(Content) /\ chan[r] # <<>> /\ Head(chan[r]) \in Content
        /\ chan[r][Len(chan[r])] = cm.content
    BY <1>6 DEF Receive, TypeOK, EventInv, EventOK
  <2>2. /\ chan'[r] = Tail(chan[r]) /\ cm' = cm
        /\ \A q \in Replicas \ {r} : chan'[q] = chan[q]
    BY <1>6 DEF Receive, TypeOK
  <2>3. Apply(r, Head(chan[r]), "recv")
    BY <1>6 DEF Receive
  <2>4. /\ pc'[r] = "recv" \/ (pc'[r] = "find" /\ loc'[r].back = "recv" /\ loc'[r].todo = Listed(Head(chan[r])))
        /\ \A q \in Replicas \ {r} : pc'[q] = pc[q] /\ loc'[q] = loc[q]
    BY <2>1, <2>3, ApplyFacts
  <2>5. chan'[r] # <<>> => chan'[r][Len(chan'[r])] = cm.content
    BY <2>1, <2>2
  <2>6. ASSUME chan'[r] = <<>> PROVE Head(chan[r]) = cm.content
    BY <2>1, <2>2, <2>6, LastIsHead
  <2>7. EventOK(r)'
    BY <2>2, <2>4, <2>5, <2>6 DEF EventOK, Connected, WillRead, Latest, Mid
  <2>8. QED
    BY <1>1, <2>2, <2>4, <2>7
<1>7. ASSUME NEW r \in Replicas, CloseWatch(r) \/ GetFails(r) \/ Crash(r) PROVE EventInv'
  <2>1. /\ pc'[r] \in {"get", "watch"} /\ cm' = cm
        /\ \A q \in Replicas \ {r} : pc'[q] = pc[q] /\ loc'[q] = loc[q] /\ chan'[q] = chan[q]
    BY <1>7 DEF CloseWatch, GetFails, Crash, Goto, TypeOK
  <2>2. chan'[r] = <<>>
    BY <1>7 DEF CloseWatch, GetFails, Crash, TypeOK, EventInv, EventOK, Connected
  <2>3. EventOK(r)'
    BY <2>1, <2>2 DEF EventOK, Mid
  <2>4. QED
    BY <1>1, <2>1, <2>3
<1>8. ASSUME NEW r \in Replicas, GetSA(r) \/ CreateSA(r) \/ ClearPermissions(r) PROVE EventInv'
  <2>1. /\ pc[r] \in Mid /\ pc'[r] \in Mid /\ cm' = cm /\ chan' = chan
        /\ \A q \in Replicas \ {r} : pc'[q] = pc[q]
    BY <1>8 DEF GetSA, CreateSA, ClearPermissions, Goto, TypeOK, Mid
  <2>2. /\ loc'[r].todo = loc[r].todo /\ loc'[r].back = loc[r].back
        /\ \A q \in Replicas \ {r} : loc'[q] = loc[q]
    BY <1>8 DEF GetSA, CreateSA, ClearPermissions, TypeOK, Locals
  <2>3. QED
    BY <2>1, <2>2, EventKept DEF EventInv
<1>9. ASSUME NEW r \in Replicas, pc[r] \in Mid, NEW l \in [Replicas -> Locals],
             \A q \in Replicas : l[q].todo = loc[q].todo /\ l[q].back = loc[q].back, NextEntry(r, l),
             UNCHANGED <<cm, chan>>
      PROVE  EventInv'
  BY <1>9, NextEntryEvents, EventKept DEF EventInv
<1>10. ASSUME NEW r \in Replicas, ReplacePermissions(r) PROVE EventInv'
  <2> DEFINE rows == Rows(loc[r].sa, EntryPerms(loc[r].todo), "sync")
  <2>1. pc[r] \in Mid /\ NextEntry(r, Spare(rows)) /\ UNCHANGED <<cm, chan>>
    BY <1>10 DEF ReplacePermissions, Mid
  <2> HIDE DEF rows
  <2>2. /\ Spare(rows) \in [Replicas -> Locals]
        /\ \A q \in Replicas : Spare(rows)[q].todo = loc[q].todo /\ Spare(rows)[q].back = loc[q].back
    BY SpareFacts DEF TypeOK
  <2>3. QED
    BY <1>9, <2>1, <2>2, Zenon
<1>11. ASSUME NEW r \in Replicas, EntryFails(r) PROVE EventInv'
  BY <1>9, <1>11 DEF EntryFails, Mid, TypeOK
<1>12. ASSUME UNCHANGED <<cm, chan, pc>>,
              \A q \in Replicas : loc'[q].todo = loc[q].todo /\ loc'[q].back = loc[q].back
       PROVE  EventInv'
  BY <1>12, EventKept DEF EventInv
<1>13. ASSUME NEW c \in Callers, CallerFind(c) \/ CallerCreate(c) PROVE EventInv'
  BY <1>12, <1>13 DEF CallerFind, CallerCreate
<1>14. ASSUME NEW s \in SAs, NEW g \in AdminPerms, AdminGrant(s, g) \/ AdminRevoke(s, g) PROVE EventInv'
  <2>1. UNCHANGED <<cm, chan, pc>>
    BY <1>14 DEF AdminGrant, AdminRevoke
  <2>2. loc' = loc \/ (\E rows : loc' = Spare(rows))
    BY <1>14 DEF AdminGrant, AdminRevoke
  <2>3. \A q \in Replicas : loc'[q].todo = loc[q].todo /\ loc'[q].back = loc[q].back
    BY <2>2, SpareFacts DEF TypeOK
  <2>4. QED
    BY <1>12, <2>1, <2>3
<1>15. CASE UNCHANGED vars
  BY <1>12, <1>15 DEF vars
<1>16. QED
  BY <1>2, <1>3, <1>4, <1>5, <1>6, <1>7, <1>8, <1>10, <1>11, <1>13, <1>14, <1>15 DEF Next, LoopStep
\* A replica that has not yet cleared the rows of an entry will do all of it.
LEMMA BeforeClearSuffices ==
    ASSUME NEW e, NEW r \in Replicas, BeforeClear(r, e)'
    PROVE  EntryThere(e)' /\ NothingElse(e)'
  BY DEF BeforeClear, Pending, EntryThere, NothingElse

\* What a replica that does not move has yet to do.
LEMMA PendingKept ==
    ASSUME NEW e, NEW q, pc'[q] = pc[q], chan'[q] = chan[q],
           loc'[q].todo = loc[q].todo, loc'[q].back = loc[q].back
    PROVE  /\ Pending(q, e) => Pending(q, e)'
           /\ BeforeClear(q, e) => BeforeClear(q, e)'
  BY DEF Pending, BeforeClear, WillRead

LEMMA WillDeleteKept ==
    ASSUME NEW e, NEW q, NEW p, pc'[q] = pc[q], loc'[q].todo = loc[q].todo,
           WillDelete(q, e, p), p \in loc'[q].cleared
    PROVE  WillDelete(q, e, p)'
  BY DEF WillDelete

\* A step of one replica that leaves the permissions alone.
LEMMA StepOfOne ==
    ASSUME NEW e, NEW r \in Replicas, EntryThere(e), NothingElse(e), perms' = perms,
           \A q \in Replicas \ {r} : pc'[q] = pc[q] /\ loc'[q] = loc[q] /\ chan'[q] = chan[q],
           Pending(r, e) => Pending(r, e)',
           \A p \in perms : p.owner.sa = e.sa /\ (BeforeClear(r, e) \/ WillDelete(r, e, p)) =>
               BeforeClear(r, e)' \/ WillDelete(r, e, p)'
    PROVE  EntryThere(e)' /\ NothingElse(e)'
  <1>1. \A q \in Replicas : Pending(q, e) => Pending(q, e)'
    BY PendingKept
  <1>2. EntryThere(e)'
    BY <1>1 DEF EntryThere, FirstRow
  <1>3. ASSUME NEW p \in perms', p.owner.sa = e.sa, p.perm \notin ParsePermissions[e]
        PROVE  \E q \in Replicas : BeforeClear(q, e)' \/ WillDelete(q, e, p)'
    <2>1. PICK q \in Replicas : BeforeClear(q, e) \/ WillDelete(q, e, p)
      BY <1>3 DEF NothingElse
    <2>2. CASE q = r
      BY <1>3, <2>1, <2>2
    <2>3. CASE q # r
      <3>1. pc'[q] = pc[q] /\ loc'[q] = loc[q] /\ chan'[q] = chan[q]
        BY <2>3
      <3>2. BeforeClear(q, e) => BeforeClear(q, e)'
        BY <3>1, PendingKept
      <3>3. WillDelete(q, e, p) => WillDelete(q, e, p)'
        BY <3>1 DEF WillDelete
      <3>4. QED
        BY <2>1, <3>2, <3>3
    <2>4. QED
      BY <2>2, <2>3
  <1>4. QED
    BY <1>2, <1>3 DEF NothingElse

\* An account with one row has its first row.
LEMMA OneRow ==
    ASSUME Inv, NEW s \in SAs, sas[s] <= 1
    PROVE  /\ \A p \in perms : p.owner.sa = s => p.owner = FirstRow(s)
           /\ \A r \in Replicas : pc[r] \in {"clear", "commit"} /\ Head(loc[r].todo).sa = s =>
                loc[r].sa = FirstRow(s)
  <1>1. ASSUME NEW x \in SARow, x.sa = s, 1 <= x.nth, x.nth <= sas[x.sa] PROVE x = FirstRow(s)
    <2>1. x.nth \in Nat /\ sas[s] \in Nat
      BY <1>1 DEF SARow, Inv, TypeOK
    <2>2. x.nth = 1
      BY <1>1, <2>1
    <2>3. QED
      BY <1>1, <2>2 DEF SARow, FirstRow
  <1>2. ASSUME NEW p \in perms, p.owner.sa = s PROVE p.owner = FirstRow(s)
    <2>1. p.owner \in SARow
      BY DEF Inv, TypeOK, PermRow
    <2>2. QED
      BY <1>1, <1>2, <2>1 DEF Inv, RowInv, RowsExist
  <1>3. ASSUME NEW r \in Replicas, pc[r] \in {"clear", "commit"}, Head(loc[r].todo).sa = s
        PROVE  loc[r].sa = FirstRow(s)
    BY <1>1, <1>3 DEF Inv, RowInv, RowAtHand
  <1>4. QED
    BY <1>2, <1>3

LEMMA LatestFacts ==
    ASSUME Inv, NEW e \in LatestEntries
    PROVE  /\ e \in SAEntry /\ e.sa \in SAs
           /\ \A f \in LatestEntries : f.sa = e.sa => f = e
  <1>1. cm.content \in published /\ cm.content \in Contents
    BY DEF Inv, WorkInv
  <1>2. IsListed(e)
    BY <1>1 DEF LatestEntries, Latest, IsListed
  <1>3. e \in SAEntry
    BY <1>2, ListedIsEntry DEF Inv, WorkInv
  <1>4. e.sa \in SAs
    BY <1>3 DEF SAEntry
  <1>5. ASSUME NEW f \in LatestEntries, f.sa = e.sa PROVE f = e
    BY <1>1, <1>5, ListedOnce DEF LatestEntries, Latest
  <1>6. QED
    BY <1>3, <1>4, <1>5
\* A commit of ReplaceSAPermissions: of the entry e itself, of an older entry for
\* the same account, or of an entry for another account.
LEMMA CommitStep ==
    ASSUME Inv, EventInv, NEW e \in LatestEntries, sas[e.sa] <= 1, EntryThere(e), NothingElse(e),
           NEW r \in Replicas, ReplacePermissions(r)
    PROVE  EntryThere(e)' /\ NothingElse(e)'
<1> DEFINE h == Head(loc[r].todo)
           rows == Rows(loc[r].sa, EntryPerms(loc[r].todo), "sync")
<1> USE DEF cluster, database
<1>1. /\ pc[r] = "commit" /\ pc[r] \in Mid /\ NextEntry(r, Spare(rows))
      /\ perms' = (perms \ loc[r].cleared) \cup rows /\ UNCHANGED <<cm, chan>>
  BY DEF ReplacePermissions, Mid
<1>2. \A p \in rows : p.owner = loc[r].sa /\ p.perm \in ParsePermissions[h]
  BY DEF Rows, EntryPerms
<1>3. ASSUME NEW g \in ParsePermissions[h] PROVE \E p \in rows : p.owner = loc[r].sa /\ p.perm = g
  <2>1. [owner |-> loc[r].sa, perm |-> g, by |-> "sync"] \in rows
    BY DEF Rows, EntryPerms
  <2>2. QED
    BY <2>1
<1> HIDE DEF rows
<1>4. /\ Spare(rows) \in [Replicas -> Locals]
      /\ \A q \in Replicas : /\ Spare(rows)[q].todo = loc[q].todo
                             /\ Spare(rows)[q].back = loc[q].back
                             /\ Spare(rows)[q].cleared = loc[q].cleared \ rows
  BY SpareFacts DEF Inv, TypeOK
<1>5. /\ loc'[r].todo = Tail(loc[r].todo)
      /\ pc'[r] = IF Tail(loc[r].todo) = <<>> THEN loc[r].back ELSE "find"
      /\ \A q \in Replicas \ {r} :
           pc'[q] = pc[q] /\ loc'[q] = Spare(rows)[q] /\ loc'[q].todo = loc[q].todo /\ loc'[q].back = loc[q].back
      /\ WillRead(r) => WillRead(r)'
  BY <1>1, <1>4, NextEntryEvents DEF Inv
<1>6. /\ loc[r].todo \in Seq(SAEntry) /\ loc[r].todo # <<>>
      /\ loc[r].sa.sa = h.sa
      /\ \A p \in loc[r].cleared : p.owner = loc[r].sa
  BY <1>1, HeadIsListed DEF Inv, RowInv, RowAtHand
<1>7. e.sa \in SAs /\ (\A f \in LatestEntries : f.sa = e.sa => f = e)
  BY LatestFacts
\* What is left of the list is still to be done.
<1>8. ASSUME NEW k \in DOMAIN loc[r].todo, k > 1, loc[r].todo[k] = e PROVE BeforeClear(r, e)'
  <2>1. k - 1 \in DOMAIN loc'[r].todo /\ loc'[r].todo[k - 1] = e
    BY <1>5, <1>6, <1>8, TailFacts
  <2>2. Tail(loc[r].todo) # <<>>
    BY <1>5, <2>1
  <2>3. pc'[r] = "find"
    BY <1>5, <2>2
  <2>4. QED
    BY <2>1, <2>3 DEF BeforeClear, Mid
<1>9. BeforeClear(r, e) => BeforeClear(r, e)'
  <2>1. CASE WillRead(r)
    BY <1>5, <2>1 DEF BeforeClear
  <2>2. CASE ~WillRead(r)
    BY <1>1, <1>8, <2>2 DEF BeforeClear
  <2>3. QED
    BY <2>1, <2>2
<1>10. \A q \in Replicas \ {r} : /\ Pending(q, e) => Pending(q, e)'
                                 /\ BeforeClear(q, e) => BeforeClear(q, e)'
  BY <1>1, <1>5, PendingKept
<1>11. ASSUME NEW q \in Replicas \ {r}, NEW p, p \notin rows, WillDelete(q, e, p) PROVE WillDelete(q, e, p)'
  BY <1>4, <1>5, <1>11 DEF WillDelete
\* A row that the commit does not write is as it was.
<1>12. ASSUME NEW p \in perms, p \notin rows, p \notin loc[r].cleared,
              p.owner.sa = e.sa, p.perm \notin ParsePermissions[e]
       PROVE  \E q \in Replicas : BeforeClear(q, e)' \/ WillDelete(q, e, p)'
  <2>1. PICK q \in Replicas : BeforeClear(q, e) \/ WillDelete(q, e, p)
    BY <1>12 DEF NothingElse
  <2>2. CASE q = r
    BY <1>9, <1>12, <2>1, <2>2 DEF WillDelete
  <2>3. CASE q # r
    BY <1>10, <1>11, <1>12, <2>1, <2>3
  <2>4. QED
    BY <2>2, <2>3
<1>13. CASE h.sa # e.sa
  <2>1. \A p \in rows \cup loc[r].cleared : p.owner.sa # e.sa
    BY <1>2, <1>6, <1>13
  <2>2. \A p \in perms : p.owner = FirstRow(e.sa) => p \in perms'
    BY <1>1, <2>1 DEF FirstRow
  <2>3. EntryThere(e)'
    <3>1. CASE \A g \in ParsePermissions[e] : \E p \in perms : p.owner = FirstRow(e.sa) /\ p.perm = g
      BY <2>2, <3>1 DEF EntryThere, FirstRow
    <3>2. ASSUME NEW q \in Replicas, Pending(q, e) PROVE EntryThere(e)'
      <4>1. CASE q # r
        BY <1>10, <3>2, <4>1 DEF EntryThere
      <4>2. CASE q = r /\ WillRead(r)
        BY <1>5, <4>2 DEF EntryThere, Pending
      <4>3. CASE q = r /\ ~WillRead(r)
        <5>1. PICK k \in DOMAIN loc[r].todo : loc[r].todo[k] = e
          BY <3>2, <4>3 DEF Pending
        <5>2. k # 1 /\ k \in Nat /\ k >= 1
          BY <1>6, <1>13, <5>1, TailFacts
        <5>3. k > 1
          BY <5>2
        <5>4. BeforeClear(r, e)'
          BY <1>8, <5>1, <5>3
        <5>5. QED
          BY <5>4, BeforeClearSuffices
      <4>4. QED
        BY <4>1, <4>2, <4>3
    <3>3. QED
      BY <3>1, <3>2 DEF EntryThere
  <2>4. NothingElse(e)'
    BY <1>1, <1>12, <2>1 DEF NothingElse
  <2>5. QED
    BY <2>3, <2>4
<1>14. CASE h.sa = e.sa /\ h # e
  <2>1. WillRead(r)
    <3>1. SUFFICES ASSUME ~WillRead(r) PROVE FALSE
      OBVIOUS
    <3>2. 1 \in DOMAIN loc[r].todo /\ h = loc[r].todo[1]
      BY <1>6, TailFacts
    <3>3. h \in LatestEntries
      BY <1>1, <3>1, <3>2 DEF EventInv, EventOK, LatestEntries
    <3>4. QED
      BY <1>7, <1>14, <3>3
  <2>2. BeforeClear(r, e)'
    BY <1>5, <2>1 DEF BeforeClear
  <2>3. QED
    BY <2>2, BeforeClearSuffices
<1>15. CASE h = e
  <2>1. loc[r].sa = FirstRow(e.sa)
    BY <1>1, <1>7, <1>15, OneRow
  <2>2. EntryThere(e)'
    <3>1. \A g \in ParsePermissions[e] : \E p \in perms' : p.owner = FirstRow(e.sa) /\ p.perm = g
      BY <1>1, <1>3, <1>15, <2>1
    <3>2. QED
      BY <3>1 DEF EntryThere, FirstRow
  <2>3. NothingElse(e)'
    BY <1>1, <1>2, <1>12, <1>15 DEF NothingElse
  <2>4. QED
    BY <2>2, <2>3
<1>16. QED
  BY <1>13, <1>14, <1>15
LEMMA SyncInit == Init => SyncInv
<1> SUFFICES ASSUME Init, NEW e PROVE EntryThere(e) /\ NothingElse(e)
  BY DEF SyncInv
<1>1. PICK r : r \in Replicas
  BY SyncAssumption
<1>2. WillRead(r)
  BY <1>1 DEF Init, WillRead
<1>3. QED
  BY <1>1, <1>2 DEF EntryThere, NothingElse, Pending, BeforeClear

\* Faults and grants are counted.
LEMMA Disturbances ==
    ASSUME Inv, [Next]_vars, Undisturbed'
    PROVE  /\ UNCHANGED <<faults, admin, feed>>
           /\ faults = 0 /\ admin = 0
<1> USE DEF cluster, database
<1>1. faults' \in {faults, faults + 1} /\ admin' \in {admin, admin + 1} /\ feed' = feed
  <2>1. ASSUME NEW r \in Replicas, LoopStep(r) \/ Receive(r) \/ CloseWatch(r) \/ EntryFails(r) \/ GetFails(r) \/ Crash(r)
        PROVE  faults' \in {faults, faults + 1} /\ admin' = admin /\ feed' = feed
    BY <2>1 DEF LoopStep, InitialGet, Watch, GetSA, CreateSA, ClearPermissions, ReplacePermissions, Receive,
                CloseWatch, EntryFails, GetFails, Crash
  <2>2. ASSUME NEW s \in SAs, NEW g \in AdminPerms, AdminGrant(s, g) \/ AdminRevoke(s, g)
        PROVE  faults' = faults /\ admin' = admin + 1 /\ feed' = feed
    BY <2>2 DEF AdminGrant, AdminRevoke
  <2>3. ASSUME NEW c \in Callers, CallerFind(c) \/ CallerCreate(c) PROVE UNCHANGED <<faults, admin, feed>>
    BY <2>3 DEF CallerFind, CallerCreate
  <2>4. CASE EditConfigMap \/ DeleteConfigMap \/ UNCHANGED vars
    BY <2>4 DEF EditConfigMap, DeleteConfigMap, vars
  <2>5. QED
    BY <2>1, <2>2, <2>3, <2>4 DEF Next
<1>2. faults \in Nat /\ admin \in Nat /\ faults' = 0 /\ admin' = 0
  BY DEF Inv, TypeOK, Undisturbed
<1>3. QED
  BY <1>1, <1>2

LEMMA SyncStep == Inv /\ EventInv /\ SyncInv /\ [Next]_vars => SyncInv'
<1> SUFFICES ASSUME Inv, EventInv, SyncInv, [Next]_vars, Undisturbed', NEW e \in LatestEntries', sas'[e.sa] <= 1
             PROVE  EntryThere(e)' /\ NothingElse(e)'
  BY DEF SyncInv
<1> USE DEF cluster, database
<1>1. UNCHANGED <<faults, admin, feed>> /\ faults = 0 /\ admin = 0
  BY Disturbances
<1>2. ASSUME cm' = cm
      PROVE  e \in LatestEntries /\ e.sa \in SAs /\ sas[e.sa] <= 1 /\ EntryThere(e) /\ NothingElse(e) /\ cm.there
  <2>1. e \in LatestEntries /\ Undisturbed
    BY <1>1, <1>2 DEF LatestEntries, Latest, Undisturbed
  <2>2. e.sa \in SAs
    BY <2>1, LatestFacts
  <2>3. sas[e.sa] <= sas'[e.sa] /\ sas[e.sa] \in Nat /\ sas'[e.sa] \in Nat
    BY <2>2, AccountsGrow, InvStep DEF Inv, TypeOK
  <2>4. sas[e.sa] <= 1
    BY <2>3
  <2>5. QED
    BY <2>1, <2>2, <2>4 DEF SyncInv, Undisturbed
<1>3. CASE EditConfigMap
  <2>1. PICK c \in Contents : cm' = [there |-> TRUE, content |-> c] /\ Publish(c)
    BY <1>3 DEF EditConfigMap
  <2>2. c \in Content /\ cm'.content = c
    BY <2>1, SyncAssumption
  <2>3. PICK r : r \in Replicas
    BY SyncAssumption
  <2>4. WillRead(r)'
    BY <1>3, <2>1, <2>2, <2>3, PublishReaches DEF EditConfigMap, Inv
  <2>5. BeforeClear(r, e)'
    BY <2>4 DEF BeforeClear
  <2>6. QED
    BY <2>3, <2>5, BeforeClearSuffices
<1>4. CASE DeleteConfigMap
  <2>1. cm'.there = FALSE
    BY <1>4 DEF DeleteConfigMap, Inv, TypeOK, CMState
  <2>2. QED
    BY <2>1 DEF Undisturbed
<1>5. ASSUME NEW r \in Replicas, InitialGet(r) PROVE BeforeClear(r, e)'
  <2>1. cm.content \in Content
    BY DEF Inv, TypeOK, CMState
  <2>2. CASE Apply(r, cm.content, "watch")
    BY <2>1, <2>2, ApplyFacts DEF Inv, BeforeClear, WillRead, Mid
  <2>3. CASE Goto(r, "watch")
    BY <2>3 DEF Goto, Inv, TypeOK, BeforeClear, WillRead
  <2>4. QED
    BY <1>5, <2>2, <2>3 DEF InitialGet
<1>6. ASSUME NEW r \in Replicas, Watch(r) PROVE BeforeClear(r, e)'
  <2>1. cm.there
    BY <1>2, <1>6 DEF Watch
  <2>2. chan'[r] = <<cm.content>>
    BY <1>6, <2>1 DEF Watch, Inv, TypeOK
  <2>3. QED
    BY <2>2 DEF BeforeClear, WillRead
<1>7. ASSUME NEW r \in Replicas, CloseWatch(r) PROVE BeforeClear(r, e)'
  BY <1>7 DEF CloseWatch, Goto, Inv, TypeOK, BeforeClear, WillRead
<1>8. ASSUME NEW r \in Replicas, Receive(r) PROVE BeforeClear(r, e)'
  <2>1. /\ chan[r] \in Seq(Content) /\ chan[r] # <<>> /\ Head(chan[r]) \in Content
        /\ chan[r][Len(chan[r])] = cm.content
    BY <1>8 DEF Receive, Inv, TypeOK, EventInv, EventOK
  <2>2. chan'[r] = Tail(chan[r]) /\ cm' = cm /\ Apply(r, Head(chan[r]), "recv")
    BY <1>8 DEF Receive, Inv, TypeOK
  <2>3. CASE Tail(chan[r]) # <<>>
    BY <2>2, <2>3 DEF BeforeClear, WillRead
  <2>4. CASE Tail(chan[r]) = <<>>
    <3>1. Head(chan[r]) = cm.content
      BY <2>1, <2>4, LastIsHead
    <3>2. e \in LatestEntries
      BY <1>2, <2>2
    <3>3. PICK k \in DOMAIN Listed(cm.content) : e = Listed(cm.content)[k]
      BY <3>2 DEF LatestEntries, Latest
    <3>4. Listed(cm.content) # <<>>
      BY <3>3
    <3>5. feed = "sa"
      BY <1>1 DEF Undisturbed
    <3>6. pc'[r] = "find" /\ loc'[r].todo = Listed(cm.content)
      BY <2>1, <2>2, <3>1, <3>4, <3>5, ApplyFacts DEF Inv
    <3>7. QED
      BY <3>3, <3>6 DEF BeforeClear, Mid
  <2>5. QED
    BY <2>3, <2>4
<1>9. ASSUME NEW r \in Replicas, GetSA(r) \/ CreateSA(r) PROVE EntryThere(e)' /\ NothingElse(e)'
  <2>1. /\ pc[r] \in Mid /\ pc'[r] \in Mid /\ pc[r] # "commit" /\ pc'[r] # "commit"
        /\ UNCHANGED <<cm, chan, perms>>
        /\ \A q \in Replicas \ {r} : pc'[q] = pc[q]
    BY <1>9 DEF GetSA, CreateSA, Goto, Inv, TypeOK, Mid
  <2>2. /\ loc'[r].todo = loc[r].todo /\ loc'[r].back = loc[r].back
        /\ \A q \in Replicas \ {r} : loc'[q] = loc[q]
    BY <1>9 DEF GetSA, CreateSA, Inv, TypeOK, Locals
  <2>3. Pending(r, e) => Pending(r, e)'
    BY <2>1, <2>2 DEF Pending, WillRead, Mid
  <2>4. BeforeClear(r, e) => BeforeClear(r, e)'
    BY <2>1, <2>2 DEF BeforeClear, WillRead, Mid
  <2>5. \A p : ~WillDelete(r, e, p)
    BY <2>1 DEF WillDelete
  <2>6. QED
    BY <1>2, <2>1, <2>2, <2>3, <2>4, <2>5, StepOfOne
<1>10. ASSUME NEW r \in Replicas, ClearPermissions(r) PROVE EntryThere(e)' /\ NothingElse(e)'
  <2>1. /\ pc[r] = "clear" /\ pc'[r] = "commit" /\ UNCHANGED <<cm, chan, perms>>
        /\ \A q \in Replicas \ {r} : pc'[q] = pc[q]
    BY <1>10 DEF ClearPermissions, Goto, Inv, TypeOK
  <2>2. /\ loc'[r].todo = loc[r].todo /\ loc'[r].back = loc[r].back
        /\ loc'[r].cleared = {p \in perms : p.owner = loc[r].sa}
        /\ \A q \in Replicas \ {r} : loc'[q] = loc[q]
    <3>1. {p \in perms : p.owner = loc[r].sa} \in SUBSET PermRow
      BY DEF Inv, TypeOK
    <3>2. QED
      BY <1>10, <3>1, SetClearedFacts DEF ClearPermissions, Inv, TypeOK
  <2>3. Pending(r, e) => Pending(r, e)'
    BY <2>1, <2>2 DEF Pending, WillRead, Mid
  <2>4. ASSUME NEW p \in perms, p.owner.sa = e.sa, BeforeClear(r, e) \/ WillDelete(r, e, p)
        PROVE  BeforeClear(r, e)' \/ WillDelete(r, e, p)'
    <3>1. BeforeClear(r, e)
      BY <2>1, <2>4 DEF WillDelete
    <3>2. CASE WillRead(r)
      BY <2>1, <2>2, <3>2 DEF BeforeClear, WillRead, Mid
    <3>3. CASE ~WillRead(r)
      <4>1. PICK k \in DOMAIN loc[r].todo : loc[r].todo[k] = e
        BY <3>1, <3>3 DEF BeforeClear
      <4>2. CASE k > 1
        BY <2>1, <2>2, <4>1, <4>2 DEF BeforeClear, Mid
      <4>3. CASE ~(k > 1)
        <5>1. pc[r] \in Mid
          BY <2>1 DEF Mid
        <5>2. loc[r].todo \in Seq(SAEntry) /\ loc[r].todo # <<>>
          BY <5>1, HeadIsListed DEF Inv
        <5>3. k = 1 /\ Head(loc[r].todo) = e
          BY <4>1, <4>3, <5>2
        <5>4. loc[r].sa = FirstRow(e.sa) /\ p.owner = FirstRow(e.sa)
          BY <1>2, <2>1, <2>4, <5>3, OneRow
        <5>5. QED
          BY <2>1, <2>2, <5>3, <5>4 DEF WillDelete
      <4>4. QED
        BY <4>2, <4>3
    <3>4. QED
      BY <3>2, <3>3
  <2>5. QED
    BY <1>2, <2>1, <2>2, <2>3, <2>4, StepOfOne
<1>11. ASSUME NEW r \in Replicas, ReplacePermissions(r) PROVE EntryThere(e)' /\ NothingElse(e)'
  BY <1>2, <1>11, CommitStep DEF ReplacePermissions
<1>12. ASSUME NEW r \in Replicas, EntryFails(r) \/ GetFails(r) \/ Crash(r) PROVE FALSE
  <2>1. faults' = faults + 1
    BY <1>12 DEF EntryFails, GetFails, Crash
  <2>2. QED
    BY <1>1, <2>1
<1>13. ASSUME NEW s \in SAs, NEW g \in AdminPerms, AdminGrant(s, g) \/ AdminRevoke(s, g) PROVE FALSE
  <2>1. admin' = admin + 1
    BY <1>13 DEF AdminGrant, AdminRevoke
  <2>2. QED
    BY <1>1, <2>1
<1>14. ASSUME UNCHANGED <<cm, chan, pc, loc, perms>> PROVE EntryThere(e)' /\ NothingElse(e)'
  BY <1>2, <1>14 DEF EntryThere, NothingElse, Pending, BeforeClear, WillDelete, WillRead, FirstRow
<1>15. ASSUME NEW c \in Callers, CallerFind(c) \/ CallerCreate(c) PROVE EntryThere(e)' /\ NothingElse(e)'
  BY <1>14, <1>15 DEF CallerFind, CallerCreate
<1>16. CASE UNCHANGED vars
  BY <1>14, <1>16 DEF vars
<1>17. QED
  BY <1>3, <1>4, <1>5, <1>6, <1>7, <1>8, <1>9, <1>10, <1>11, <1>12, <1>13, <1>15, <1>16,
     BeforeClearSuffices DEF Next, LoopStep

\* Once every loop waits, what is there is what the ConfigMap lists.
LEMMA QuietIsSynced == Inv /\ SyncInv => QuietlySynced
<1> SUFFICES ASSUME Inv, SyncInv, Quiet, \A s \in SAs : sas[s] <= 1,
                    NEW k \in DOMAIN Listed(cm.content)
             PROVE  Effective(Listed(cm.content)[k].sa) = ParsePermissions[Listed(cm.content)[k]]
  BY DEF QuietlySynced, AsListed
<1> DEFINE e == Listed(cm.content)[k]
           s == e.sa
<1>1. e \in LatestEntries
  BY DEF LatestEntries, Latest
<1>2. s \in SAs
  BY <1>1, LatestFacts
<1>3. EntryThere(e) /\ NothingElse(e)
  BY <1>1, <1>2 DEF SyncInv, Undisturbed, Quiet
<1>4. \A r \in Replicas : pc[r] = "recv" /\ chan[r] = <<>>
  BY DEF Quiet
<1>5. \A r \in Replicas : ~Pending(r, e) /\ ~BeforeClear(r, e)
  BY <1>4 DEF Pending, BeforeClear, WillRead, Mid
<1>6. \A r \in Replicas : \A p : ~WillDelete(r, e, p)
  BY <1>4 DEF WillDelete
<1>7. \A g \in ParsePermissions[e] : \E p \in perms : p.owner = FirstRow(s) /\ p.perm = g
  BY <1>3, <1>5 DEF EntryThere
<1>8. \A p \in perms : p.owner.sa = s => p.perm \in ParsePermissions[e]
  BY <1>3, <1>5, <1>6 DEF NothingElse
<1>9. \A p \in perms : p.owner = FirstRow(s) => p.owner \in First(s)
  <2>1. SUFFICES ASSUME NEW p \in perms, p.owner = FirstRow(s) PROVE p.owner \in First(s)
    OBVIOUS
  <2>2. p.owner.nth = 1 /\ p.owner.sa = s
    BY <2>1 DEF FirstRow
  <2>3. 1 <= sas[s] /\ sas[s] \in Nat
    BY <1>2, <2>2 DEF Inv, RowInv, RowsExist, TypeOK
  <2>4. sas[s] > 0
    BY <2>3
  <2>5. QED
    BY <2>1, <2>4 DEF First, FirstRow
<1>10. \A x \in First(s) : x.sa = s
  BY DEF First
<1> HIDE DEF e, s
<1>11. Effective(s) = ParsePermissions[e]
  <2>1. ParsePermissions[e] \subseteq Effective(s)
    BY <1>7, <1>9 DEF Effective
  <2>2. Effective(s) \subseteq ParsePermissions[e]
    BY <1>8, <1>10 DEF Effective
  <2>3. QED
    BY <2>1, <2>2
<1>12. QED
  BY <1>11 DEF e, s

\* watchLoop and applySync: replicas that lag behind each other replace the
\* permissions of one account in overlapping transactions, and leave exactly the
\* last revision once all of them wait for the next event, if no statement
\* failed, no administrator interfered and no account was created twice.
THEOREM LoopsConverge == Spec => []QuietlySynced
<1> DEFINE All == Inv /\ EventInv /\ SyncInv
<1>1. Init => All
  BY InvInit, EventInit, SyncInit
<1>2. All /\ [Next]_vars => All'
  BY InvStep, EventStep, SyncStep
<1>3. All => QuietlySynced
  BY QuietIsSynced
<1>4. QED
  BY <1>1, <1>2, <1>3, PTL DEF Spec
=============================================================================
