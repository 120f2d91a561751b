--------------------------- MODULE DocumentsProofs ---------------------------
(***************************************************************************)
(* Proofs about XmlDocs, of documents with any number of elements: what is *)
(* written can be read, and the records of answers are read as RecordsRead *)
(* says.  The argument goes from the stream to a table: a document is      *)
(* joined from rows of one shape, the rows are found below their path,     *)
(* place by place, and counted; then every kind of answer is such a table. *)
(***************************************************************************)
EXTENDS AlgorithmsProofs

-----------------------------------------------------------------------------
(* The recursive definitions, step by step.                                *)

\* The elements that are visited, one by one.
LEMMA VisitedAre ==
  ASSUME NEW S, NEW last \in Nat
  PROVE  LET upto == Xml!Visited(S, last)
         IN /\ upto[0] = <<>>
            /\ \A n \in 1 .. last : upto[n] = IF n \in S THEN Append(upto[n - 1], n)
                                              ELSE upto[n - 1]
  <1> DEFINE Is(f, m) ==
             f = [n \in 0 .. m |->
               IF n = 0 THEN <<>>
               ELSE IF n \in S THEN Append(f[n - 1], n) ELSE f[n - 1]]
             P == {m \in Nat : \E f : Is(f, m)}
  <1>1. \A m \in Nat : m \in P <=> \E f : Is(f, m)
    OBVIOUS
  <1> HIDE DEF P
  <1>2. 0 \in P
    <2>1. Is([n \in 0 .. 0 |-> <<>>], 0)
      OBVIOUS
    <2>2. \E f : Is(f, 0)
      BY <2>1
    <2> QED BY <1>1, <2>2
  <1>3. ASSUME NEW m \in Nat, m \in P PROVE m + 1 \in P
    <2>1. PICK f : Is(f, m)
      BY <1>1, <1>3
    <2> DEFINE g == [n \in 0 .. m + 1 |->
            IF n <= m THEN f[n]
            ELSE IF n \in S THEN Append(f[n - 1], n) ELSE f[n - 1]]
    <2>2. Is(g, m + 1)
      <3>1. \A n \in 0 .. m : g[n] = f[n]
        OBVIOUS
      <3>2. ASSUME NEW n \in 0 .. m + 1
            PROVE g[n] = IF n = 0 THEN <<>> ELSE IF n \in S THEN Append(g[n - 1], n) ELSE g[n - 1]
        <4>1. CASE n = 0
          BY <2>1, <3>1, <4>1
        <4>2. CASE n \in 1 .. m
          <5>1. g[n] = f[n] /\ g[n - 1] = f[n - 1]
            BY <3>1, <4>2
          <5>2. n \in 0 .. m /\ n # 0
            BY <4>2
          <5> HIDE DEF g
          <5>3. f[n] = IF n \in S THEN Append(f[n - 1], n) ELSE f[n - 1]
            BY <2>1, <5>2
          <5> HIDE DEF Is
          <5> QED BY <5>1, <5>2, <5>3
        <4>3. CASE n = m + 1
          <5>1. g[n - 1] = f[n - 1]
            BY <3>1, <4>3
          <5> QED BY <4>3, <5>1
        <4> QED BY <4>1, <4>2, <4>3
      <3> HIDE DEF g
      <3>3. g = [n \in 0 .. m + 1 |-> g[n]]
        BY DEF g
      <3> QED BY <3>2, <3>3
    <2> HIDE DEF g, Is
    <2>3. \E h : Is(h, m + 1)
      BY <2>2
    <2> QED BY <1>1, <2>3
  <1>4. last \in P
    <2>1. \A n \in 0 .. last - 1 : n \in P => n + 1 \in P
      BY <1>3
    <2>2. \A n \in 0 .. last : n \in P
      BY <1>2, <2>1, Upwards
    <2> QED BY <2>2
  <1>5. \E f : Is(f, last)
    BY <1>1, <1>4
  <1>6. Is(Xml!Visited(S, last), last)
    BY <1>5 DEF Xml!Visited
  <1>7. PICK upto : upto = Xml!Visited(S, last)
    OBVIOUS
  <1>8. upto = [n \in 0 .. last |->
          IF n = 0 THEN <<>>
          ELSE IF n \in S THEN Append(upto[n - 1], n) ELSE upto[n - 1]]
    BY <1>6, <1>7
  <1> HIDE DEF Is
  <1>9. upto[0] = <<>>
    BY <1>8
  <1>10. ASSUME NEW n \in 1 .. last
        PROVE upto[n] = IF n \in S THEN Append(upto[n - 1], n) ELSE upto[n - 1]
    <2>1. n \in 0 .. last /\ n # 0
      OBVIOUS
    <2> QED BY <1>8, <2>1
  <1> QED BY <1>7, <1>9, <1>10

\* The tags that are written, element by element.
LEMMA WrittenAre ==
  ASSUME NEW doc, NEW top \in Nat, Len(doc) = top
  PROVE  LET upto == Xml!Written(doc)
         IN /\ upto[0] = <<>>
            /\ \A n \in 1 .. top : upto[n]
                 = upto[n - 1] \o (Xml!EndTags(doc, doc[n].parent)[n - 1] \o Xml!StartTag(doc[n]))
  <1> DEFINE Is(f, m) ==
             f = [n \in 0 .. m |->
               IF n = 0 THEN <<>>
               ELSE f[n - 1] \o (Xml!EndTags(doc, doc[n].parent)[n - 1] \o Xml!StartTag(doc[n]))]
             P == {m \in Nat : \E f : Is(f, m)}
  <1>1. \A m \in Nat : m \in P <=> \E f : Is(f, m)
    OBVIOUS
  <1> HIDE DEF P
  <1>2. 0 \in P
    <2>1. Is([n \in 0 .. 0 |-> <<>>], 0)
      OBVIOUS
    <2>2. \E f : Is(f, 0)
      BY <2>1
    <2> QED BY <1>1, <2>2
  <1>3. ASSUME NEW m \in Nat, m \in P PROVE m + 1 \in P
    <2>1. PICK f : Is(f, m)
      BY <1>1, <1>3
    <2> DEFINE g == [n \in 0 .. m + 1 |->
            IF n <= m THEN f[n]
            ELSE f[n - 1] \o (Xml!EndTags(doc, doc[n].parent)[n - 1] \o Xml!StartTag(doc[n]))]
    <2>2. Is(g, m + 1)
      <3>1. \A n \in 0 .. m : g[n] = f[n]
        OBVIOUS
      <3>2. ASSUME NEW n \in 0 .. m + 1
            PROVE g[n] = IF n = 0 THEN <<>>
                ELSE g[n - 1] \o (Xml!EndTags(doc, doc[n].parent)[n - 1] \o Xml!StartTag(doc[n]))
        <4>1. CASE n = 0
          <5>1. 0 \in 0 .. m
            OBVIOUS
          <5>2. g[0] = f[0]
            BY ONLY <3>1, <5>1
          <5>3. f[0] = <<>>
            BY ONLY <2>1, <5>1 DEF Is
          <5> QED BY ONLY <4>1, <5>2, <5>3
        <4>2. CASE n \in 1 .. m
          <5>1. g[n] = f[n] /\ g[n - 1] = f[n - 1]
            BY <3>1, <4>2
          <5>2. n \in 0 .. m /\ n # 0
            BY <4>2
          <5> HIDE DEF g
          <5>3. f[n] = f[n - 1] \o (Xml!EndTags(doc, doc[n].parent)[n - 1] \o Xml!StartTag(doc[n]))
            BY <2>1, <5>2
          <5> HIDE DEF Is
          <5> QED BY <5>1, <5>2, <5>3
        <4>3. CASE n = m + 1
          <5>1. g[n - 1] = f[n - 1]
            BY <3>1, <4>3
          <5> QED BY <4>3, <5>1
        <4> QED BY <4>1, <4>2, <4>3
      <3> HIDE DEF g
      <3>3. g = [n \in 0 .. m + 1 |-> g[n]]
        BY DEF g
      <3> QED BY <3>2, <3>3
    <2> HIDE DEF g, Is
    <2>3. \E h : Is(h, m + 1)
      BY <2>2
    <2> QED BY <1>1, <2>3
  <1>4. top \in P
    <2>1. \A n \in 0 .. top - 1 : n \in P => n + 1 \in P
      BY <1>3
    <2>2. \A n \in 0 .. top : n \in P
      BY <1>2, <2>1, Upwards
    <2> QED BY <2>2
  <1>5. \E f : Is(f, top)
    BY <1>1, <1>4
  <1>6. Is(Xml!Written(doc), top)
    BY <1>5 DEF Xml!Written
  <1>7. PICK upto : upto = Xml!Written(doc)
    OBVIOUS
  <1>8. upto = [n \in 0 .. top |->
          IF n = 0 THEN <<>>
          ELSE upto[n - 1] \o (Xml!EndTags(doc, doc[n].parent)[n - 1] \o Xml!StartTag(doc[n]))]
    BY <1>6, <1>7
  <1> HIDE DEF Is
  <1>9. upto[0] = <<>>
    BY <1>8
  <1>10. ASSUME NEW n \in 1 .. top
        PROVE upto[n] = upto[n - 1]
            \o (Xml!EndTags(doc, doc[n].parent)[n - 1] \o Xml!StartTag(doc[n]))
    <2>1. n \in 0 .. top /\ n # 0
      OBVIOUS
    <2> QED BY <1>8, <2>1
  <1> QED BY <1>7, <1>9, <1>10

\* The document that is read, piece by piece.
LEMMA TakenAre ==
  ASSUME NEW text, NEW top \in Nat, Len(text) = top
  PROVE  LET upto == Xml!Taken(text)
         IN /\ upto[0] = [doc |-> <<>>, cur |-> 0]
            /\ \A n \in 1 .. top : upto[n] = Xml!Take(upto[n - 1], text[n])
  <1> DEFINE Is(f, m) ==
             f = [n \in 0 .. m |->
               IF n = 0 THEN [doc |-> <<>>, cur |-> 0]
               ELSE Xml!Take(f[n - 1], text[n])]
             P == {m \in Nat : \E f : Is(f, m)}
  <1>1. \A m \in Nat : m \in P <=> \E f : Is(f, m)
    OBVIOUS
  <1> HIDE DEF P
  <1>2. 0 \in P
    <2>1. Is([n \in 0 .. 0 |-> [doc |-> <<>>, cur |-> 0]], 0)
      OBVIOUS
    <2>2. \E f : Is(f, 0)
      BY <2>1
    <2> QED BY <1>1, <2>2
  <1>3. ASSUME NEW m \in Nat, m \in P PROVE m + 1 \in P
    <2>1. PICK f : Is(f, m)
      BY <1>1, <1>3
    <2> DEFINE g == [n \in 0 .. m + 1 |-> IF n <= m THEN f[n] ELSE Xml!Take(f[n - 1], text[n])]
    <2>2. Is(g, m + 1)
      <3>1. \A n \in 0 .. m : g[n] = f[n]
        OBVIOUS
      <3>2. ASSUME NEW n \in 0 .. m + 1
            PROVE g[n] = IF n = 0 THEN [doc |-> <<>>, cur |-> 0] ELSE Xml!Take(g[n - 1], text[n])
        <4>1. CASE n = 0
          BY <2>1, <3>1, <4>1
        <4>2. CASE n \in 1 .. m
          <5>1. g[n] = f[n] /\ g[n - 1] = f[n - 1]
            BY <3>1, <4>2
          <5>2. n \in 0 .. m /\ n # 0
            BY <4>2
          <5> HIDE DEF g
          <5>3. f[n] = Xml!Take(f[n - 1], text[n])
            BY <2>1, <5>2
          <5> HIDE DEF Is
          <5> QED BY <5>1, <5>2, <5>3
        <4>3. CASE n = m + 1
          <5>1. g[n - 1] = f[n - 1]
            BY <3>1, <4>3
          <5> QED BY <4>3, <5>1
        <4> QED BY <4>1, <4>2, <4>3
      <3> HIDE DEF g
      <3>3. g = [n \in 0 .. m + 1 |-> g[n]]
        BY DEF g
      <3> QED BY <3>2, <3>3
    <2> HIDE DEF g, Is
    <2>3. \E h : Is(h, m + 1)
      BY <2>2
    <2> QED BY <1>1, <2>3
  <1>4. top \in P
    <2>1. \A n \in 0 .. top - 1 : n \in P => n + 1 \in P
      BY <1>3
    <2>2. \A n \in 0 .. top : n \in P
      BY <1>2, <2>1, Upwards
    <2> QED BY <2>2
  <1>5. \E f : Is(f, top)
    BY <1>1, <1>4
  <1>6. Is(Xml!Taken(text), top)
    BY <1>5 DEF Xml!Taken
  <1>7. PICK upto : upto = Xml!Taken(text)
    OBVIOUS
  <1>8. upto = [n \in 0 .. top |->
          IF n = 0 THEN [doc |-> <<>>, cur |-> 0]
          ELSE Xml!Take(upto[n - 1], text[n])]
    BY <1>6, <1>7
  <1> HIDE DEF Is
  <1>9. upto[0] = [doc |-> <<>>, cur |-> 0]
    BY <1>8
  <1>10. ASSUME NEW n \in 1 .. top PROVE upto[n] = Xml!Take(upto[n - 1], text[n])
    <2>1. n \in 0 .. top /\ n # 0
      OBVIOUS
    <2> QED BY <1>8, <2>1
  <1> QED BY <1>7, <1>9, <1>10

\* The document of the tags, tag by tag.
LEMMA TaggedAre ==
  ASSUME NEW tags, NEW top \in Nat, Len(tags) = top
  PROVE  LET upto == Xml!Tagged(tags)
         IN /\ upto[0] = Xml!Root(<<"Tagging", "TagSet">>)
            /\ \A n \in 1 .. top : upto[n] = Xml!AddTag(upto[n - 1], tags[n])
  <1> DEFINE Is(f, m) ==
             f = [n \in 0 .. m |->
               IF n = 0 THEN Xml!Root(<<"Tagging", "TagSet">>)
               ELSE Xml!AddTag(f[n - 1], tags[n])]
             P == {m \in Nat : \E f : Is(f, m)}
  <1>1. \A m \in Nat : m \in P <=> \E f : Is(f, m)
    OBVIOUS
  <1> HIDE DEF P
  <1>2. 0 \in P
    <2>1. Is([n \in 0 .. 0 |-> Xml!Root(<<"Tagging", "TagSet">>)], 0)
      OBVIOUS
    <2>2. \E f : Is(f, 0)
      BY <2>1
    <2> QED BY <1>1, <2>2
  <1>3. ASSUME NEW m \in Nat, m \in P PROVE m + 1 \in P
    <2>1. PICK f : Is(f, m)
      BY <1>1, <1>3
    <2> DEFINE g == [n \in 0 .. m + 1 |-> IF n <= m THEN f[n] ELSE Xml!AddTag(f[n - 1], tags[n])]
    <2>2. Is(g, m + 1)
      <3>1. \A n \in 0 .. m : g[n] = f[n]
        OBVIOUS
      <3>2. ASSUME NEW n \in 0 .. m + 1
            PROVE g[n] = IF n = 0 THEN Xml!Root(<<"Tagging", "TagSet">>)
                         ELSE Xml!AddTag(g[n - 1], tags[n])
        <4>1. CASE n = 0
          BY <2>1, <3>1, <4>1
        <4>2. CASE n \in 1 .. m
          <5>1. g[n] = f[n] /\ g[n - 1] = f[n - 1]
            BY <3>1, <4>2
          <5>2. n \in 0 .. m /\ n # 0
            BY <4>2
          <5> HIDE DEF g
          <5>3. f[n] = Xml!AddTag(f[n - 1], tags[n])
            BY <2>1, <5>2
          <5> HIDE DEF Is
          <5> QED BY <5>1, <5>2, <5>3
        <4>3. CASE n = m + 1
          <5>1. g[n - 1] = f[n - 1]
            BY <3>1, <4>3
          <5> QED BY <4>3, <5>1
        <4> QED BY <4>1, <4>2, <4>3
      <3> HIDE DEF g
      <3>3. g = [n \in 0 .. m + 1 |-> g[n]]
        BY DEF g
      <3> QED BY <3>2, <3>3
    <2> HIDE DEF g, Is
    <2>3. \E h : Is(h, m + 1)
      BY <2>2
    <2> QED BY <1>1, <2>3
  <1>4. top \in P
    <2>1. \A n \in 0 .. top - 1 : n \in P => n + 1 \in P
      BY <1>3
    <2>2. \A n \in 0 .. top : n \in P
      BY <1>2, <2>1, Upwards
    <2> QED BY <2>2
  <1>5. \E f : Is(f, top)
    BY <1>1, <1>4
  <1>6. Is(Xml!Tagged(tags), top)
    BY <1>5 DEF Xml!Tagged
  <1>7. PICK upto : upto = Xml!Tagged(tags)
    OBVIOUS
  <1>8. upto = [n \in 0 .. top |->
          IF n = 0 THEN Xml!Root(<<"Tagging", "TagSet">>)
          ELSE Xml!AddTag(upto[n - 1], tags[n])]
    BY <1>6, <1>7
  <1> HIDE DEF Is
  <1>9. upto[0] = Xml!Root(<<"Tagging", "TagSet">>)
    BY <1>8
  <1>10. ASSUME NEW n \in 1 .. top PROVE upto[n] = Xml!AddTag(upto[n - 1], tags[n])
    <2>1. n \in 0 .. top /\ n # 0
      OBVIOUS
    <2> QED BY <1>8, <2>1
  <1> QED BY <1>7, <1>9, <1>10

\* The tags that are found, record by record.
LEMMA TagsInAre ==
  ASSUME NEW records, NEW top \in Nat, Len(records) = top
  PROVE  \E upto : /\ upto[0] = <<>>
                  /\ \A n \in 1 .. top : upto[n] = Xml!PutTag(upto[n - 1], records[n])
                  /\ Xml!TagsIn(records) = upto[top]
  <1> DEFINE Is(f, m) ==
             f = [n \in 0 .. m |->
               IF n = 0 THEN <<>>
               ELSE Xml!PutTag(f[n - 1], records[n])]
             P == {m \in Nat : \E f : Is(f, m)}
  <1>1. \A m \in Nat : m \in P <=> \E f : Is(f, m)
    OBVIOUS
  <1> HIDE DEF P
  <1>2. 0 \in P
    <2>1. Is([n \in 0 .. 0 |-> <<>>], 0)
      OBVIOUS
    <2>2. \E f : Is(f, 0)
      BY <2>1
    <2> QED BY <1>1, <2>2
  <1>3. ASSUME NEW m \in Nat, m \in P PROVE m + 1 \in P
    <2>1. PICK f : Is(f, m)
      BY <1>1, <1>3
    <2> DEFINE g == [n \in 0 .. m + 1 |-> IF n <= m THEN f[n] ELSE Xml!PutTag(f[n - 1], records[n])]
    <2>2. Is(g, m + 1)
      <3>1. \A n \in 0 .. m : g[n] = f[n]
        OBVIOUS
      <3>2. ASSUME NEW n \in 0 .. m + 1
            PROVE g[n] = IF n = 0 THEN <<>> ELSE Xml!PutTag(g[n - 1], records[n])
        <4>1. CASE n = 0
          BY <2>1, <3>1, <4>1
        <4>2. CASE n \in 1 .. m
          <5>1. g[n] = f[n] /\ g[n - 1] = f[n - 1]
            BY <3>1, <4>2
          <5>2. n \in 0 .. m /\ n # 0
            BY <4>2
          <5> HIDE DEF g
          <5>3. f[n] = Xml!PutTag(f[n - 1], records[n])
            BY <2>1, <5>2
          <5> HIDE DEF Is
          <5> QED BY <5>1, <5>2, <5>3
        <4>3. CASE n = m + 1
          <5>1. g[n - 1] = f[n - 1]
            BY <3>1, <4>3
          <5> QED BY <4>3, <5>1
        <4> QED BY <4>1, <4>2, <4>3
      <3> HIDE DEF g
      <3>3. g = [n \in 0 .. m + 1 |-> g[n]]
        BY DEF g
      <3> QED BY <3>2, <3>3
    <2> HIDE DEF g, Is
    <2>3. \E h : Is(h, m + 1)
      BY <2>2
    <2> QED BY <1>1, <2>3
  <1>4. top \in P
    <2>1. \A n \in 0 .. top - 1 : n \in P => n + 1 \in P
      BY <1>3
    <2>2. \A n \in 0 .. top : n \in P
      BY <1>2, <2>1, Upwards
    <2> QED BY <2>2
  <1>5. \E f : Is(f, top)
    BY <1>1, <1>4
  <1>6. PICK upto : Is(upto, top) /\ Xml!TagsIn(records) = upto[top]
    <2>1. Is(CHOOSE f : Is(f, top), top)
      BY <1>5
    <2> HIDE DEF Is
    <2> QED BY <2>1 DEF Is, Xml!TagsIn
  <1>7. upto = [n \in 0 .. top |-> IF n = 0 THEN <<>> ELSE Xml!PutTag(upto[n - 1], records[n])]
    BY <1>6
  <1> HIDE DEF Is
  <1>8. upto[0] = <<>>
    BY <1>7
  <1>9. ASSUME NEW n \in 1 .. top PROVE upto[n] = Xml!PutTag(upto[n - 1], records[n])
    <2>1. n \in 0 .. top /\ n # 0
      OBVIOUS
    <2> QED BY <1>7, <2>1
  <1> QED BY <1>6, <1>8, <1>9

\* Elements, and documents whose elements are in the order of their start tags:
\* what is between an element and the one around it is inside of that.
Elements(Str) == [name : Str, parent : Nat, text : Str]
Documents(Str) ==
  {doc \in Seq(Elements(Str)) :
     \A k \in 1 .. Len(doc) :
       /\ doc[k].parent \in 0 .. k - 1
       /\ \A m \in doc[k].parent + 1 .. k - 1 : doc[m].parent >= doc[k].parent}

\* The document before the first grant.
GrantsStart(acl) ==
  LET list  == Xml!Root(<<"accesscontrolpolicy", "accesscontrollist">>)
      owner == Xml!OptionalLeaf(
                 Xml!OptionalLeaf(Xml!Down(list, "owner"), "displayname", acl.ownerDisplayName),
                 "ownerid", IF acl.ownerID = "" THEN "" ELSE acl.ownerDisplayName)
  IN IF acl.ownerDisplayName = "" /\ acl.ownerID = "" THEN list ELSE Xml!Up(owner)

\* A row of an answer, as AnswerDoc makes it.
AnswerRow(around, shape, before, row) ==
  [j \in DOMAIN shape |->
     Xml!Element(shape[j].name,
                 IF shape[j].under = 0 THEN Len(around) ELSE before + shape[j].under,
                 row[j])]

\* A document whose last elements are rows of one shape.
Table(doc, head, around, shape, rows) ==
  \E upto : /\ upto[0] = head
            /\ \A n \in 1 .. Len(rows) :
                 upto[n] = upto[n - 1] \o AnswerRow(around, shape, Len(upto[n - 1]), rows[n])
            /\ doc = upto[Len(rows)]

\* The document of an answer, row by row.
LEMMA AnswerDocsAre ==
  ASSUME NEW around, NEW shape, NEW rows, NEW top \in Nat, Len(rows) = top
  PROVE  Table(AnswerDoc(around, shape, rows), Xml!Root(around).doc, around, shape, rows)
  <1> DEFINE Is(f, m) ==
             f = [n \in 0 .. m |->
               IF n = 0 THEN Xml!Root(around).doc
               ELSE f[n - 1] \o AnswerRow(around, shape, Len(f[n - 1]), rows[n])]
             P == {m \in Nat : \E f : Is(f, m)}
  <1>1. \A m \in Nat : m \in P <=> \E f : Is(f, m)
    OBVIOUS
  <1> HIDE DEF P
  <1>2. 0 \in P
    <2>1. Is([n \in 0 .. 0 |-> Xml!Root(around).doc], 0)
      OBVIOUS
    <2>2. \E f : Is(f, 0)
      BY <2>1
    <2> QED BY <1>1, <2>2
  <1>3. ASSUME NEW m \in Nat, m \in P PROVE m + 1 \in P
    <2>1. PICK f : Is(f, m)
      BY <1>1, <1>3
    <2> DEFINE g == [n \in 0 .. m + 1 |->
            IF n <= m THEN f[n]
            ELSE f[n - 1] \o AnswerRow(around, shape, Len(f[n - 1]), rows[n])]
    <2>2. Is(g, m + 1)
      <3>1. \A n \in 0 .. m : g[n] = f[n]
        OBVIOUS
      <3>2. ASSUME NEW n \in 0 .. m + 1
            PROVE g[n] = IF n = 0 THEN Xml!Root(around).doc
                         ELSE g[n - 1] \o AnswerRow(around, shape, Len(g[n - 1]), rows[n])
        <4>1. CASE n = 0
          BY <2>1, <3>1, <4>1
        <4>2. CASE n \in 1 .. m
          <5>1. g[n] = f[n] /\ g[n - 1] = f[n - 1]
            BY <3>1, <4>2
          <5>2. n \in 0 .. m /\ n # 0
            BY <4>2
          <5> HIDE DEF g
          <5>3. f[n] = f[n - 1] \o AnswerRow(around, shape, Len(f[n - 1]), rows[n])
            BY <2>1, <5>2
          <5> HIDE DEF Is
          <5> QED BY <5>1, <5>2, <5>3
        <4>3. CASE n = m + 1
          <5>1. g[n - 1] = f[n - 1]
            BY <3>1, <4>3
          <5> QED BY <4>3, <5>1
        <4> QED BY <4>1, <4>2, <4>3
      <3> HIDE DEF g
      <3>3. g = [n \in 0 .. m + 1 |-> g[n]]
        BY DEF g
      <3> QED BY <3>2, <3>3
    <2> HIDE DEF g, Is
    <2>3. \E h : Is(h, m + 1)
      BY <2>2
    <2> QED BY <1>1, <2>3
  <1>4. top \in P
    <2>1. \A n \in 0 .. top - 1 : n \in P => n + 1 \in P
      BY <1>3
    <2>2. \A n \in 0 .. top : n \in P
      BY <1>2, <2>1, Upwards
    <2> QED BY <2>2
  <1>5. \E f : Is(f, top)
    BY <1>1, <1>4
  <1>6. PICK upto : Is(upto, top) /\ AnswerDoc(around, shape, rows) = upto[top]
    <2>1. Is(CHOOSE f : Is(f, top), top)
      BY <1>5
    <2> HIDE DEF Is
    <2> QED BY <2>1 DEF Is, AnswerDoc, AnswerRow
  <1>7. upto = [n \in 0 .. top |->
          IF n = 0 THEN Xml!Root(around).doc
          ELSE upto[n - 1] \o AnswerRow(around, shape, Len(upto[n - 1]), rows[n])]
    BY <1>6
  <1> HIDE DEF Is
  <1>8. upto[0] = Xml!Root(around).doc
    BY <1>7
  <1>9. ASSUME NEW n \in 1 .. top
        PROVE upto[n] = upto[n - 1] \o AnswerRow(around, shape, Len(upto[n - 1]), rows[n])
    <2>1. n \in 0 .. top /\ n # 0
      OBVIOUS
    <2> QED BY <1>7, <2>1
  <1> QED BY <1>6, <1>8, <1>9 DEF Table

\* The document of the grants, grant by grant.
GrantedIn(acl, top) ==
  \E upto : /\ upto[0] = GrantsStart(acl)
            /\ \A n \in 1 .. top : upto[n] = Xml!AddGrant(upto[n - 1], acl.grants[n])
            /\ Xml!GenerateAclXML(acl) = upto[top].doc

\* GrantedIn holds of every access control list.
LEMMA GrantedAre ==
  ASSUME NEW acl, NEW top \in Nat, Len(acl.grants) = top
  PROVE  GrantedIn(acl, top)
  <1> DEFINE Is(f, m) ==
             f = [n \in 0 .. m |->
               IF n = 0 THEN GrantsStart(acl)
               ELSE Xml!AddGrant(f[n - 1], acl.grants[n])]
             P == {m \in Nat : \E f : Is(f, m)}
  <1>1. \A m \in Nat : m \in P <=> \E f : Is(f, m)
    OBVIOUS
  <1> HIDE DEF P
  <1>2. 0 \in P
    <2>1. Is([n \in 0 .. 0 |-> GrantsStart(acl)], 0)
      OBVIOUS
    <2>2. \E f : Is(f, 0)
      BY <2>1
    <2> QED BY <1>1, <2>2
  <1>3. ASSUME NEW m \in Nat, m \in P PROVE m + 1 \in P
    <2>1. PICK f : Is(f, m)
      BY <1>1, <1>3
    <2> DEFINE g == [n \in 0 .. m + 1 |->
            IF n <= m THEN f[n]
            ELSE Xml!AddGrant(f[n - 1], acl.grants[n])]
    <2>2. Is(g, m + 1)
      <3>1. \A n \in 0 .. m : g[n] = f[n]
        OBVIOUS
      <3>2. ASSUME NEW n \in 0 .. m + 1
            PROVE g[n] = IF n = 0 THEN GrantsStart(acl) ELSE Xml!AddGrant(g[n - 1], acl.grants[n])
        <4>1. CASE n = 0
          BY <2>1, <3>1, <4>1
        <4>2. CASE n \in 1 .. m
          <5>1. g[n] = f[n] /\ g[n - 1] = f[n - 1]
            BY <3>1, <4>2
          <5>2. n \in 0 .. m /\ n # 0
            BY <4>2
          <5> HIDE DEF g
          <5>3. f[n] = Xml!AddGrant(f[n - 1], acl.grants[n])
            BY <2>1, <5>2
          <5> HIDE DEF Is
          <5> QED BY <5>1, <5>2, <5>3
        <4>3. CASE n = m + 1
          <5>1. g[n - 1] = f[n - 1]
            BY <3>1, <4>3
          <5> QED BY <4>3, <5>1
        <4> QED BY <4>1, <4>2, <4>3
      <3> HIDE DEF g
      <3>3. g = [n \in 0 .. m + 1 |-> g[n]]
        BY DEF g
      <3> QED BY <3>2, <3>3
    <2> HIDE DEF g, Is
    <2>3. \E h : Is(h, m + 1)
      BY <2>2
    <2> QED BY <1>1, <2>3
  <1>4. top \in P
    <2>1. \A n \in 0 .. top - 1 : n \in P => n + 1 \in P
      BY <1>3
    <2>2. \A n \in 0 .. top : n \in P
      BY <1>2, <2>1, Upwards
    <2> QED BY <2>2
  <1>5. \E f : Is(f, top)
    BY <1>1, <1>4
  <1>6. PICK upto : Is(upto, top) /\ Xml!GenerateAclXML(acl) = upto[top].doc
    <2>1. Is(CHOOSE f : Is(f, top), top)
      BY <1>5
    <2> HIDE DEF Is
    <2> QED BY <2>1 DEF Is, Xml!GenerateAclXML, GrantsStart
  <1>7. upto = [n \in 0 .. top |->
          IF n = 0 THEN GrantsStart(acl)
          ELSE Xml!AddGrant(upto[n - 1], acl.grants[n])]
    BY <1>6
  <1> HIDE DEF Is
  <1>8. upto[0] = GrantsStart(acl)
    BY <1>7
  <1>9. ASSUME NEW n \in 1 .. top PROVE upto[n] = Xml!AddGrant(upto[n - 1], acl.grants[n])
    <2>1. n \in 0 .. top /\ n # 0
      OBVIOUS
    <2> QED BY <1>7, <2>1
  <1> QED BY <1>6, <1>8, <1>9 DEF GrantedIn

\* What comes first to every number is built on what came before; here on any
\* of what came before, as with the element around another.
EndTagsFrom(doc, around, from) ==
  /\ \A k \in 0 .. Len(doc) : k <= around => from[k] = <<>>
  /\ \A k, q \in 0 .. Len(doc) : k > around /\ q = doc[k].parent =>
       from[k] = Xml!EndTag(doc[k]) \o from[q]

\* The end tags of every element, around any other.
LEMMA EndTagsAre ==
  ASSUME NEW Str, NEW doc \in Documents(Str), NEW around \in Nat
  PROVE  EndTagsFrom(doc, around, Xml!EndTags(doc, around))
  <1>t. PICK top \in Nat : Len(doc) = top
    BY DEF Documents
  <1>p. \A k \in 1 .. top : doc[k].parent \in 0 .. k - 1
    BY <1>t DEF Documents
  <1> DEFINE Is(f, m) == f = [k \in 0 .. m |->
                                IF k <= around THEN <<>>
                                ELSE Xml!EndTag(doc[k]) \o f[doc[k].parent]]
             P == {m \in Nat : \E f : Is(f, m)}
  <1>1. \A m \in Nat : m \in P <=> \E f : Is(f, m)
    OBVIOUS
  <1> HIDE DEF P
  <1>2. 0 \in P
    <2>1. Is([k \in 0 .. 0 |-> <<>>], 0)
      OBVIOUS
    <2>2. \E f : Is(f, 0)
      BY <2>1
    <2> QED BY <1>1, <2>2
  <1>3. ASSUME NEW m \in Nat, m < top, m \in P PROVE m + 1 \in P
    <2>1. PICK f : Is(f, m)
      BY <1>1, <1>3
    <2>2. \A k \in 0 .. m : f[k] = IF k <= around THEN <<>>
                                   ELSE Xml!EndTag(doc[k]) \o f[doc[k].parent]
      BY <2>1
    <2> DEFINE g == [k \in 0 .. m + 1 |->
                       IF k <= m THEN f[k] ELSE
                       IF k <= around THEN <<>>
                       ELSE Xml!EndTag(doc[k]) \o f[doc[k].parent]]
    <2> HIDE DEF Is
    <2>3. \A k \in 0 .. m : g[k] = f[k]
      OBVIOUS
    <2>4. ASSUME NEW k \in 0 .. m + 1
          PROVE  g[k] = IF k <= around THEN <<>>
                        ELSE Xml!EndTag(doc[k]) \o g[doc[k].parent]
      <3>1. PICK p \in Nat : k > around => p = doc[k].parent /\ p < k
        BY <1>3, <1>p
      <3>2. k > around => g[p] = f[p]
        BY <2>3, <3>1
      <3>3. g[k] = IF k <= around THEN <<>> ELSE Xml!EndTag(doc[k]) \o f[p]
        <4>1. CASE k <= m
          <5>1. g[k] = f[k]
            BY <2>3, <4>1
          <5> HIDE DEF g
          <5> QED BY <2>2, <3>1, <4>1, <5>1
        <4>2. CASE k = m + 1
          BY <3>1, <4>2
        <4> QED BY <4>1, <4>2
      <3> HIDE DEF g
      <3> QED BY <3>1, <3>2, <3>3
    <2>5. g = [k \in 0 .. m + 1 |-> g[k]]
      OBVIOUS
    <2> HIDE DEF g
    <2>6. Is(g, m + 1)
      BY <2>4, <2>5 DEF Is
    <2>7. \E h : Is(h, m + 1)
      BY <2>6
    <2> QED BY <1>1, <2>7
  <1>4. top \in P
    <2>1. \A n \in 0 .. top - 1 : n \in P => n + 1 \in P
      BY <1>3
    <2>2. \A n \in 0 .. top : n \in P
      BY <1>2, <2>1, Upwards
    <2> QED BY <2>2
  <1>5. \E f : Is(f, top)
    BY <1>1, <1>4
  <1>6. Is(Xml!EndTags(doc, around), top)
    BY <1>5, <1>t DEF Xml!EndTags
  <1>7. PICK from : from = Xml!EndTags(doc, around)
    OBVIOUS
  <1>8. from = [k \in 0 .. top |-> IF k <= around THEN <<>>
                                   ELSE Xml!EndTag(doc[k]) \o from[doc[k].parent]]
    BY <1>6, <1>7
  <1> HIDE DEF Is
  <1>9. \A k \in 0 .. top : from[k] = IF k <= around THEN <<>>
                                      ELSE Xml!EndTag(doc[k]) \o from[doc[k].parent]
    BY <1>8
  <1>10. ASSUME NEW k \in 0 .. top, k <= around PROVE from[k] = <<>>
    <2>1. from[k] = IF k <= around THEN <<>> ELSE Xml!EndTag(doc[k]) \o from[doc[k].parent]
      BY <1>9, Zenon
    <2> QED BY <1>10, <2>1
  <1>11. ASSUME NEW k \in 0 .. top, NEW q \in 0 .. top, k > around, q = doc[k].parent
         PROVE  from[k] = Xml!EndTag(doc[k]) \o from[q]
    <2>1. from[k] = IF k <= around THEN <<>> ELSE Xml!EndTag(doc[k]) \o from[doc[k].parent]
      BY <1>9, Zenon
    <2>2. ~(k <= around)
      BY <1>11
    <2> QED BY <1>11, <2>1, <2>2, Zenon
  <1> QED BY <1>7, <1>10, <1>11, <1>t DEF EndTagsFrom

\* The path of an element is that of the one around it, and its name.
PathsFrom(doc, above) ==
  \A k \in 1 .. Len(doc), q \in Nat : q = doc[k].parent =>
    Xml!PathTo(doc, k, above)
      = IF k = above \/ q = 0 THEN <<Xml!ToLower(doc[k].name)>>
        ELSE Append(Xml!PathTo(doc, q, above), Xml!ToLower(doc[k].name))

\* The paths of every element, above any other.
LEMMA PathsAre ==
  ASSUME NEW Str, NEW doc \in Documents(Str), NEW above \in Nat
  PROVE  PathsFrom(doc, above)
  <1>t. PICK top \in Nat : Len(doc) = top
    BY DEF Documents
  <1>p. \A k \in 1 .. top : doc[k].parent \in 0 .. k - 1
    BY <1>t DEF Documents
  <1>d. DOMAIN doc = 1 .. top
    BY <1>t DEF Documents
  <1> DEFINE Is(f, m) == f = [k \in 1 .. m |->
                                IF k = above \/ doc[k].parent = 0
                                  THEN <<Xml!ToLower(doc[k].name)>>
                                ELSE Append(f[doc[k].parent], Xml!ToLower(doc[k].name))]
             P == {m \in Nat : \E f : Is(f, m)}
  <1>1. \A m \in Nat : m \in P <=> \E f : Is(f, m)
    OBVIOUS
  <1> HIDE DEF P
  <1>2. 0 \in P
    <2>1. Is([k \in 1 .. 0 |-> <<>>], 0)
      OBVIOUS
    <2>2. \E f : Is(f, 0)
      BY <2>1
    <2> QED BY <1>1, <2>2
  <1>3. ASSUME NEW m \in Nat, m < top, m \in P PROVE m + 1 \in P
    <2>1. PICK f : Is(f, m)
      BY <1>1, <1>3
    <2>2. \A k \in 1 .. m : f[k] = IF k = above \/ doc[k].parent = 0
                                     THEN <<Xml!ToLower(doc[k].name)>>
                                   ELSE Append(f[doc[k].parent], Xml!ToLower(doc[k].name))
      BY <2>1
    <2> DEFINE g == [k \in 1 .. m + 1 |->
                       IF k <= m THEN f[k] ELSE
                       IF k = above \/ doc[k].parent = 0 THEN <<Xml!ToLower(doc[k].name)>>
                       ELSE Append(f[doc[k].parent], Xml!ToLower(doc[k].name))]
    <2> HIDE DEF Is
    <2>3. \A k \in 1 .. m : g[k] = f[k]
      OBVIOUS
    <2>4. ASSUME NEW k \in 1 .. m + 1
          PROVE  g[k] = IF k = above \/ doc[k].parent = 0 THEN <<Xml!ToLower(doc[k].name)>>
                        ELSE Append(g[doc[k].parent], Xml!ToLower(doc[k].name))
      <3>1. PICK p \in 0 .. k - 1 : p = doc[k].parent
        BY <1>3, <1>p
      <3>2. p # 0 => g[p] = f[p]
        BY <2>3, <3>1
      <3>3. g[k] = IF k = above \/ p = 0 THEN <<Xml!ToLower(doc[k].name)>>
                   ELSE Append(f[p], Xml!ToLower(doc[k].name))
        <4>1. CASE k <= m
          <5>1. g[k] = f[k]
            BY <2>3, <4>1
          <5> HIDE DEF g
          <5> QED BY <2>2, <3>1, <4>1, <5>1
        <4>2. CASE k = m + 1
          BY <3>1, <4>2
        <4> QED BY <4>1, <4>2
      <3> HIDE DEF g
      <3> QED BY <3>1, <3>2, <3>3
    <2>5. g = [k \in 1 .. m + 1 |-> g[k]]
      OBVIOUS
    <2> HIDE DEF g
    <2>6. Is(g, m + 1)
      BY <2>4, <2>5 DEF Is
    <2>7. \E h : Is(h, m + 1)
      BY <2>6
    <2> QED BY <1>1, <2>7
  <1>4. top \in P
    <2>1. \A n \in 0 .. top - 1 : n \in P => n + 1 \in P
      BY <1>3
    <2>2. \A n \in 0 .. top : n \in P
      BY <1>2, <2>1, Upwards
    <2> QED BY <2>2
  <1>5. \E f : Is(f, top)
    BY <1>1, <1>4
  <1>6. PICK f : Is(f, top) /\ \A k : Xml!PathTo(doc, k, above) = f[k]
    <2> DEFINE Whole(h) == h = [k \in DOMAIN doc |->
                                  IF k = above \/ doc[k].parent = 0
                                    THEN <<Xml!ToLower(doc[k].name)>>
                                  ELSE Append(h[doc[k].parent], Xml!ToLower(doc[k].name))]
    <2>1. \A h : Whole(h) <=> Is(h, top)
      BY <1>d
    <2>2. \E h : Whole(h)
      <3> HIDE DEF Whole, Is
      <3> QED BY <1>5, <2>1
    <2>3. Whole(CHOOSE h : Whole(h))
      <3> HIDE DEF Whole
      <3> QED BY <2>2, Zenon
    <2>4. \A k : Xml!PathTo(doc, k, above) = (CHOOSE h : Whole(h))[k]
      BY DEF Xml!PathTo
    <2>5. PICK f : f = CHOOSE h : Whole(h)
      OBVIOUS
    <2> HIDE DEF Whole, Is
    <2> QED BY <2>1, <2>3, <2>4, <2>5
  <1>7. \A k \in 1 .. top : f[k] = IF k = above \/ doc[k].parent = 0
                                     THEN <<Xml!ToLower(doc[k].name)>>
                                   ELSE Append(f[doc[k].parent], Xml!ToLower(doc[k].name))
    BY <1>6
  <1>8. ASSUME NEW k \in 1 .. top, NEW q \in Nat, q = doc[k].parent
        PROVE  Xml!PathTo(doc, k, above)
                 = IF k = above \/ q = 0 THEN <<Xml!ToLower(doc[k].name)>>
                   ELSE Append(Xml!PathTo(doc, q, above), Xml!ToLower(doc[k].name))
    <2> HIDE DEF Is
    <2> QED BY <1>6, <1>7, <1>8
  <1> QED BY <1>8, <1>t DEF PathsFrom

-----------------------------------------------------------------------------
(* Documents that are written and read again.                              *)

\* No text.
NoText == ""
\* Pieces of a text: a kind, and a name or a text.
Pieces(Str) == {"start", "text", "end"} \X Str

\* Going up, in a stream that is a document and a place in it.
LEMMA UpIs ==
  ASSUME NEW D, NEW c
  PROVE  Xml!Up([doc |-> D, cur |-> c]) = [doc |-> D, cur |-> D[c].parent]
  BY DEF Xml!Up

\* Going down makes the element that comes next.
LEMMA DownIs ==
  ASSUME NEW D, NEW c, NEW name
  PROVE  Xml!Down([doc |-> D, cur |-> c], name)
           = [doc |-> Append(D, [name |-> name, parent |-> c, text |-> NoText]), cur |-> Len(D) + 1]
  <1>1. PICK os : os = [doc |-> D, cur |-> c]
    OBVIOUS
  <1>2. PICK e : e = [name |-> name, parent |-> c, text |-> NoText]
    OBVIOUS
  <1>3. Xml!Insert(os, name) = [doc |-> Append(D, e), cur |-> c]
    <2>1. Xml!Insert(os, name) = [os EXCEPT !.doc = Append(@, e)]
      BY <1>1, <1>2 DEF Xml!Insert, Xml!Element, NoText
    <2> QED BY <1>1, <2>1
  <1>4. Xml!Down(os, name) = [doc |-> Append(D, e), cur |-> Len(D) + 1]
    BY <1>1, <1>3 DEF Xml!Down
  <1> QED BY <1>1, <1>2, <1>4

\* What every kind of piece does to the stream.
LEMMA TakeIs ==
  ASSUME NEW os, NEW t
  PROVE  /\ Xml!Take(os, <<"start", t>>) = Xml!Down(os, t)
         /\ Xml!Take(os, <<"text", t>>) = [os EXCEPT !.doc[os.cur].text = t]
         /\ Xml!Take(os, <<"end", t>>) = Xml!Up(os)
  <1>1. Xml!Take(os, <<"start", t>>) = Xml!Down(os, t)
    BY DEF Xml!Take
  <1>2. Xml!Take(os, <<"text", t>>) = [os EXCEPT !.doc[os.cur].text = t]
    BY DEF Xml!Take
  <1>3. Xml!Take(os, <<"end", t>>) = Xml!Up(os)
    BY DEF Xml!Take
  <1> QED BY <1>1, <1>2, <1>3

\* Induction over the members of a set, from all those below.
LEMMA FromAllBelow ==
  ASSUME NEW top \in Nat, NEW P, \A k \in 0 .. top : (\A j \in 0 .. k - 1 : j \in P) => k \in P
  PROVE  \A k \in 0 .. top : k \in P
  <1> DEFINE S == {k \in 0 .. top : k \notin P}
  <1> SUFFICES ASSUME S # {} PROVE FALSE
    OBVIOUS
  <1>1. S \subseteq Nat
    OBVIOUS
  <1>2. PICK m \in S : \A k \in S : m <= k
    <2> HIDE DEF S
    <2> QED BY <1>1, LowestOf
  <1>3. \A j \in 0 .. m - 1 : j \in P
    BY <1>2
  <1> QED BY <1>3

\* End tags are those of elements of the document.
LEMMA EndTagsType ==
  ASSUME NEW Str, NEW doc \in Documents(Str), NEW around \in Nat
  PROVE  \A k \in 0 .. Len(doc) :
           Xml!EndTags(doc, around)[k] \in Seq({"end"} \X {doc[m].name : m \in 1 .. Len(doc)})
  <1>l. PICK top \in Nat : Len(doc) = top
    BY DEF Documents
  <1>1. \A k \in 1 .. top : doc[k].parent \in 0 .. k - 1
    BY <1>l DEF Documents
  <1>0. PICK from : from = Xml!EndTags(doc, around)
    OBVIOUS
  <1>e. PICK Ends : Ends = {"end"} \X {doc[m].name : m \in 1 .. top}
    OBVIOUS
  <1>2. /\ \A k \in 0 .. top : k <= around => from[k] = <<>>
        /\ \A k, q \in 0 .. top : k > around /\ q = doc[k].parent =>
             from[k] = Xml!EndTag(doc[k]) \o from[q]
    <2>1. EndTagsFrom(doc, around, from)
      BY <1>0, EndTagsAre
    <2> QED BY <1>l, <2>1 DEF EndTagsFrom
  <1>3. \A k \in 1 .. top : Xml!EndTag(doc[k]) \in Seq(Ends)
    BY <1>e DEF Xml!EndTag
  <1>4. <<>> \in Seq(Ends)
    OBVIOUS
  <1> DEFINE P == {k \in Nat : from[k] \in Seq(Ends)}
  <1>5. ASSUME NEW k \in 0 .. top, \A j \in 0 .. k - 1 : j \in P
        PROVE  k \in P
    <2>1. CASE k <= around
      <3>1. from[k] = <<>>
        BY <1>2, <2>1
      <3>2. from[k] \in Seq(Ends) /\ k \in Nat
        BY <1>4, <3>1
      <3> QED BY <3>2
    <2>2. CASE k > around
      <3>1. k \in 1 .. top
        BY <2>2
      <3>2. PICK q \in 0 .. k - 1 : q = doc[k].parent
        BY <1>1, <3>1
      <3>3. from[q] \in Seq(Ends)
        BY <1>5, <3>2
      <3>4. from[k] = Xml!EndTag(doc[k]) \o from[q]
        <4>1. k \in 0 .. top /\ q \in 0 .. top
          BY <3>1, <3>2
        <4> QED BY <1>2, <2>2, <3>2, <4>1
      <3>5. from[k] \in Seq(Ends)
        BY <1>3, <3>1, <3>3, <3>4
      <3> QED BY <3>1, <3>5
    <2> QED BY <2>1, <2>2
  <1>6. \A k \in 0 .. top : k \in P
    <2> HIDE DEF P
    <2> QED BY <1>5, FromAllBelow
  <1> QED BY <1>0, <1>e, <1>l, <1>6

\* All the elements after one are inside of it, and are the same in D.
AroundAll(doc, D, around, last) ==
  /\ \A k \in 1 .. last : D[k].parent = doc[k].parent
  /\ \A m \in around + 1 .. last : doc[m].parent >= around

\* The end tags of the elements from k up, read from text after p, take the
\* document to the element around them.
TagsTaken(doc, around, last, text, D) ==
  \A k \in around .. last, p \in Nat :
    LET tags == Xml!EndTags(doc, around)[k] IN
    /\ p + Len(tags) <= Len(text)
    /\ \A i \in 1 .. Len(tags) : text[p + i] = tags[i]
    /\ Xml!Taken(text)[p] = [doc |-> D, cur |-> k]
    => Xml!Taken(text)[p + Len(tags)] = [doc |-> D, cur |-> around]

\* Reading the end tags of an element goes to the element around it.
LEMMA EndTagsTaken ==
  ASSUME NEW Str, NEW doc \in Documents(Str), NEW around \in Nat, NEW text, NEW total \in Nat,
      Len(text) = total,
         NEW D, NEW last \in around .. Len(doc), AroundAll(doc, D, around, last)
  PROVE  TagsTaken(doc, around, last, text, D)
  <1>l. PICK top \in Nat : Len(doc) = top
    BY DEF Documents
  <1>1. \A k \in 1 .. top : doc[k].parent \in 0 .. k - 1
    BY <1>l DEF Documents
  <1>t. last \in Nat /\ last <= top /\ around <= last
    BY <1>l
  <1>0. PICK from, after : from = Xml!EndTags(doc, around) /\ after = Xml!Taken(text)
    OBVIOUS
  <1>e. PICK Ends : Ends = {"end"} \X {doc[m].name : m \in 1 .. top}
    OBVIOUS
  <1>2. /\ \A k \in 0 .. top : k <= around => from[k] = <<>>
        /\ \A k, q \in 0 .. top : k > around /\ q = doc[k].parent =>
             from[k] = Xml!EndTag(doc[k]) \o from[q]
    <2>1. EndTagsFrom(doc, around, from)
      BY <1>0, EndTagsAre
    <2> QED BY <1>l, <2>1 DEF EndTagsFrom
  <1>3. \A k \in 0 .. top : from[k] \in Seq(Ends)
    BY <1>0, <1>e, <1>l, EndTagsType
  <1>4. \A n \in 1 .. total : after[n] = Xml!Take(after[n - 1], text[n])
    BY <1>0, TakenAre
  <1> DEFINE Good(k, p) == /\ p + Len(from[k]) <= total
                           /\ \A i \in 1 .. Len(from[k]) : text[p + i] = from[k][i]
                           /\ after[p] = [doc |-> D, cur |-> k]
             Done(k) == \A p \in Nat :
                          Good(k, p) => after[p + Len(from[k])] = [doc |-> D, cur |-> around]
             P == {k \in Nat : k \in around .. last => Done(k)}
  <1> HIDE DEF Good, Done, P
  <1>5. ASSUME NEW k \in Nat, k \in around .. last, \A j \in around .. k - 1 : Done(j),
               NEW p \in Nat, Good(k, p)
        PROVE  after[p + Len(from[k])] = [doc |-> D, cur |-> around]
    <2>1. k \in 0 .. top
      BY <1>5, <1>t
    <2>2. CASE k = around
      <3>1. from[k] = <<>>
        BY <1>2, <2>1, <2>2
      <3>2. after[p] = [doc |-> D, cur |-> k]
        BY <1>5 DEF Good
      <3> QED BY <2>2, <3>1, <3>2
    <2>3. CASE k > around
      <3>1. k \in 1 .. top /\ k \in around + 1 .. last
        BY <1>5, <1>t, <2>3
      <3>2. PICK q \in around .. k - 1 : q = doc[k].parent
        <4>1. doc[k].parent >= around
          BY <3>1 DEF AroundAll
        <4> QED BY <1>1, <3>1, <4>1
      <3>3. from[q] \in Seq(Ends)
        BY <1>3, <2>1, <3>2
      <3>4. from[k] = Xml!EndTag(doc[k]) \o from[q]
        <4>1. q \in 0 .. top
          BY <2>1, <3>2
        <4> QED BY <1>2, <2>1, <2>3, <3>2, <4>1
      <3>a. PICK n \in Nat : n = Len(from[q])
        BY <3>3
      <3>5. /\ Len(from[k]) = 1 + n
            /\ from[k][1] = <<"end", doc[k].name>>
            /\ \A i \in 1 .. n : from[k][1 + i] = from[q][i]
        BY <3>3, <3>4, <3>a DEF Xml!EndTag
      <3>b. /\ p + (1 + n) <= total
            /\ \A i \in 1 .. 1 + n : text[p + i] = from[k][i]
            /\ after[p] = [doc |-> D, cur |-> k]
        BY <1>5, <3>5 DEF Good
      <3>6. text[p + 1] = <<"end", doc[k].name>> /\ p + 1 \in 1 .. total
        <4>1. 1 \in 1 .. 1 + n /\ p + 1 \in 1 .. total
          BY <3>b
        <4>2. text[p + 1] = from[k][1]
          BY <3>b, <4>1
        <4> QED BY <3>5, <4>1, <4>2
      <3>7. after[p + 1] = [doc |-> D, cur |-> q]
        <4>1. after[p + 1] = Xml!Take([doc |-> D, cur |-> k], <<"end", doc[k].name>>)
          <5>1. (p + 1) - 1 = p
            OBVIOUS
          <5>2. after[p + 1] = Xml!Take(after[(p + 1) - 1], text[p + 1])
            BY <1>4, <3>6
          <5> QED BY <3>6, <3>b, <5>1, <5>2
        <4>2. after[p + 1] = [doc |-> D, cur |-> D[k].parent]
          BY <4>1, TakeIs, UpIs
        <4>3. D[k].parent = q
          BY <1>t, <3>1, <3>2 DEF AroundAll
        <4> QED BY <4>2, <4>3
      <3>8. Good(q, p + 1)
        <4>1. ASSUME NEW i \in 1 .. n PROVE text[(p + 1) + i] = from[q][i]
          <5>1. 1 + i \in 1 .. 1 + n /\ p + (1 + i) = (p + 1) + i
            OBVIOUS
          <5>2. text[p + (1 + i)] = from[k][1 + i]
            BY <3>b, <5>1
          <5> QED BY <3>5, <5>1, <5>2
        <4>2. (p + 1) + n <= total
          BY <3>b
        <4> QED BY <3>a, <3>7, <4>1, <4>2 DEF Good
      <3>9. after[(p + 1) + n] = [doc |-> D, cur |-> around]
        <4>1. Done(q)
          BY <1>5, <3>2
        <4>2. p + 1 \in Nat
          OBVIOUS
        <4> QED BY <3>a, <3>8, <4>1, <4>2 DEF Done
      <3>10. (p + 1) + n = p + Len(from[k])
        BY <3>5
      <3> QED BY <3>9, <3>10
    <2> QED BY <1>5, <2>2, <2>3
  <1>6. ASSUME NEW k \in 0 .. last, \A j \in 0 .. k - 1 : j \in P
        PROVE  k \in P
    <2>1. \A j \in around .. k - 1 : Done(j)
      BY <1>6, <1>t DEF P
    <2>2. k \in around .. last => Done(k)
      <3> SUFFICES ASSUME k \in around .. last PROVE Done(k)
        OBVIOUS
      <3>1. k \in Nat /\ k \in around .. last
        OBVIOUS
      <3>2. \A p \in Nat : Good(k, p) => after[p + Len(from[k])] = [doc |-> D, cur |-> around]
        BY <1>5, <2>1, <3>1
      <3> QED BY <3>2 DEF Done
    <2> QED BY <1>t, <2>2 DEF P
  <1>7. \A k \in 0 .. last : k \in P
    BY <1>t, <1>6, FromAllBelow
  <1>8. ASSUME NEW k \in around .. last PROVE Done(k)
    BY <1>7, <1>t DEF P
  <1>9. ASSUME NEW k \in around .. last, NEW p \in Nat, Good(k, p)
        PROVE  after[p + Len(from[k])] = [doc |-> D, cur |-> around]
    BY <1>8, <1>9 DEF Done
  <1> QED BY <1>0, <1>9 DEF Good, TagsTaken

\* What is in a document.
LEMMA DocumentIs ==
  ASSUME NEW Str, NEW doc \in Documents(Str), NEW top \in Nat, Len(doc) = top
  PROVE  /\ doc \in Seq(Elements(Str))
         /\ \A k \in 1 .. top :
              /\ doc[k] \in Elements(Str)
              /\ doc[k] = [name |-> doc[k].name, parent |-> doc[k].parent, text |-> doc[k].text]
              /\ doc[k].name \in Str /\ doc[k].text \in Str
              /\ doc[k].parent \in Nat /\ doc[k].parent \in 0 .. k - 1
              /\ \A m \in doc[k].parent + 1 .. k - 1 : doc[m].parent >= doc[k].parent
  <1>1. doc \in Seq(Elements(Str))
    BY DEF Documents
  <1>2. \A k \in 1 .. top :
          /\ doc[k].parent \in 0 .. k - 1
          /\ \A m \in doc[k].parent + 1 .. k - 1 : doc[m].parent >= doc[k].parent
    BY DEF Documents
  <1>3. ASSUME NEW k \in 1 .. top
        PROVE  /\ doc[k] \in Elements(Str)
               /\ doc[k] = [name |-> doc[k].name, parent |-> doc[k].parent, text |-> doc[k].text]
               /\ doc[k].name \in Str /\ doc[k].text \in Str /\ doc[k].parent \in Nat
    <2>1. PICK e : e = doc[k]
      OBVIOUS
    <2>2. e \in Elements(Str)
      BY <1>1, <2>1
    <2>3. e = [name |-> e.name, parent |-> e.parent, text |-> e.text]
          /\ e.name \in Str /\ e.text \in Str /\ e.parent \in Nat
      BY ONLY <2>2 DEF Elements
    <2> QED BY <2>1, <2>2, <2>3
  <1> QED BY <1>1, <1>2, <1>3

\* The start tag of an element, and its text.
LEMMA StartTagType ==
  ASSUME NEW Str, NEW e \in Elements(Str)
  PROVE  /\ Xml!StartTag(e) \in Seq(Pieces(Str))
         /\ Xml!StartTag(e) = IF e.text = NoText THEN <<<<"start", e.name>>>>
                              ELSE <<<<"start", e.name>>, <<"text", e.text>>>>
  <1>1. e.name \in Str /\ e.text \in Str
    BY DEF Elements
  <1>2. PICK s, t : s = <<"start", e.name>> /\ t = <<"text", e.text>>
    OBVIOUS
  <1>3. s \in Pieces(Str) /\ t \in Pieces(Str)
    BY <1>1, <1>2 DEF Pieces
  <1>4. <<s>> \in Seq(Pieces(Str)) /\ <<s, t>> \in Seq(Pieces(Str))
    BY ONLY <1>3
  <1>5. Xml!StartTag(e) = IF e.text = NoText THEN <<s>> ELSE <<s, t>>
    BY <1>2 DEF Xml!StartTag, NoText
  <1> QED BY <1>2, <1>4, <1>5

\* What is in two sequences that are joined.
LEMMA TwoJoined ==
  ASSUME NEW A, NEW s \in Seq(A), NEW t \in Seq(A)
  PROVE  /\ s \o t \in Seq(A)
         /\ Len(s \o t) = Len(s) + Len(t)
         /\ \A i \in 1 .. Len(s) : (s \o t)[i] = s[i]
         /\ \A i \in 1 .. Len(t) : (s \o t)[Len(s) + i] = t[i]
  <1>1. /\ s \o t \in Seq(A) /\ Len(s) \in Nat /\ Len(t) \in Nat
        /\ Len(s \o t) = Len(s) + Len(t)
    OBVIOUS
  <1>2. \A i \in 1 .. Len(s) : (s \o t)[i] = s[i]
    OBVIOUS
  <1>3. \A i \in 1 .. Len(t) : (s \o t)[Len(s) + i] = t[i]
    OBVIOUS
  <1> QED BY <1>1, <1>2, <1>3

\* What is in three sequences that are joined.
LEMMA ThreeJoined ==
  ASSUME NEW A, NEW s \in Seq(A), NEW t \in Seq(A), NEW u \in Seq(A)
  PROVE  /\ s \o (t \o u) \in Seq(A)
         /\ Len(s \o (t \o u)) = (Len(s) + Len(t)) + Len(u)
         /\ \A i \in 1 .. Len(s) : (s \o (t \o u))[i] = s[i]
         /\ \A i \in 1 .. Len(t) : (s \o (t \o u))[Len(s) + i] = t[i]
         /\ \A i \in 1 .. Len(u) : (s \o (t \o u))[(Len(s) + Len(t)) + i] = u[i]
  <1>0. PICK p \in Nat, q \in Nat, r \in Nat : p = Len(s) /\ q = Len(t) /\ r = Len(u)
    OBVIOUS
  <1>1. PICK v : v = t \o u
    OBVIOUS
  <1>2. /\ v \in Seq(A) /\ Len(v) = q + r
        /\ \A i \in 1 .. q : v[i] = t[i]
        /\ \A i \in 1 .. r : v[q + i] = u[i]
    BY <1>0, <1>1, TwoJoined
  <1>3. PICK w : w = s \o v
    OBVIOUS
  <1>4. /\ w \in Seq(A) /\ Len(w) = p + (q + r)
        /\ \A i \in 1 .. p : w[i] = s[i]
        /\ \A i \in 1 .. q + r : w[p + i] = v[i]
    <2>1. v \in Seq(A)
      BY <1>2
    <2>2. /\ w \in Seq(A) /\ Len(w) = Len(s) + Len(v)
          /\ \A i \in 1 .. Len(s) : w[i] = s[i]
          /\ \A i \in 1 .. Len(v) : w[Len(s) + i] = v[i]
      BY ONLY s \in Seq(A), <1>3, <2>1, TwoJoined
    <2> QED BY <1>0, <1>2, <2>2
  <1>5. ASSUME NEW i \in 1 .. q PROVE w[p + i] = t[i]
    BY <1>2, <1>4
  <1>6. ASSUME NEW i \in 1 .. r PROVE w[(p + q) + i] = u[i]
    <2>1. q + i \in 1 .. q + r /\ p + (q + i) = (p + q) + i
      OBVIOUS
    <2>2. w[p + (q + i)] = v[q + i]
      BY <1>4, <2>1
    <2> QED BY <1>2, <2>1, <2>2
  <1>7. w = s \o (t \o u)
    BY ONLY <1>1, <1>3
  <1>8. Len(w) = (p + q) + r
    BY ONLY <1>4, p \in Nat, q \in Nat, r \in Nat
  <1>9. /\ w \in Seq(A) /\ Len(w) = (Len(s) + Len(t)) + Len(u)
        /\ \A i \in 1 .. Len(s) : w[i] = s[i]
        /\ \A i \in 1 .. Len(t) : w[Len(s) + i] = t[i]
        /\ \A i \in 1 .. Len(u) : w[(Len(s) + Len(t)) + i] = u[i]
    BY ONLY <1>0, <1>4, <1>5, <1>6, <1>8
  <1> QED BY ONLY <1>7, <1>9

\* What is written for an element: end tags, then its own.
LEMMA WrittenSteps ==
  ASSUME NEW Str, NEW doc \in Documents(Str), NEW top \in Nat, Len(doc) = top
  PROVE  /\ Xml!Written(doc)[0] = <<>>
         /\ \A k \in 0 .. top : Xml!Written(doc)[k] \in Seq(Pieces(Str))
         /\ \A k \in 1 .. top :
              /\ Xml!EndTags(doc, doc[k].parent)[k - 1] \in Seq(Pieces(Str))
              /\ Xml!StartTag(doc[k]) \in Seq(Pieces(Str))
              /\ Xml!Written(doc)[k]
                   = Xml!Written(doc)[k - 1]
                       \o (Xml!EndTags(doc, doc[k].parent)[k - 1] \o Xml!StartTag(doc[k]))
  <1>1. PICK w : w = Xml!Written(doc)
    OBVIOUS
  <1>2. /\ w[0] = <<>>
        /\ \A k \in 1 .. top :
             w[k] = w[k - 1] \o (Xml!EndTags(doc, doc[k].parent)[k - 1] \o Xml!StartTag(doc[k]))
    BY <1>1, WrittenAre
  <1>3. ASSUME NEW k \in 1 .. top
        PROVE  /\ Xml!EndTags(doc, doc[k].parent)[k - 1] \in Seq(Pieces(Str))
               /\ Xml!StartTag(doc[k]) \in Seq(Pieces(Str))
    <2>1. doc[k] \in Elements(Str) /\ doc[k].parent \in Nat
      BY DocumentIs
    <2>2. k - 1 \in 0 .. Len(doc)
      OBVIOUS
    <2>3. Xml!EndTags(doc, doc[k].parent)[k - 1]
            \in Seq({"end"} \X {doc[m].name : m \in 1 .. Len(doc)})
      BY <2>1, <2>2, EndTagsType
    <2>4. {"end"} \X {doc[m].name : m \in 1 .. Len(doc)} \subseteq Pieces(Str)
      <3>1. \A m \in 1 .. Len(doc) : doc[m].name \in Str
        BY DocumentIs
      <3> QED BY <3>1 DEF Pieces
    <2>5. PICK s, A : s \in Seq(A) /\ A \subseteq Pieces(Str)
                      /\ s = Xml!EndTags(doc, doc[k].parent)[k - 1]
      BY <2>3, <2>4
    <2>6. s \in Seq(Pieces(Str))
      BY ONLY <2>5
    <2> QED BY <2>1, <2>5, <2>6, StartTagType
  <1> DEFINE P == {k \in Nat : w[k] \in Seq(Pieces(Str))}
  <1>4. 0 \in P
    <2>1. w[0] \in Seq(Pieces(Str))
      BY <1>2
    <2> QED BY <2>1
  <1>5. ASSUME NEW k \in 0 .. top - 1, k \in P PROVE k + 1 \in P
    <2>1. PICK m \in 1 .. top : m = k + 1 /\ m - 1 = k
      OBVIOUS
    <2>2. PICK e, s : /\ e = Xml!EndTags(doc, doc[m].parent)[m - 1] /\ e \in Seq(Pieces(Str))
                      /\ s = Xml!StartTag(doc[m]) /\ s \in Seq(Pieces(Str))
      BY <1>3
    <2>3. w[m] = w[k] \o (e \o s)
      BY <1>2, <2>1, <2>2
    <2>4. w[m] \in Seq(Pieces(Str))
      BY <1>5, <2>2, <2>3
    <2> QED BY <2>1, <2>4
  <1>6. \A k \in 0 .. top : k \in P
    <2> HIDE DEF P
    <2> QED BY <1>4, <1>5, Upwards
  <1> QED BY <1>1, <1>2, <1>3, <1>6

\* A text is what is written for a document, and maybe more.
BeginsAs(text, doc) ==
  \A k \in 0 .. Len(doc) : /\ Len(Xml!Written(doc)[k]) <= Len(text)
                           /\ \A i \in 1 .. Len(Xml!Written(doc)[k]) :
                                text[i] = Xml!Written(doc)[k][i]

\* Once what is written for the first elements is read, they are there.
ReadSoFar(doc, text) ==
  \A k \in 0 .. Len(doc) :
    Xml!Taken(text)[Len(Xml!Written(doc)[k])] = [doc |-> [i \in 1 .. k |-> doc[i]], cur |-> k]

\* By induction over the elements: what is written so far is read so.
LEMMA WrittenIsRead ==
  ASSUME NEW Str, NEW doc \in Documents(Str), NEW top \in Nat, Len(doc) = top,
         NoText \in Str, NEW text, NEW total \in Nat, Len(text) = total, BeginsAs(text, doc)
  PROVE  ReadSoFar(doc, text)
  <1>1. PICK w, after : w = Xml!Written(doc) /\ after = Xml!Taken(text)
    OBVIOUS
  <1>2. /\ after[0] = [doc |-> <<>>, cur |-> 0]
        /\ \A n \in 1 .. total : after[n] = Xml!Take(after[n - 1], text[n])
    BY <1>1, TakenAre
  <1> DEFINE P == {k \in Nat : after[Len(w[k])] = [doc |-> [i \in 1 .. k |-> doc[i]], cur |-> k]}
  <1>3. 0 \in P
    <2>1. w[0] = <<>>
      BY <1>1, WrittenSteps
    <2>2. [i \in 1 .. 0 |-> doc[i]] = <<>>
      OBVIOUS
    <2> QED BY <1>2, <2>1, <2>2
  <1>4. ASSUME NEW m \in 0 .. top - 1, m \in P PROVE m + 1 \in P
    <2>1. PICK k \in 1 .. top : k = m + 1 /\ k - 1 = m
      OBVIOUS
    <2>2. PICK e : e = doc[k]
      OBVIOUS
    <2>3. /\ e = [name |-> e.name, parent |-> e.parent, text |-> e.text]
          /\ e.parent \in 0 .. m /\ e.parent \in Nat
          /\ \A j \in e.parent + 1 .. m : doc[j].parent >= e.parent
          /\ e \in Elements(Str) /\ e.name \in Str /\ e.text \in Str
      <3>1. /\ doc[k] \in Elements(Str)
            /\ doc[k] = [name |-> doc[k].name, parent |-> doc[k].parent, text |-> doc[k].text]
            /\ doc[k].name \in Str /\ doc[k].text \in Str
            /\ doc[k].parent \in Nat /\ doc[k].parent \in 0 .. k - 1
            /\ \A j \in doc[k].parent + 1 .. k - 1 : doc[j].parent >= doc[k].parent
        BY DocumentIs
      <3> QED BY <2>1, <2>2, <3>1
    <2>4. PICK ends, start : /\ ends = Xml!EndTags(doc, e.parent)[m] /\ ends \in Seq(Pieces(Str))
                             /\ start = Xml!StartTag(e) /\ start \in Seq(Pieces(Str))
                             /\ w[k] = w[m] \o (ends \o start) /\ w[m] \in Seq(Pieces(Str))
      <3>1. m \in 0 .. top
        OBVIOUS
      <3>2. /\ Xml!EndTags(doc, e.parent)[m] \in Seq(Pieces(Str))
            /\ Xml!StartTag(e) \in Seq(Pieces(Str))
            /\ w[k] = w[m] \o (Xml!EndTags(doc, e.parent)[m] \o Xml!StartTag(e))
            /\ w[m] \in Seq(Pieces(Str))
        <4>1. /\ \A j \in 0 .. top : w[j] \in Seq(Pieces(Str))
              /\ \A j \in 1 .. top :
                   /\ Xml!EndTags(doc, doc[j].parent)[j - 1] \in Seq(Pieces(Str))
                   /\ Xml!StartTag(doc[j]) \in Seq(Pieces(Str))
                   /\ w[j] = w[j - 1] \o (Xml!EndTags(doc, doc[j].parent)[j - 1]
                                             \o Xml!StartTag(doc[j]))
          BY <1>1, WrittenSteps
        <4> QED BY ONLY <2>1, <2>2, <3>1, <4>1, k \in 1 .. top
      <3> QED BY <3>2
    <2>5. PICK p \in Nat, q \in Nat, r \in Nat : p = Len(w[m]) /\ q = Len(ends) /\ r = Len(start)
      BY <2>4
    <2>6. /\ Len(w[k]) = (p + q) + r
          /\ \A i \in 1 .. q : w[k][p + i] = ends[i]
          /\ \A i \in 1 .. r : w[k][(p + q) + i] = start[i]
      <3>1. PICK s \in Seq(Pieces(Str)), t \in Seq(Pieces(Str)), u \in Seq(Pieces(Str)) :
              s = w[m] /\ t = ends /\ u = start
        BY <2>4
      <3>2. w[k] = s \o (t \o u)
        BY <2>4, <3>1
      <3>3. /\ Len(w[k]) = (Len(s) + Len(t)) + Len(u)
            /\ \A i \in 1 .. Len(t) : w[k][Len(s) + i] = t[i]
            /\ \A i \in 1 .. Len(u) : w[k][(Len(s) + Len(t)) + i] = u[i]
        BY ONLY s \in Seq(Pieces(Str)), t \in Seq(Pieces(Str)), u \in Seq(Pieces(Str)), <3>2,
            ThreeJoined
      <3> QED BY <2>5, <3>1, <3>3
    <2>7. /\ (p + q) + r <= total
          /\ \A i \in 1 .. q : text[p + i] = ends[i]
          /\ \A i \in 1 .. r : text[(p + q) + i] = start[i]
      <3>1. (p + q) + r <= total /\ \A i \in 1 .. (p + q) + r : text[i] = w[k][i]
        BY <1>1, <2>1, <2>6 DEF BeginsAs
      <3>2. ASSUME NEW i \in 1 .. q PROVE text[p + i] = ends[i]
        BY <2>6, <3>1
      <3>3. ASSUME NEW i \in 1 .. r PROVE text[(p + q) + i] = start[i]
        BY <2>6, <3>1
      <3> QED BY <3>1, <3>2, <3>3
    <2>8. PICK D : D = [i \in 1 .. m |-> doc[i]]
      OBVIOUS
    <2>9. after[p] = [doc |-> D, cur |-> m]
      BY <1>4, <2>5, <2>8
    <2>10. after[p + q] = [doc |-> D, cur |-> e.parent]
      <3>1. AroundAll(doc, D, e.parent, m)
        BY <2>3, <2>8 DEF AroundAll
      <3>2. m \in e.parent .. Len(doc) /\ m \in e.parent .. m
        BY <2>3
      <3>3. /\ p + Len(ends) <= total
            /\ \A i \in 1 .. Len(ends) : text[p + i] = ends[i]
        <4>1. q = Len(ends)
          BY <2>5
        <4>2. (p + q) + r <= total /\ \A i \in 1 .. q : text[p + i] = ends[i]
          BY <2>7
        <4>3. p + q <= total
          BY ONLY <4>2, p \in Nat, q \in Nat, r \in Nat, total \in Nat
        <4> QED BY ONLY <4>1, <4>2, <4>3
      <3>4. after[p + Len(ends)] = [doc |-> D, cur |-> e.parent]
        <4>1. Xml!Taken(text)[p + Len(Xml!EndTags(doc, e.parent)[m])]
            = [doc |-> D, cur |-> e.parent]
          <5>1. /\ e.parent \in Nat /\ m \in e.parent .. Len(doc) /\ m \in e.parent .. m
                /\ p + Len(Xml!EndTags(doc, e.parent)[m]) <= total
                /\ \A i \in 1 .. Len(Xml!EndTags(doc, e.parent)[m]) :
                     text[p + i] = Xml!EndTags(doc, e.parent)[m][i]
                /\ Xml!Taken(text)[p] = [doc |-> D, cur |-> m]
            BY <1>1, <2>3, <2>4, <2>9, <3>2, <3>3
          <5>2. TagsTaken(doc, e.parent, m, text, D)
            BY <3>1, <5>1, EndTagsTaken
          <5> QED BY <5>1, <5>2 DEF TagsTaken
        <4> QED BY <1>1, <2>4, <4>1
      <3> QED BY <2>5, <3>4
    <2>11. PICK f : f = [name |-> e.name, parent |-> e.parent, text |-> NoText]
      OBVIOUS
    <2>12. /\ D \in Seq(Elements(Str)) /\ Len(D) = m
           /\ Append(D, f) = [i \in 1 .. k |-> IF i = k THEN f ELSE doc[i]]
      <3>1. D \in Seq(Elements(Str)) /\ Len(D) = m /\ m \in Nat
        <4>1. \A i \in 1 .. m : doc[i] \in Elements(Str)
          BY DocumentIs
        <4>2. D \in [1 .. m -> Elements(Str)]
          BY <2>8, <4>1
        <4> QED BY <4>2
      <3>2. f \in Elements(Str)
        <4>1. e.name \in Str /\ e.parent \in Nat
          BY <2>3
        <4> QED BY ONLY NoText \in Str, <2>11, <4>1 DEF Elements
      <3>3. Append(D, f) = [i \in 1 .. m + 1 |-> IF i = m + 1 THEN f ELSE D[i]]
        <4>1. PICK A : A = Append(D, f)
          OBVIOUS
        <4>2. /\ A \in Seq(Elements(Str)) /\ Len(A) = m + 1 /\ A[m + 1] = f
              /\ \A i \in 1 .. m : A[i] = D[i]
          BY ONLY <3>1, <3>2, <4>1
        <4>3. A = [i \in 1 .. m + 1 |-> A[i]]
          BY ONLY <3>1, <4>2
        <4>4. ASSUME NEW i \in 1 .. m + 1 PROVE A[i] = IF i = m + 1 THEN f ELSE D[i]
          <5>1. CASE i = m + 1
            BY <4>2, <5>1
          <5>2. CASE i \in 1 .. m
            BY <4>2, <5>2
          <5> QED BY <5>1, <5>2
        <4> QED BY <4>1, <4>3, <4>4
      <3> QED BY <2>1, <2>8, <3>1, <3>3
    <2>13. r >= 1 /\ start[1] = <<"start", e.name>>
           /\ (e.text = NoText => r = 1)
           /\ (e.text # NoText => r = 2 /\ start[2] = <<"text", e.text>>)
      <3>1. start = IF e.text = NoText THEN <<<<"start", e.name>>>>
                    ELSE <<<<"start", e.name>>, <<"text", e.text>>>>
        BY <2>3, <2>4, StartTagType
      <3>2. CASE e.text = NoText
        BY <2>5, <3>1, <3>2
      <3>3. CASE e.text # NoText
        BY <2>5, <3>1, <3>3
      <3> QED BY <3>2, <3>3
    <2>14. after[(p + q) + 1] = [doc |-> Append(D, f), cur |-> k]
      <3>1. (p + q) + 1 \in 1 .. total /\ ((p + q) + 1) - 1 = p + q
            /\ text[(p + q) + 1] = <<"start", e.name>>
        BY <2>7, <2>13
      <3>2. after[(p + q) + 1] = Xml!Take([doc |-> D, cur |-> e.parent], <<"start", e.name>>)
        BY <1>2, <2>10, <3>1
      <3>3. after[(p + q) + 1] = Xml!Down([doc |-> D, cur |-> e.parent], e.name)
        BY <3>2, TakeIs
      <3>4. after[(p + q) + 1] = [doc |-> Append(D, f), cur |-> Len(D) + 1]
        BY <2>11, <3>3, DownIs
      <3> QED BY <2>1, <2>12, <3>4
    <2>15. PICK G : G = [i \in 1 .. k |-> doc[i]]
      OBVIOUS
    <2>16. after[(p + q) + r] = [doc |-> G, cur |-> k]
      <3>1. CASE e.text = NoText
        <4>1. f = e
          BY <2>3, <2>11, <3>1
        <4>2. Append(D, f) = G
          BY <2>2, <2>12, <2>15, <4>1
        <4> QED BY <2>13, <2>14, <3>1, <4>2
      <3>2. CASE e.text # NoText
        <4>1. (p + q) + 2 \in 1 .. total /\ ((p + q) + 2) - 1 = (p + q) + 1
              /\ text[(p + q) + 2] = <<"text", e.text>>
          BY <2>7, <2>13, <3>2
        <4>2. PICK A : A = Append(D, f)
          OBVIOUS
        <4>3. after[(p + q) + 2]
                = [[doc |-> A, cur |-> k] EXCEPT !.doc[[doc |-> A, cur |-> k].cur].text = e.text]
          <5>1. after[(p + q) + 2] = Xml!Take(after[((p + q) + 2) - 1], text[(p + q) + 2])
            BY <1>2, <4>1
          <5>2. after[(p + q) + 2] = Xml!Take([doc |-> A, cur |-> k], <<"text", e.text>>)
            BY <2>14, <4>1, <4>2, <5>1
          <5> QED BY <5>2, TakeIs
        <4>4. after[(p + q) + 2] = [doc |-> [A EXCEPT ![k].text = e.text], cur |-> k]
          BY <4>3
        <4>5. A = [i \in 1 .. k |-> IF i = k THEN f ELSE doc[i]]
          BY <2>12, <4>2
        <4>6. [f EXCEPT !.text = e.text] = e
          BY <2>3, <2>11
        <4>7. [A EXCEPT ![k].text = e.text] = G
          BY <2>1, <2>2, <2>15, <4>5, <4>6
        <4> QED BY <2>13, <3>2, <4>4, <4>7
      <3> QED BY <3>1, <3>2
    <2> QED BY <2>1, <2>6, <2>15, <2>16
  <1>5. \A k \in 0 .. top : k \in P
    <2> HIDE DEF P
    <2> QED BY <1>3, <1>4, Upwards
  <1> QED BY <1>1, <1>5 DEF ReadSoFar

\* A text is what is written for the whole document.
IsWhole(Str, doc, text) ==
  /\ text \in Seq(Pieces(Str))
  /\ BeginsAs(text, doc)
  /\ Len(text) = Len(Xml!Written(doc)[Len(doc)]) + Len(Xml!EndTags(doc, 0)[Len(doc)])
  /\ \A i \in 1 .. Len(Xml!EndTags(doc, 0)[Len(doc)]) :
       text[Len(Xml!Written(doc)[Len(doc)]) + i] = Xml!EndTags(doc, 0)[Len(doc)][i]

\* None of its pieces would have to be escaped.
Unmarked(s) == \A n \in 1 .. Len(s) : s[n][2] \notin Xml!Marked

\* What is written for a document begins with what is written for its first
\* elements, and ends with the end tags.
LEMMA TextBegins ==
  ASSUME NEW Str, NEW doc \in Documents(Str)
  PROVE  IsWhole(Str, doc, Xml!XMLText(doc))
  <1>n. PICK top \in Nat : Len(doc) = top
    BY DEF Documents
  <1>0. PICK text : Len(doc) = top /\ text = Xml!XMLText(doc)
    BY <1>n
  <1>1. PICK w : w = Xml!Written(doc)
    OBVIOUS
  <1>2. PICK ends : ends = Xml!EndTags(doc, 0)[top]
    OBVIOUS
  <1>3. /\ \A k \in 0 .. top : w[k] \in Seq(Pieces(Str))
        /\ \A k \in 1 .. top :
             /\ Xml!EndTags(doc, doc[k].parent)[k - 1] \in Seq(Pieces(Str))
             /\ Xml!StartTag(doc[k]) \in Seq(Pieces(Str))
             /\ w[k] = w[k - 1]
                         \o (Xml!EndTags(doc, doc[k].parent)[k - 1] \o Xml!StartTag(doc[k]))
    BY <1>0, <1>1, WrittenSteps
  <1>4. ends \in Seq({"end"} \X {doc[m].name : m \in 1 .. top})
    <2>1. 0 \in Nat /\ top \in 0 .. Len(doc)
      BY <1>0
    <2> QED BY <1>0, <1>2, <2>1, EndTagsType
  <1>5. ends \in Seq(Pieces(Str))
    <2>1. \A m \in 1 .. top : doc[m].name \in Str
      BY <1>0, DocumentIs
    <2>2. PICK A : A = {"end"} \X {doc[m].name : m \in 1 .. top}
      OBVIOUS
    <2>3. A \subseteq Pieces(Str)
      BY <2>1, <2>2 DEF Pieces
    <2>4. ends \in Seq(A)
      BY <1>4, <2>2
    <2> QED BY ONLY <2>3, <2>4
  <1>6. w[top] \in Seq(Pieces(Str)) /\ text = w[top] \o ends
    BY <1>0, <1>1, <1>2, <1>3 DEF Xml!XMLText
  <1>7. /\ text \in Seq(Pieces(Str))
        /\ Len(text) = Len(w[top]) + Len(ends)
        /\ \A i \in 1 .. Len(w[top]) : text[i] = w[top][i]
        /\ \A i \in 1 .. Len(ends) : text[Len(w[top]) + i] = ends[i]
    BY ONLY <1>5, <1>6, TwoJoined
  <1> DEFINE P == {n \in Nat : n <= top =>
                     /\ Len(w[top - n]) <= Len(text)
                     /\ \A i \in 1 .. Len(w[top - n]) : text[i] = w[top - n][i]}
  <1>8. 0 \in P
    <2>1. top - 0 = top /\ Len(w[top]) \in Nat /\ Len(ends) \in Nat
      BY <1>5, <1>6
    <2> QED BY <1>7, <2>1
  <1>9. ASSUME NEW n \in 0 .. top - 1, n \in P PROVE n + 1 \in P
    <2>1. PICK k \in 1 .. top : k = top - n /\ k - 1 = top - (n + 1)
      OBVIOUS
    <2>2. PICK s, t, u : /\ s = w[k - 1] /\ t = Xml!EndTags(doc, doc[k].parent)[k - 1]
                         /\ u = Xml!StartTag(doc[k])
      OBVIOUS
    <2>3. /\ s \in Seq(Pieces(Str)) /\ t \in Seq(Pieces(Str)) /\ u \in Seq(Pieces(Str))
          /\ w[k] = s \o (t \o u)
      <3>1. k - 1 \in 0 .. top
        OBVIOUS
      <3> QED BY <1>3, <2>2, <3>1
    <2>4. /\ Len(w[k]) = (Len(s) + Len(t)) + Len(u)
          /\ \A i \in 1 .. Len(s) : w[k][i] = s[i]
      BY ONLY <2>3, ThreeJoined
    <2>5. Len(s) \in Nat /\ Len(t) \in Nat /\ Len(u) \in Nat
      BY <2>3
    <2>6. Len(w[k]) <= Len(text) /\ \A i \in 1 .. Len(w[k]) : text[i] = w[k][i]
      BY <1>9, <2>1
    <2>7. Len(text) \in Nat
      BY <1>7
    <2>8. Len(s) <= Len(text) /\ \A i \in 1 .. Len(s) : text[i] = s[i]
      BY <2>4, <2>5, <2>6, <2>7
    <2> QED BY <2>1, <2>2, <2>8
  <1>10. \A n \in 0 .. top : n \in P
    <2> HIDE DEF P
    <2> QED BY <1>8, <1>9, Upwards
  <1>11. ASSUME NEW k \in 0 .. top
         PROVE  Len(w[k]) <= Len(text) /\ \A i \in 1 .. Len(w[k]) : text[i] = w[k][i]
    <2>1. PICK n \in 0 .. top : k = top - n
      <3>1. top - k \in 0 .. top /\ k = top - (top - k)
        OBVIOUS
      <3> QED BY <3>1
    <2> QED BY <1>10, <2>1
  <1>12. BeginsAs(text, doc)
    BY <1>0, <1>1, <1>11 DEF BeginsAs
  <1> QED BY <1>0, <1>1, <1>2, <1>7, <1>12 DEF IsWhole

(* A document that is written as a text and read again is the same         *)
(* (xml_path.cpp: ToTextVisitor, XMLDocument::Parse).                      *)
THEOREM WrittenDocumentsAreRead ==
  ASSUME NEW Str, NoText \in Str, NEW doc \in Documents(Str)
  PROVE  Xml!Parse(Xml!XMLText(doc)).doc = doc
  <1>1. PICK top \in Nat : Len(doc) = top
    BY DEF Documents
  <1>2. PICK text : text = Xml!XMLText(doc)
    OBVIOUS
  <1>3. PICK w, ends : w = Xml!Written(doc)[top] /\ ends = Xml!EndTags(doc, 0)[top]
    OBVIOUS
  <1>4. /\ text \in Seq(Pieces(Str)) /\ BeginsAs(text, doc)
        /\ Len(text) = Len(w) + Len(ends)
        /\ \A i \in 1 .. Len(ends) : text[Len(w) + i] = ends[i]
    <2>1. IsWhole(Str, doc, text)
      BY <1>2, TextBegins
    <2> QED BY <1>1, <1>3, <2>1 DEF IsWhole
  <1>5. PICK total \in Nat : Len(text) = total
    BY <1>4
  <1>6. PICK D : D = [i \in 1 .. top |-> doc[i]]
    OBVIOUS
  <1>7. D = doc
    BY <1>1, <1>6 DEF Documents
  <1>8. Xml!Taken(text)[Len(w)] = [doc |-> D, cur |-> top]
    <2>1. ReadSoFar(doc, text)
      BY <1>1, <1>4, <1>5, WrittenIsRead
    <2>2. top \in 0 .. top
      OBVIOUS
    <2> QED BY <1>1, <1>3, <1>6, <2>1, <2>2 DEF ReadSoFar
  <1>9. Xml!Taken(text)[Len(w) + Len(ends)] = [doc |-> D, cur |-> 0]
    <2>1. Len(w) \in Nat
      <3>1. top \in 0 .. top
        OBVIOUS
      <3> QED BY <1>1, <1>3, <3>1, WrittenSteps
    <2>2. AroundAll(doc, D, 0, top)
      <3>1. \A k \in 1 .. top : doc[k].parent \in Nat
        BY <1>1, DocumentIs
      <3> QED BY <1>7, <3>1 DEF AroundAll
    <2>3. top \in 0 .. Len(doc) /\ top \in 0 .. top /\ 0 \in Nat
      BY <1>1
    <2>4. TagsTaken(doc, 0, top, text, D)
      BY <1>5, <2>2, <2>3, EndTagsTaken
    <2>5. Len(w) + Len(ends) <= Len(text)
      BY <1>4, <1>5
    <2> QED BY <1>3, <1>4, <1>8, <2>1, <2>3, <2>4, <2>5 DEF TagsTaken
  <1>10. Xml!Parse(text).doc = D
    BY <1>4, <1>9 DEF Xml!Parse
  <1> QED BY <1>2, <1>7, <1>10

\* A text is refused exactly when one of the texts would have to be escaped.
LEMMA RefusedIfMarked ==
  ASSUME NEW Str, NEW doc \in Documents(Str), NEW top \in Nat, Len(doc) = top,
         NoText \notin Xml!Marked, \A k \in 1 .. top : doc[k].name \notin Xml!Marked
  PROVE  Xml!Parse(Xml!XMLText(doc)).ok = \A k \in 1 .. top : doc[k].text \notin Xml!Marked
  <1>1. PICK text, w : text = Xml!XMLText(doc) /\ w = Xml!Written(doc)
    OBVIOUS
  <1>2. /\ text \in Seq(Pieces(Str)) /\ BeginsAs(text, doc)
        /\ Len(text) = Len(w[top]) + Len(Xml!EndTags(doc, 0)[top])
        /\ \A i \in 1 .. Len(Xml!EndTags(doc, 0)[top]) :
             text[Len(w[top]) + i] = Xml!EndTags(doc, 0)[top][i]
    <2>1. IsWhole(Str, doc, text)
      BY <1>1, TextBegins
    <2> QED BY <1>1, <2>1 DEF IsWhole
  <1>3. Xml!Parse(text).ok = Unmarked(text)
    <2>1. DOMAIN text = 1 .. Len(text)
      BY <1>2
    <2> QED BY <2>1 DEF Xml!Parse, Unmarked
  <1>4. ASSUME NEW around \in Nat, NEW k \in 0 .. top
        PROVE  Unmarked(Xml!EndTags(doc, around)[k])
    <2>1. PICK A, s : A = {"end"} \X {doc[m].name : m \in 1 .. top} /\ s
        = Xml!EndTags(doc, around)[k]
      OBVIOUS
    <2>2. s \in Seq(A)
      BY <2>1, EndTagsType
    <2>3. \A p \in A : p[2] \notin Xml!Marked
      BY <2>1
    <2>4. \A n \in 1 .. Len(s) : s[n] \in A
      BY <2>2
    <2> QED BY <2>1, <2>3, <2>4 DEF Unmarked
  <1>5. ASSUME NEW k \in 1 .. top
        PROVE  Unmarked(Xml!StartTag(doc[k])) <=> doc[k].text \notin Xml!Marked
    <2>1. PICK e : e = doc[k] /\ e \in Elements(Str) /\ e.name \notin Xml!Marked
      BY DocumentIs
    <2>2. CASE e.text = NoText
      <3>1. Xml!StartTag(e) = <<<<"start", e.name>>>>
        BY <2>1, <2>2, StartTagType
      <3> QED BY <2>1, <2>2, <3>1 DEF Unmarked
    <2>3. CASE e.text # NoText
      <3>1. PICK s, t : s = <<"start", e.name>> /\ t = <<"text", e.text>>
        OBVIOUS
      <3>2. Xml!StartTag(e) = <<s, t>>
        BY <2>1, <2>3, <3>1, StartTagType
      <3>3. s[2] = e.name /\ t[2] = e.text
        BY <3>1
      <3> QED BY <2>1, <2>3, <3>2, <3>3 DEF Unmarked
    <2> QED BY <2>2, <2>3
  <1> DEFINE P == {k \in Nat : Unmarked(w[k]) <=> \A m \in 1 .. k : doc[m].text \notin Xml!Marked}
  <1>6. 0 \in P
    <2>1. w[0] = <<>>
      BY <1>1, WrittenSteps
    <2> QED BY <2>1 DEF Unmarked
  <1>7. ASSUME NEW m \in 0 .. top - 1, m \in P PROVE m + 1 \in P
    <2>1. PICK k \in 1 .. top : k = m + 1 /\ m = k - 1
      OBVIOUS
    <2>2. PICK s, t, u : /\ s = w[k - 1] /\ t = Xml!EndTags(doc, doc[k].parent)[k - 1]
                         /\ u = Xml!StartTag(doc[k])
      OBVIOUS
    <2>3. /\ s \in Seq(Pieces(Str)) /\ t \in Seq(Pieces(Str)) /\ u \in Seq(Pieces(Str))
          /\ w[k] = s \o (t \o u)
      <3>1. k - 1 \in 0 .. top
        OBVIOUS
      <3> QED BY <1>1, <2>2, <3>1, WrittenSteps
    <2>4. /\ Len(w[k]) = (Len(s) + Len(t)) + Len(u)
          /\ \A i \in 1 .. Len(s) : w[k][i] = s[i]
          /\ \A i \in 1 .. Len(t) : w[k][Len(s) + i] = t[i]
          /\ \A i \in 1 .. Len(u) : w[k][(Len(s) + Len(t)) + i] = u[i]
      BY ONLY <2>3, ThreeJoined
    <2>5. PICK p \in Nat, q \in Nat, r \in Nat : p = Len(s) /\ q = Len(t) /\ r = Len(u)
      BY <2>3
    <2>6. Unmarked(t)
      <3>1. k - 1 \in 0 .. top
        OBVIOUS
      <3>2. doc[k].parent \in Nat
        BY DocumentIs
      <3> QED BY <1>4, <2>2, <3>1, <3>2
    <2>7. Unmarked(w[k]) <=> Unmarked(s) /\ Unmarked(u)
      <3>1. Len(w[k]) = (p + q) + r
        BY <2>4, <2>5
      <3>2. ASSUME Unmarked(w[k]) PROVE Unmarked(s) /\ Unmarked(u)
        <4>1. ASSUME NEW i \in 1 .. p PROVE s[i][2] \notin Xml!Marked
          <5>1. i \in 1 .. (p + q) + r
            OBVIOUS
          <5>2. w[k][i][2] \notin Xml!Marked
            BY <3>1, <3>2, <5>1 DEF Unmarked
          <5> QED BY <2>4, <2>5, <5>2
        <4>2. ASSUME NEW i \in 1 .. r PROVE u[i][2] \notin Xml!Marked
          <5>1. (p + q) + i \in 1 .. (p + q) + r
            OBVIOUS
          <5>2. w[k][(p + q) + i][2] \notin Xml!Marked
            BY <3>1, <3>2, <5>1 DEF Unmarked
          <5> QED BY <2>4, <2>5, <5>2
        <4> QED BY <2>5, <4>1, <4>2 DEF Unmarked
      <3>3. ASSUME Unmarked(s), Unmarked(u) PROVE Unmarked(w[k])
        <4>1. ASSUME NEW i \in 1 .. (p + q) + r PROVE w[k][i][2] \notin Xml!Marked
          <5>1. CASE i <= p
            BY <2>4, <2>5, <3>3, <5>1 DEF Unmarked
          <5>2. CASE i > p /\ i <= p + q
            <6>1. PICK j \in 1 .. q : i = p + j
              <7>1. i - p \in 1 .. q /\ i = p + (i - p)
                BY <5>2
              <7> QED BY <7>1
            <6> QED BY <2>4, <2>5, <2>6, <6>1 DEF Unmarked
          <5>3. CASE i > p + q
            <6>1. PICK j \in 1 .. r : i = (p + q) + j
              <7>1. i - (p + q) \in 1 .. r /\ i = (p + q) + (i - (p + q))
                BY <5>3
              <7> QED BY <7>1
            <6> QED BY <2>4, <2>5, <3>3, <6>1 DEF Unmarked
          <5> QED BY <5>1, <5>2, <5>3
        <4> QED BY <3>1, <4>1 DEF Unmarked
      <3> QED BY <3>2, <3>3
    <2>8. Unmarked(s) <=> \A j \in 1 .. m : doc[j].text \notin Xml!Marked
      BY <1>7, <2>1, <2>2
    <2>9. Unmarked(u) <=> doc[k].text \notin Xml!Marked
      <3> QED BY <1>5, <2>2
    <2>10. (\A j \in 1 .. m + 1 : doc[j].text \notin Xml!Marked)
             <=> (\A j \in 1 .. m : doc[j].text \notin Xml!Marked) /\ doc[k].text \notin Xml!Marked
      BY <2>1
    <2>11. Unmarked(w[m + 1]) <=> \A j \in 1 .. m + 1 : doc[j].text \notin Xml!Marked
      <3> QED BY <2>1, <2>7, <2>8, <2>9, <2>10
    <2> QED BY <2>11
  <1>8. top \in P
    <2>1. \A k \in 0 .. top : k \in P
      <3> HIDE DEF P
      <3> QED BY <1>6, <1>7, Upwards
    <2> HIDE DEF P
    <2> QED BY <2>1
  <1>9. Unmarked(text) <=> Unmarked(w[top])
    <2>1. PICK ends : ends = Xml!EndTags(doc, 0)[top]
      OBVIOUS
    <2>2. Unmarked(ends)
      <3>1. 0 \in Nat /\ top \in 0 .. top
        OBVIOUS
      <3> QED BY <1>4, <2>1, <3>1
    <2>3. PICK p \in Nat, q \in Nat : p = Len(w[top]) /\ q = Len(ends)
      <3>1. top \in 0 .. top /\ top \in 0 .. Len(doc) /\ 0 \in Nat
        OBVIOUS
      <3>2. Len(w[top]) \in Nat
        BY <1>1, <3>1, WrittenSteps
      <3>3. Len(ends) \in Nat
        BY <2>1, <3>1, EndTagsType
      <3> QED BY <3>2, <3>3
    <2>4. /\ Len(text) = p + q
          /\ \A i \in 1 .. p : text[i] = w[top][i]
          /\ \A i \in 1 .. q : text[p + i] = ends[i]
      <3>1. top \in 0 .. Len(doc)
        OBVIOUS
      <3>2. \A i \in 1 .. Len(w[top]) : text[i] = w[top][i]
        BY <1>1, <1>2, <3>1 DEF BeginsAs
      <3> QED BY <1>2, <2>1, <2>3, <3>2
    <2>5. ASSUME Unmarked(w[top]) PROVE Unmarked(text)
      <3>1. ASSUME NEW i \in 1 .. p + q PROVE text[i][2] \notin Xml!Marked
        <4>1. CASE i <= p
          BY <2>3, <2>4, <2>5, <4>1 DEF Unmarked
        <4>2. CASE i > p
          <5>1. PICK j \in 1 .. q : i = p + j
            <6>1. i - p \in 1 .. q /\ i = p + (i - p)
              BY <4>2
            <6> QED BY <6>1
          <5> QED BY <2>2, <2>3, <2>4, <5>1 DEF Unmarked
        <4> QED BY <4>1, <4>2
      <3> QED BY <2>4, <3>1 DEF Unmarked
    <2>6. ASSUME Unmarked(text) PROVE Unmarked(w[top])
      <3>1. ASSUME NEW i \in 1 .. p PROVE w[top][i][2] \notin Xml!Marked
        <4>1. i \in 1 .. p + q
          OBVIOUS
        <4>2. text[i][2] \notin Xml!Marked
          BY <2>4, <2>6, <4>1 DEF Unmarked
        <4> QED BY <2>4, <4>2
      <3> QED BY <2>3, <3>1 DEF Unmarked
    <2> QED BY <2>5, <2>6
  <1>10. Unmarked(text) <=> \A k \in 1 .. top : doc[k].text \notin Xml!Marked
    <2> QED BY <1>8, <1>9
  <1>11. Unmarked(text) = \A k \in 1 .. top : doc[k].text \notin Xml!Marked
    BY <1>10 DEF Unmarked
  <1>12. Xml!Parse(text).ok = \A k \in 1 .. top : doc[k].text \notin Xml!Marked
    BY <1>3, <1>11
  <1> QED BY <1>1, <1>12

-----------------------------------------------------------------------------
(* Tables: a document whose last elements are rows of one shape.           *)

\* Numbers that grow are visited in their order.
Ascending(g, N, last) ==
  /\ \A n \in 1 .. N : g[n] \in 1 .. last
  /\ \A m, n \in 1 .. N : m < n => g[m] < g[n]

\* A set is visited in the order of its members.
LEMMA InOrderIs ==
  ASSUME NEW doc, NEW last \in Nat, Len(doc) = last, NEW N \in Nat, NEW g, Ascending(g, N, last),
         NEW S, S = {g[n] : n \in 1 .. N}
  PROVE  Xml!InOrder(doc, S) = [n \in 1 .. N |-> g[n]]
  <1>1. PICK upto : upto = Xml!Visited(S, last)
    OBVIOUS
  <1>2. /\ upto[0] = <<>>
        /\ \A k \in 1 .. last : upto[k] = IF k \in S THEN Append(upto[k - 1], k) ELSE upto[k - 1]
    BY <1>1, VisitedAre
  <1>3. /\ \A n \in 1 .. N : g[n] \in 1 .. last
        /\ \A m, n \in 1 .. N : m < n => g[m] < g[n]
    BY DEF Ascending
  <1> DEFINE CutAt(m, k) == /\ \A n \in 1 .. m : g[n] <= k
                          /\ \A n \in m + 1 .. N : g[n] > k
             P == {k \in Nat : \A m \in 0 .. N : CutAt(m, k) => upto[k] = [n \in 1 .. m |-> g[n]]}
  <1>4. 0 \in P
    <2>1. ASSUME NEW m \in 0 .. N, CutAt(m, 0) PROVE upto[0] = [n \in 1 .. m |-> g[n]]
      <3>1. m = 0
        <4>1. m > 0 => m \in 1 .. m /\ m \in 1 .. N
          OBVIOUS
        <4> QED BY <1>3, <2>1, <4>1
      <3>2. [n \in 1 .. 0 |-> g[n]] = <<>>
        OBVIOUS
      <3> QED BY <1>2, <3>1, <3>2
    <2> QED BY <2>1
  <1>5. ASSUME NEW j \in 0 .. last - 1, j \in P PROVE j + 1 \in P
    <2>1. PICK k \in 1 .. last : k = j + 1 /\ j = k - 1
      OBVIOUS
    <2>2. ASSUME NEW m \in 0 .. N, CutAt(m, k) PROVE upto[k] = [n \in 1 .. m |-> g[n]]
      <3>1. CASE k \in S
        <4>1. PICK i \in 1 .. N : g[i] = k
          BY <3>1
        <4>2. i <= m
          <5>1. i \in m + 1 .. N => g[i] > k
            BY <2>2
          <5> QED BY <4>1, <5>1
        <4>3. i >= m
          <5>1. SUFFICES ASSUME i < m PROVE FALSE
            OBVIOUS
          <5>2. m \in 1 .. m /\ m \in 1 .. N
            BY <5>1
          <5>3. g[m] <= k /\ g[i] < g[m] /\ g[m] \in Nat
            BY <1>3, <2>2, <5>1, <5>2
          <5> QED BY <4>1, <5>3
        <4>4. PICK p \in 0 .. N - 1 : m = p + 1 /\ p \in 0 .. N
          BY <4>2, <4>3
        <4>5. i = p + 1
          BY <4>2, <4>3, <4>4
        <4>6. CutAt(p, j)
          <5>1. ASSUME NEW n \in 1 .. p PROVE g[n] <= j
            <6>1. n \in 1 .. N /\ n < i
              BY <4>4, <4>5
            <6>2. g[n] < g[i] /\ g[n] \in Nat
              BY <1>3, <6>1
            <6>3. g[i] = j + 1 /\ j \in Nat
              BY <2>1, <4>1
            <6> QED BY ONLY <6>2, <6>3
          <5>2. ASSUME NEW n \in p + 1 .. N PROVE g[n] > j
            <6>1. CASE n = i
              BY <2>1, <4>1, <6>1
            <6>2. CASE n # i
              <7>1. n \in m + 1 .. N /\ n \in 1 .. N
                BY <4>4, <4>5, <6>2
              <7>2. g[n] > k /\ g[n] \in Nat
                BY <1>3, <2>2, <7>1
              <7> QED BY <2>1, <7>2
            <6> QED BY <6>1, <6>2
          <5> QED BY <5>1, <5>2
        <4>7. upto[j] = [n \in 1 .. p |-> g[n]]
          BY <1>5, <4>4, <4>6
        <4>8. PICK s : s = [n \in 1 .. p |-> g[n]]
          OBVIOUS
        <4>9. Append(s, g[p + 1]) = [n \in 1 .. p + 1 |-> g[n]]
          <5>1. s \in Seq(Nat) /\ Len(s) = p /\ g[p + 1] \in Nat
            <6>1. \A n \in 1 .. p : g[n] \in Nat
              BY <1>3, <4>4
            <6> QED BY <1>3, <4>1, <4>4, <4>5, <4>8, <6>1
          <5>2. [n \in 1 .. p + 1 |-> g[n]] \in Seq(Nat)
            BY <1>3, <4>4
          <5> QED BY <4>8, <5>1, <5>2
        <4> QED BY <1>2, <2>1, <3>1, <4>1, <4>4, <4>5, <4>7, <4>8, <4>9
      <3>2. CASE k \notin S
        <4>1. CutAt(m, j)
          <5>1. ASSUME NEW n \in 1 .. m PROVE g[n] <= j
            <6>1. n \in 1 .. N
              OBVIOUS
            <6>2. g[n] <= k /\ g[n] \in Nat /\ g[n] # k
              BY <1>3, <2>2, <3>2, <6>1
            <6> QED BY <2>1, <6>2
          <5>2. ASSUME NEW n \in m + 1 .. N PROVE g[n] > j
            <6>1. n \in 1 .. N
              OBVIOUS
            <6>2. g[n] > k /\ g[n] \in Nat
              BY <1>3, <2>2, <6>1
            <6> QED BY <2>1, <6>2
          <5> QED BY <5>1, <5>2
        <4> QED BY <1>2, <1>5, <2>1, <3>2, <4>1
      <3> QED BY <3>1, <3>2
    <2> HIDE DEF CutAt
    <2> QED BY <2>1, <2>2
  <1>6. last \in P
    <2>1. \A k \in 0 .. last : k \in P
      <3> HIDE DEF P
      <3> QED BY <1>4, <1>5, Upwards
    <2> HIDE DEF P
    <2> QED BY <2>1
  <1>7. CutAt(N, last)
    BY <1>3
  <1>8. upto[last] = [n \in 1 .. N |-> g[n]]
    <2> HIDE DEF CutAt
    <2> QED BY <1>6, <1>7
  <1> QED BY <1>1, <1>8 DEF Xml!InOrder

\* Fewer numbers are fewer visits.
LEMMA FewerVisits ==
  ASSUME NEW doc, NEW last \in Nat, Len(doc) = last, NEW S, NEW T, S \subseteq T,
         NEW other \in 1 .. last, other \in T, other \notin S
  PROVE  Len(Xml!InOrder(doc, S)) < Len(Xml!InOrder(doc, T))
  <1>1. PICK s, t : s = Xml!Visited(S, last) /\ t = Xml!Visited(T, last)
    OBVIOUS
  <1>2. /\ s[0] = <<>>
        /\ \A k \in 1 .. last : s[k] = IF k \in S THEN Append(s[k - 1], k) ELSE s[k - 1]
    BY <1>1, VisitedAre
  <1>3. /\ t[0] = <<>>
        /\ \A k \in 1 .. last : t[k] = IF k \in T THEN Append(t[k - 1], k) ELSE t[k - 1]
    BY <1>1, VisitedAre
  <1> DEFINE P == {k \in Nat : /\ s[k] \in Seq(Nat) /\ t[k] \in Seq(Nat)
                               /\ Len(s[k]) <= Len(t[k])
                               /\ k >= other => Len(s[k]) < Len(t[k])}
  <1>4. 0 \in P
    <2>1. <<>> \in Seq(Nat) /\ Len(<<>>) = 0
      OBVIOUS
    <2>2. s[0] \in Seq(Nat) /\ t[0] \in Seq(Nat) /\ Len(s[0]) = 0 /\ Len(t[0]) = 0
      BY <1>2, <1>3, <2>1
    <2>3. ~ 0 >= other
      OBVIOUS
    <2> QED BY <2>2, <2>3
  <1>5. ASSUME NEW j \in 0 .. last - 1, j \in P PROVE j + 1 \in P
    <2>1. PICK k \in 1 .. last : k = j + 1 /\ j = k - 1
      OBVIOUS
    <2>2. PICK a \in Seq(Nat), b \in Seq(Nat) : a = s[j] /\ b = t[j]
      BY <1>5
    <2>3. /\ Append(a, k) \in Seq(Nat) /\ Append(b, k) \in Seq(Nat)
          /\ Len(Append(a, k)) = Len(a) + 1 /\ Len(Append(b, k)) = Len(b) + 1
          /\ Len(a) \in Nat /\ Len(b) \in Nat
      OBVIOUS
    <2>4. /\ s[k] = IF k \in S THEN Append(a, k) ELSE a
          /\ t[k] = IF k \in T THEN Append(b, k) ELSE b
      BY <1>2, <1>3, <2>1, <2>2
    <2>5. Len(a) <= Len(b) /\ (j >= other => Len(a) < Len(b))
      BY <1>5, <2>2
    <2>6. k \in S => k \in T
      OBVIOUS
    <2>7. k = other => k \in T /\ k \notin S
      OBVIOUS
    <2>8. /\ s[k] \in Seq(Nat) /\ t[k] \in Seq(Nat)
          /\ Len(s[k]) <= Len(t[k])
          /\ k >= other => Len(s[k]) < Len(t[k])
      <3>1. PICK p \in Nat, q \in Nat : p = Len(a) /\ q = Len(b)
        BY <2>3
      <3>2. CASE k \in S
        <4>1. s[k] = Append(a, k) /\ t[k] = Append(b, k)
          BY <2>4, <2>6, <3>2
        <4>2. Len(s[k]) = p + 1 /\ Len(t[k]) = q + 1
          BY <2>3, <3>1, <4>1
        <4>3. k >= other => j >= other
          BY <2>1, <2>7, <3>2
        <4> QED BY <2>3, <2>5, <3>1, <4>1, <4>2, <4>3
      <3>3. CASE k \notin S /\ k \in T
        <4>1. s[k] = a /\ t[k] = Append(b, k)
          BY <2>4, <3>3
        <4>2. Len(s[k]) = p /\ Len(t[k]) = q + 1
          BY <2>3, <3>1, <4>1
        <4> QED BY <2>3, <2>5, <3>1, <4>1, <4>2
      <3>4. CASE k \notin T
        <4>1. s[k] = a /\ t[k] = b
          BY <2>4, <2>6, <3>4
        <4>2. k >= other => j >= other
          BY <2>1, <2>7, <3>4
        <4> QED BY <2>2, <2>5, <3>1, <4>1, <4>2
      <3> QED BY <2>6, <3>2, <3>3, <3>4
    <2>9. k \in P
      BY <2>8
    <2> QED BY <2>1, <2>9
  <1>6. last \in P
    <2>1. \A k \in 0 .. last : k \in P
      <3> HIDE DEF P
      <3> QED BY <1>4, <1>5, Upwards
    <2> HIDE DEF P
    <2> QED BY <2>1
  <1>7. Len(s[last]) < Len(t[last])
    BY <1>6
  <1> QED BY <1>1, <1>7 DEF Xml!InOrder

\* Every element of a shape is in the record or in one before it that is not
\* closed yet.
Nested(Str, shape, W) ==
  /\ DOMAIN shape = 1 .. W
  /\ \A j \in 1 .. W : /\ shape[j].name \in Str
                       /\ shape[j].under \in 0 .. j - 1
                       /\ \A i \in shape[j].under + 1 .. j - 1 :
                            shape[i].under >= shape[j].under

\* Where the rows of a table are: after the head, one after the other.
RowsPlaced(doc, base, R, W, N) ==
  /\ \A n \in 1 .. N : base[n] \in Nat /\ base[n] >= R /\ base[n] + W <= Len(doc)
  /\ \A m, n \in 1 .. N : m < n => base[m] + W <= base[n]
  /\ \A k \in R + 1 .. Len(doc) : \E n \in 1 .. N, j \in 1 .. W : k = base[n] + j

\* What is in them.
Filled(doc, base, D, W, N, shape, rows) ==
  \A n \in 1 .. N, j \in 1 .. W :
    /\ doc[base[n] + j].name = shape[j].name
    /\ doc[base[n] + j].parent = IF shape[j].under = 0 THEN D ELSE base[n] + shape[j].under
    /\ doc[base[n] + j].text = rows[n][j]

\* What comes first.
Headed(doc, head, R) == R <= Len(doc) /\ \A k \in 1 .. R : doc[k] = head[k]

\* The head of a table ends inside of the element that the rows are in.
Open(head, D, R) == D <= R /\ \A k \in D + 1 .. R : head[k].parent >= D

\* The texts of a row.
RowOf(Str, W, row) == \A j \in 1 .. W : row[j] \in Str

\* What is in one row, that starts behind an element.
InRow(r, D, W, before, shape, row) ==
  \A j \in 1 .. W :
    /\ r[j].name = shape[j].name /\ r[j].text = row[j]
    /\ r[j].parent = IF shape[j].under = 0 THEN D ELSE before + shape[j].under

\* A row that is put into a document.
LEMMA RowIs ==
  ASSUME NEW Str, NEW around, NEW D \in Nat, Len(around) = D, NEW W \in Nat, NEW shape,
         Nested(Str, shape, W), NEW before \in Nat, NEW row, RowOf(Str, W, row),
         NEW r, r = AnswerRow(around, shape, before, row)
  PROVE  r \in Seq(Elements(Str)) /\ Len(r) = W /\ InRow(r, D, W, before, shape, row)
  <1>1. DOMAIN shape = 1 .. W /\ \A j \in 1 .. W : shape[j].name \in Str /\ shape[j].under \in Nat
    BY DEF Nested
  <1> DEFINE El(j) == [name |-> shape[j].name,
                       parent |-> IF shape[j].under = 0 THEN D ELSE before + shape[j].under,
                       text |-> row[j]]
  <1>2. r = [j \in 1 .. W |-> El(j)]
    BY <1>1 DEF AnswerRow, Xml!Element
  <1>3. \A j \in 1 .. W : El(j) \in Elements(Str)
    BY <1>1 DEF Elements, RowOf
  <1>4. \A j \in 1 .. W :
              /\ El(j).name = shape[j].name /\ El(j).text = row[j]
              /\ El(j).parent = IF shape[j].under = 0 THEN D ELSE before + shape[j].under
    OBVIOUS
  <1>5. r \in Seq(Elements(Str)) /\ Len(r) = W
    <2> HIDE DEF El
    <2> QED BY <1>2, <1>3
  <1> HIDE DEF El
  <1> QED BY <1>2, <1>4, <1>5 DEF InRow

\* An element of a document is in one before it that is not closed yet.
Fits(doc, k) ==
  /\ doc[k].parent \in 0 .. k - 1
  /\ \A m \in doc[k].parent + 1 .. k - 1 : doc[m].parent >= doc[k].parent

\* One row more.
LEMMA OneRowMore ==
  ASSUME NEW Str, NEW D \in Nat, NEW R \in Nat, NEW W \in Nat, NEW shape, Nested(Str, shape, W),
         NEW head, Open(head, D, R),
         NEW N \in Nat, NEW rows, NEW base, NEW doc \in Documents(Str),
         RowsPlaced(doc, base, R, W, N), Filled(doc, base, D, W, N, shape, rows),
             Headed(doc, head, R),
         base[N + 1] = Len(doc), RowOf(Str, W, rows[N + 1]),
         NEW r \in Seq(Elements(Str)), Len(r) = W,
         InRow(r, D, W, Len(doc), shape, rows[N + 1]),
         NEW more, more = doc \o r
  PROVE  /\ more \in Documents(Str)
         /\ RowsPlaced(more, base, R, W, N + 1)
         /\ Filled(more, base, D, W, N + 1, shape, rows)
         /\ Headed(more, head, R)
  <1>0. D <= R /\ \A k \in D + 1 .. R : head[k].parent >= D
    BY DEF Open
  <1>1. PICK top \in Nat : Len(doc) = top
    BY DEF Documents
  <1>2. /\ more \in Seq(Elements(Str)) /\ Len(more) = top + W
        /\ \A k \in 1 .. top : more[k] = doc[k]
        /\ \A j \in 1 .. W : more[top + j] = r[j]
    <2>1. doc \in Seq(Elements(Str))
      BY DEF Documents
    <2>2. r \in Seq(Elements(Str)) /\ Len(r) = W /\ more = doc \o r
      OBVIOUS
    <2>3. PICK A : A = Elements(Str)
      OBVIOUS
    <2>4. doc \in Seq(A) /\ r \in Seq(A)
      BY <2>1, <2>3
    <2>5. more \in Seq(A) /\ Len(more) = Len(doc) + Len(r)
      <3>1. \A x, y \in Seq(A) : x \o y \in Seq(A) /\ Len(x \o y) = Len(x) + Len(y)
        OBVIOUS
      <3> QED BY ONLY <2>2, <2>4, <3>1
    <2>6. \A i \in 1 .. Len(doc) : more[i] = doc[i]
      BY ONLY <2>2, <2>4
    <2>7. \A i \in 1 .. Len(r) : more[Len(doc) + i] = r[i]
      BY ONLY <2>2, <2>4
    <2> QED BY ONLY <1>1, <2>2, <2>3, <2>5, <2>6, <2>7
  <1>3. R <= top /\ \A k \in 1 .. R : doc[k] = head[k]
    BY <1>1 DEF Headed
  <1>4. /\ \A n \in 1 .. N : base[n] \in Nat /\ base[n] >= R /\ base[n] + W <= top
        /\ \A m, n \in 1 .. N : m < n => base[m] + W <= base[n]
        /\ \A k \in R + 1 .. top : \E n \in 1 .. N, j \in 1 .. W : k = base[n] + j
    BY <1>1 DEF RowsPlaced
  <1>5. Headed(more, head, R)
    <2>1. ASSUME NEW k \in 1 .. R PROVE more[k] = head[k]
      <3>1. k \in 1 .. top
        BY <1>3
      <3> QED BY <1>2, <1>3, <3>1
    <2> QED BY <1>2, <1>3, <2>1 DEF Headed
  <1>6. RowsPlaced(more, base, R, W, N + 1)
    <2>1. ASSUME NEW n \in 1 .. N + 1
          PROVE  base[n] \in Nat /\ base[n] >= R /\ base[n] + W <= top + W
      <3>1. CASE n = N + 1
        BY <1>1, <1>3, <3>1
      <3>2. CASE n # N + 1
        <4>1. n \in 1 .. N
          BY <3>2
        <4> QED BY <1>4, <4>1
      <3> QED BY <3>1, <3>2
    <2>2. ASSUME NEW m \in 1 .. N + 1, NEW n \in 1 .. N + 1, m < n PROVE base[m] + W <= base[n]
      <3>1. m \in 1 .. N
        BY <2>2
      <3>2. CASE n = N + 1
        BY <1>1, <1>4, <3>1, <3>2
      <3>3. CASE n # N + 1
        <4>1. n \in 1 .. N
          BY <3>3
        <4> QED BY <1>4, <2>2, <3>1, <4>1
      <3> QED BY <3>2, <3>3
    <2>3. ASSUME NEW k \in R + 1 .. top + W
          PROVE  \E n \in 1 .. N + 1, j \in 1 .. W : k = base[n] + j
      <3>1. CASE k <= top
        <4>1. k \in R + 1 .. top
          BY <3>1
        <4>2. PICK n \in 1 .. N, j \in 1 .. W : k = base[n] + j
          BY <1>4, <4>1
        <4>3. n \in 1 .. N + 1
          OBVIOUS
        <4> QED BY <4>2, <4>3
      <3>2. CASE k > top
        <4>1. k - top \in 1 .. W /\ k = top + (k - top) /\ N + 1 \in 1 .. N + 1
          BY <3>2
        <4> QED BY <1>1, <4>1
      <3> QED BY <3>1, <3>2
    <2> QED BY <1>2, <2>1, <2>2, <2>3 DEF RowsPlaced
  <1>7. Filled(more, base, D, W, N + 1, shape, rows)
    <2>1. ASSUME NEW n \in 1 .. N + 1, NEW j \in 1 .. W
          PROVE  /\ more[base[n] + j].name = shape[j].name
                 /\ more[base[n] + j].parent
                      = IF shape[j].under = 0 THEN D ELSE base[n] + shape[j].under
                 /\ more[base[n] + j].text = rows[n][j]
      <3>1. CASE n = N + 1
        <4>1. base[n] = top /\ more[base[n] + j] = r[j]
          BY <1>1, <1>2, <3>1
        <4> QED BY <1>1, <3>1, <4>1 DEF InRow
      <3>2. CASE n # N + 1
        <4>1. n \in 1 .. N
          BY <3>2
        <4>2. base[n] + j \in 1 .. top
          <5>1. base[n] \in Nat /\ base[n] + W <= top
            BY <1>4, <4>1
          <5> QED BY ONLY <5>1, j \in 1 .. W, W \in Nat, top \in Nat
        <4>3. more[base[n] + j] = doc[base[n] + j]
          BY <1>2, <4>2
        <4>4. /\ doc[base[n] + j].name = shape[j].name
              /\ doc[base[n] + j].parent
                   = IF shape[j].under = 0 THEN D ELSE base[n] + shape[j].under
              /\ doc[base[n] + j].text = rows[n][j]
          BY <4>1 DEF Filled
        <4> QED BY ONLY <4>3, <4>4
      <3> QED BY <3>1, <3>2
    <2> QED BY <2>1 DEF Filled
  <1>8. \A j \in 1 .. W : /\ shape[j].under \in 0 .. j - 1
                          /\ \A i \in shape[j].under + 1 .. j - 1 : shape[i].under >= shape[j].under
    BY DEF Nested
  <1>9. ASSUME NEW k \in 1 .. top + W
        PROVE  Fits(more, k)
    <2>1. CASE k <= top
      <3>1. k \in 1 .. top /\ k \in 1 .. Len(doc)
        BY <1>1, <2>1
      <3>2. more[k] = doc[k]
        BY <1>2, <3>1
      <3>3. /\ doc[k].parent \in 0 .. k - 1
            /\ \A m \in doc[k].parent + 1 .. k - 1 : doc[m].parent >= doc[k].parent
        BY <3>1 DEF Documents
      <3>4. ASSUME NEW m \in doc[k].parent + 1 .. k - 1 PROVE more[m] = doc[m]
        <4>1. m \in 1 .. top
          <5>1. PICK p \in 0 .. k - 1 : p = doc[k].parent
            BY ONLY <3>3
          <5>2. m \in p + 1 .. k - 1
            BY ONLY <5>1, m \in doc[k].parent + 1 .. k - 1
          <5> QED BY ONLY <3>1, <5>1, <5>2, top \in Nat
        <4> QED BY <1>2, <4>1
      <3> QED BY <3>2, <3>3, <3>4 DEF Fits
    <2>2. CASE k > top
      <3>1. PICK j \in 1 .. W : k = top + j
        <4>1. k - top \in 1 .. W /\ k = top + (k - top)
          BY <2>2
        <4> QED BY <4>1
      <3>2. more[k] = r[j]
        BY <1>2, <3>1
      <3>3. PICK u \in 0 .. j - 1 : u = shape[j].under
        BY <1>8
      <3>4. CASE u = 0
        <4>1. more[k].parent = D
          BY <3>2, <3>3, <3>4 DEF InRow
        <4>2. ASSUME NEW m \in D + 1 .. k - 1 PROVE more[m].parent >= D
          <5>1. CASE m <= R
            <6>1. m \in D + 1 .. R /\ m \in 1 .. R
              BY <5>1
            <6>2. more[m] = head[m]
              BY <1>5, <6>1 DEF Headed
            <6> QED BY <1>0, <6>1, <6>2
          <5>2. CASE ~ m <= R
            <6>1. m \in R + 1 .. top + W
              BY <5>2
            <6>2. \A x \in R + 1 .. top + W : \E n \in 1 .. N + 1, i \in 1 .. W : x = base[n] + i
              BY ONLY <1>2, <1>6 DEF RowsPlaced
            <6>3. PICK n \in 1 .. N + 1, i \in 1 .. W : m = base[n] + i
              BY <6>1, <6>2
            <6>4. more[m].parent = IF shape[i].under = 0 THEN D ELSE base[n] + shape[i].under
              BY <1>7, <6>3 DEF Filled
            <6>5. base[n] \in Nat /\ base[n] >= R
              BY <1>6 DEF RowsPlaced
            <6>6. shape[i].under \in Nat
              BY ONLY <1>8, i \in 1 .. W, W \in Nat
            <6>7. PICK v \in Nat, p \in Nat : v = shape[i].under /\ p = base[n] /\ p >= R
              BY <6>5, <6>6
            <6>8. more[m].parent = D \/ more[m].parent = p + v
              BY ONLY <6>4, <6>7
            <6>9. p + v >= D /\ D >= D
              <7>1. D <= R
                BY <1>0
              <7>2. p >= R
                BY ONLY <6>7
              <7> QED BY ONLY <7>1, <7>2, D \in Nat, R \in Nat, v \in Nat, p \in Nat
            <6> QED BY ONLY <6>8, <6>9
          <5> QED BY <5>1, <5>2
        <4>3. D \in 0 .. k - 1
          BY <1>0, <1>3, <2>2
        <4>4. ASSUME NEW m \in more[k].parent + 1 .. k - 1 PROVE more[m].parent >= more[k].parent
          <5>1. m \in D + 1 .. k - 1
            BY ONLY <4>1, m \in more[k].parent + 1 .. k - 1
          <5> QED BY ONLY <4>1, <4>2, <5>1
        <4>5. more[k].parent \in 0 .. k - 1
          BY ONLY <4>1, <4>3
        <4> QED BY <4>4, <4>5 DEF Fits
      <3>5. CASE u # 0
        <4>1. more[k].parent = top + u
          BY <1>1, <3>2, <3>3, <3>5 DEF InRow
        <4>2. ASSUME NEW m \in top + u + 1 .. k - 1 PROVE more[m].parent >= top + u
          <5>1. PICK i \in 1 .. W : m = top + i /\ i \in u + 1 .. j - 1
            <6>1. m - top \in 1 .. W /\ m = top + (m - top) /\ m - top \in u + 1 .. j - 1
              BY <3>1
            <6> QED BY <6>1
          <5>2. more[m] = r[i]
            BY <1>2, <5>1
          <5>3. shape[i].under \in Nat /\ shape[i].under >= u
            <6>1. i \in Nat /\ shape[i].under \in 0 .. i - 1
              BY ONLY <1>8, i \in 1 .. W, W \in Nat
            <6>2. shape[i].under >= u
              BY ONLY <1>8, <3>3, <5>1, j \in 1 .. W, W \in Nat
            <6> QED BY ONLY <6>1, <6>2
          <5>4. more[m].parent = top + shape[i].under
            <6>1. r[i].parent = IF shape[i].under = 0 THEN D ELSE Len(doc) + shape[i].under
              BY DEF InRow
            <6>2. shape[i].under # 0
              BY ONLY <3>5, <5>3, u \in 0 .. j - 1, j \in 1 .. W, W \in Nat
            <6> QED BY ONLY <1>1, <5>2, <6>1, <6>2
          <5>5. PICK v \in Nat : v = shape[i].under
            BY <5>3
          <5>6. more[m].parent = top + v /\ v >= u
            BY ONLY <5>3, <5>4, <5>5
          <5>7. u \in Nat
            BY ONLY u \in 0 .. j - 1, j \in 1 .. W, W \in Nat
          <5> QED BY ONLY <5>6, <5>7, top \in Nat, v \in Nat
        <4>3. top + u \in 0 .. k - 1
          BY <3>1
        <4>4. ASSUME NEW m \in more[k].parent + 1 .. k - 1 PROVE more[m].parent >= more[k].parent
          <5>1. m \in top + u + 1 .. k - 1
            BY ONLY <4>1, m \in more[k].parent + 1 .. k - 1
          <5> QED BY ONLY <4>1, <4>2, <5>1
        <4>5. more[k].parent \in 0 .. k - 1
          BY ONLY <4>1, <4>3
        <4> QED BY <4>4, <4>5 DEF Fits
      <3> QED BY <3>4, <3>5
    <2> QED BY <2>1, <2>2
  <1>10. more \in Documents(Str)
    BY <1>2, <1>9 DEF Documents, Fits
  <1> QED BY <1>5, <1>6, <1>7, <1>10

\* The rows of a table are where they are looked for.
Tabled(doc, R, D, W, N, head, shape, rows) ==
  \E base : /\ RowsPlaced(doc, base, R, W, N)
            /\ Filled(doc, base, D, W, N, shape, rows)
            /\ Headed(doc, head, R)

\* By induction over the rows: they are in the table, and it is a document.
LEMMA TableIsLaid ==
  ASSUME NEW Str, NEW head \in Documents(Str), NEW R \in Nat, Len(head) = R,
         NEW around, NEW D \in Nat, Len(around) = D, Open(head, D, R),
         NEW W \in Nat, NEW shape, Nested(Str, shape, W), NEW N \in Nat, NEW rows, Len(rows) = N,
         \A n \in 1 .. N : RowOf(Str, W, rows[n]),
         NEW doc, Table(doc, head, around, shape, rows)
  PROVE  doc \in Documents(Str) /\ Tabled(doc, R, D, W, N, head, shape, rows)
  <1>1. PICK upto :
           /\ upto[0] = head
           /\ \A n \in 1 .. N : upto[n]
                = upto[n - 1] \o AnswerRow(around, shape, Len(upto[n - 1]), rows[n])
           /\ doc = upto[N]
    BY DEF Table
  <1>2. PICK base : base = [n \in 1 .. N |-> Len(upto[n - 1])]
    OBVIOUS
  <1> DEFINE P == {n \in Nat : /\ upto[n] \in Documents(Str)
                               /\ RowsPlaced(upto[n], base, R, W, n)
                               /\ Filled(upto[n], base, D, W, n, shape, rows)
                               /\ Headed(upto[n], head, R)}
  <1>3. 0 \in P
    <2>1. RowsPlaced(head, base, R, W, 0)
      BY DEF RowsPlaced
    <2>2. Filled(head, base, D, W, 0, shape, rows)
      BY DEF Filled
    <2>3. Headed(head, head, R)
      BY DEF Headed
    <2> QED BY <1>1, <2>1, <2>2, <2>3
  <1>4. ASSUME NEW n \in 0 .. N - 1, n \in P PROVE n + 1 \in P
    <2>1. PICK k \in 1 .. N : k = n + 1 /\ n = k - 1
      OBVIOUS
    <2>2. PICK d, r : d = upto[n] /\ r = AnswerRow(around, shape, Len(d), rows[k])
      OBVIOUS
    <2>3. /\ d \in Documents(Str)
          /\ RowsPlaced(d, base, R, W, n)
          /\ Filled(d, base, D, W, n, shape, rows)
          /\ Headed(d, head, R)
      BY <1>4, <2>2
    <2>4. Len(d) \in Nat
      BY <2>3 DEF Documents
    <2>5. RowOf(Str, W, rows[k])
      OBVIOUS
    <2>6. /\ r \in Seq(Elements(Str)) /\ Len(r) = W
          /\ InRow(r, D, W, Len(d), shape, rows[n + 1])
      <3>1. /\ r \in Seq(Elements(Str)) /\ Len(r) = W
            /\ InRow(r, D, W, Len(d), shape, rows[k])
        BY <2>2, <2>4, <2>5, RowIs
      <3> QED BY ONLY <2>1, <3>1
    <2>7. upto[k] = d \o r
      BY <1>1, <2>1, <2>2
    <2>8. base[n + 1] = Len(d)
      BY <1>2, <2>1, <2>2
    <2>9. /\ upto[k] \in Documents(Str)
          /\ RowsPlaced(upto[k], base, R, W, n + 1)
          /\ Filled(upto[k], base, D, W, n + 1, shape, rows)
          /\ Headed(upto[k], head, R)
      <3>1. RowOf(Str, W, rows[n + 1]) /\ Len(r) = W
        BY ONLY <2>1, <2>5, <2>6
      <3>2. n \in Nat /\ r \in Seq(Elements(Str))
        BY <2>6
      <3> QED BY ONLY <2>3, <2>6, <2>7, <2>8, <3>1, <3>2, Open(head, D, R), Nested(Str, shape, W),
                      D \in Nat, R \in Nat, W \in Nat, OneRowMore, Zenon
    <2> QED BY <2>1, <2>9
  <1>5. N \in P
    <2>1. \A n \in 0 .. N : n \in P
      <3> HIDE DEF P
      <3> QED BY <1>3, <1>4, Upwards
    <2> HIDE DEF P
    <2> QED BY <2>1
  <1> QED BY <1>1, <1>5 DEF Tabled

\* Joining and appending, in either order.
LEMMA AppendJoined ==
  ASSUME NEW A, NEW p \in Seq(A), NEW s \in Seq(A), NEW x \in A
  PROVE  p \o Append(s, x) = Append(p \o s, x)
  OBVIOUS

\* A path below a prefix is told from what is below it.
LEMMA JoinedPrefix ==
  ASSUME NEW A, NEW p \in Seq(A), NEW s \in Seq(A)
  PROVE  /\ Xml!IsPrefix(p, p \o s)
         /\ Xml!Below(p, p \o s) = s
         /\ \A t \in Seq(A) : p \o s = p \o t => s = t
  <1>1. PICK q : q = p \o s
    OBVIOUS
  <1>2. q \in Seq(A) /\ Len(q) = Len(p) + Len(s) /\ Len(p) \in Nat /\ Len(s) \in Nat
    BY <1>1
  <1>3. (\A i \in 1 .. Len(p) : q[i] = p[i]) /\ (\A i \in 1 .. Len(s) : q[Len(p) + i] = s[i])
    BY <1>1, TwoJoined
  <1>4. Xml!IsPrefix(p, q)
    <2>1. Len(p) <= Len(q)
      BY <1>2
    <2>2. SubSeq(p, 1, Len(p)) = SubSeq(q, 1, Len(p))
      BY <1>2, <1>3
    <2> QED BY <2>1, <2>2 DEF Xml!IsPrefix
  <1>5. Xml!Below(p, q) = s
    <2>1. SubSeq(q, Len(p) + 1, Len(q)) = s
      BY <1>2, <1>3
    <2> QED BY <2>1 DEF Xml!Below
  <1>6. ASSUME NEW t \in Seq(A), p \o s = p \o t PROVE s = t
    <2>1. Len(t) = Len(s)
      <3>1. Len(p \o t) = Len(p) + Len(t) /\ Len(t) \in Nat
        OBVIOUS
      <3> QED BY <1>1, <1>2, <1>6, <3>1
    <2>2. ASSUME NEW i \in 1 .. Len(s) PROVE s[i] = t[i]
      <3>1. (p \o t)[Len(p) + i] = t[i]
        BY <2>1
      <3> QED BY <1>1, <1>3, <1>6, <3>1
    <2> QED BY <2>1, <2>2
  <1> QED BY <1>1, <1>4, <1>5, <1>6

\* How the paths of the elements of a record continue one another.
Continued(A, rel, W, shape) ==
  /\ \A j \in 1 .. W : rel[j] \in Seq(A) /\ Xml!ToLower(shape[j].name) \in A
  /\ \A j \in 2 .. W : /\ shape[j].under \in 1 .. j - 1
                       /\ rel[j] = Append(rel[shape[j].under], Xml!ToLower(shape[j].name))

\* The paths of the elements behind one, all below a prefix.
PathsBelow(doc, from, above, p, rel, W) ==
  \A j \in 1 .. W : Xml!PathTo(doc, from + j, above) = p \o rel[j]

\* The paths of the elements of one record.
LEMMA PathsGrow ==
  ASSUME NEW Str, NEW doc \in Documents(Str), NEW base, NEW R \in Nat, NEW D, NEW W \in Nat,
         NEW N \in Nat, NEW shape, NEW rows, NEW A, NEW rel, NEW p \in Seq(A), NEW above \in Nat,
         RowsPlaced(doc, base, R, W, N), Filled(doc, base, D, W, N, shape, rows),
         Continued(A, rel, W, shape), NEW n \in 1 .. N, NEW from, from = base[n], above <= from + 1,
         Xml!PathTo(doc, from + 1, above) = p \o rel[1]
  PROVE  PathsBelow(doc, from, above, p, rel, W)
  <1>1. from \in Nat /\ \E top \in Nat : Len(doc) = top /\ from = base[n] /\ from + W <= top
    <2>1. base[n] \in Nat /\ base[n] + W <= Len(doc)
      BY DEF RowsPlaced
    <2>2. Len(doc) \in Nat
      BY DEF Documents
    <2> QED BY <2>1, <2>2
  <1>t. PICK top \in Nat : Len(doc) = top /\ from = base[n] /\ from + W <= top
    BY <1>1
  <1>0. \A s \in Seq(A), x \in A : p \o Append(s, x) = Append(p \o s, x)
    BY AppendJoined
  <1> DEFINE P == {j \in Nat : j >= 1 => Xml!PathTo(doc, from + j, above) = p \o rel[j]}
  <1>2. ASSUME NEW j \in 0 .. W, \A i \in 0 .. j - 1 : i \in P PROVE j \in P
    <2>1. CASE j = 0
      BY <2>1
    <2>2. CASE j = 1
      BY <1>1, <1>t, <2>2
    <2>3. CASE j >= 2
      <3>1. PICK u \in 1 .. j - 1, x \in A :
              /\ u = shape[j].under /\ x = Xml!ToLower(shape[j].name)
              /\ rel[j] = Append(rel[u], x) /\ rel[u] \in Seq(A)
        <4>1. j \in 2 .. W /\ j \in 1 .. W
          BY <2>3
        <4>2. /\ Xml!ToLower(shape[j].name) \in A /\ shape[j].under \in 1 .. j - 1
              /\ rel[j] = Append(rel[shape[j].under], Xml!ToLower(shape[j].name))
          BY <4>1 DEF Continued
        <4>3. shape[j].under \in 1 .. W
          BY <4>1, <4>2
        <4>4. rel[shape[j].under] \in Seq(A)
          BY <4>3 DEF Continued
        <4> QED BY <4>2, <4>4
      <3>2. /\ doc[from + j].name = shape[j].name
            /\ doc[from + j].parent = from + u
        <4>1. j \in 1 .. W /\ shape[j].under # 0
          BY ONLY <2>3, <3>1, j \in 0 .. W, W \in Nat, u \in 1 .. j - 1
        <4> QED BY <1>1, <1>t, <3>1, <4>1 DEF Filled
      <3>3. from + j \in 1 .. top /\ from + j # above /\ from + u # 0
        <4>1. above <= from + 1
          OBVIOUS
        <4>2. from \in Nat /\ from + W <= top
          BY <1>1, <1>t
        <4> QED BY ONLY <4>2, <2>3, <4>1, j \in 0 .. W, W \in Nat, above \in Nat, top \in Nat,
                        u \in 1 .. j - 1
      <3>4. Xml!PathTo(doc, from + j, above)
              = IF from + j = above \/ from + u = 0
                  THEN <<Xml!ToLower(doc[from + j].name)>>
                ELSE Append(Xml!PathTo(doc, from + u, above), Xml!ToLower(doc[from + j].name))
        <4>1. PathsFrom(doc, above)
          BY PathsAre
        <4>2. from + u \in Nat
          <5>1. from \in Nat
            BY ONLY <1>1
          <5> QED BY ONLY <5>1, j \in 0 .. W, W \in Nat, u \in 1 .. j - 1
        <4> QED BY <1>1, <1>t, <3>2, <3>3, <4>1, <4>2 DEF PathsFrom
      <3>5. Xml!PathTo(doc, from + j, above) = Append(Xml!PathTo(doc, from + u, above), x)
        BY ONLY <3>1, <3>2, <3>3, <3>4
      <3>6. Xml!PathTo(doc, from + u, above) = p \o rel[u]
        <4>1. u \in 0 .. j - 1 /\ u >= 1
          OBVIOUS
        <4> QED BY <1>2, <4>1
      <3>7. p \o Append(rel[u], x) = Append(p \o rel[u], x)
        <4>1. PICK s \in Seq(A) : s = rel[u]
          BY <3>1
        <4>2. p \o Append(s, x) = Append(p \o s, x)
          BY <1>0
        <4> QED BY <4>1, <4>2
      <3>8. Xml!PathTo(doc, from + j, above) = p \o rel[j]
        BY ONLY <3>1, <3>5, <3>6, <3>7
      <3> QED BY ONLY <3>8, j \in 0 .. W, W \in Nat
    <2>4. j = 0 \/ j = 1 \/ j >= 2
      BY ONLY j \in 0 .. W, W \in Nat
    <2> HIDE DEF P
    <2> QED BY ONLY <2>1, <2>2, <2>3, <2>4
  <1>3. \A j \in 0 .. W : j \in P
    <2> HIDE DEF P
    <2> QED BY <1>2, FromAllBelow
  <1>4. \A j \in 1 .. W : j \in 0 .. W /\ j >= 1
    OBVIOUS
  <1> QED BY ONLY <1>3, <1>4 DEF PathsBelow

\* A document whose rows have paths below a prefix, which no text before them has.
Described(doc, base, R, W, N, rows, rel, prefix, A) ==
  /\ RowsPlaced(doc, base, R, W, N)
  /\ \A n \in 1 .. N, j \in 1 .. W : /\ doc[base[n] + j].text = rows[n][j]
                                     /\ Xml!Path(doc, base[n] + j) = prefix \o rel[j]
  /\ \A k \in 1 .. R : doc[k].text = NoText \/ ~ Xml!IsPrefix(prefix, Xml!Path(doc, k))
  /\ \A j \in 1 .. W : rel[j] \in Seq(A)
  /\ \A i, j \in 1 .. W : rel[i] = rel[j] => i = j
  /\ prefix \in Seq(A)

\* The places of a record that have a text somewhere, and where.
Used(rows, W, N) == {j \in 1 .. W : \E n \in 1 .. N : rows[n][j] # NoText}
Column(base, rows, N, j) == {base[n] + j : n \in {m \in 1 .. N : rows[m][j] # NoText}}

\* A dictionary has the texts of every such place, by its path.
Columns(doc, base, W, N, rows, rel, r) ==
  /\ DOMAIN r = {rel[j] : j \in Used(rows, W, N)}
  /\ \A j \in Used(rows, W, N) : r[rel[j]] = Xml!Texts(doc, Column(base, rows, N, j))

\* Below the prefix are the paths of the places that have texts.
LEMMA SubPathsAre ==
  ASSUME NEW Str, NEW doc \in Documents(Str), NEW base, NEW R \in Nat, NEW W \in Nat,
         NEW N \in Nat, NEW rows, NEW rel, NEW prefix, NEW A,
         Described(doc, base, R, W, N, rows, rel, prefix, A)
  PROVE  Columns(doc, base, W, N, rows, rel, Xml!ExtractSubPaths(prefix, Xml!DOMToDict(doc)))
  <1>1. PICK top \in Nat : Len(doc) = top /\ DOMAIN doc = 1 .. top
    BY DEF Documents
  <1>2. PICK full : full = {k \in DOMAIN doc : doc[k].text # NoText}
    OBVIOUS
  <1>3. PICK Of : Of = [k \in 1 .. top |-> Xml!Path(doc, k)]
    OBVIOUS
  <1>4. PICK on : on = [j \in 1 .. W |-> prefix \o rel[j]]
    OBVIOUS
  <1>5. /\ \A n \in 1 .. N, j \in 1 .. W :
             /\ base[n] + j \in 1 .. top
             /\ doc[base[n] + j].text = rows[n][j]
             /\ Of[base[n] + j] = on[j]
        /\ \A k \in 1 .. top : k \in 1 .. R \/ \E n \in 1 .. N, j \in 1 .. W : k = base[n] + j
    <2>1. ASSUME NEW n \in 1 .. N, NEW j \in 1 .. W
          PROVE  /\ base[n] + j \in 1 .. top
                 /\ doc[base[n] + j].text = rows[n][j]
                 /\ Of[base[n] + j] = on[j]
      <3>1. base[n] \in Nat /\ base[n] + W <= top
        BY <1>1 DEF Described, RowsPlaced
      <3>2. base[n] + j \in 1 .. top
        BY ONLY <3>1, j \in 1 .. W, W \in Nat, top \in Nat
      <3>3. /\ doc[base[n] + j].text = rows[n][j]
            /\ Xml!Path(doc, base[n] + j) = prefix \o rel[j]
        BY DEF Described
      <3> QED BY <1>3, <1>4, <3>2, <3>3
    <2>2. ASSUME NEW k \in 1 .. top
          PROVE  k \in 1 .. R \/ \E n \in 1 .. N, j \in 1 .. W : k = base[n] + j
      <3>1. k \in 1 .. R \/ k \in R + 1 .. top
        OBVIOUS
      <3>2. \A x \in R + 1 .. top : \E n \in 1 .. N, j \in 1 .. W : x = base[n] + j
        BY <1>1 DEF Described, RowsPlaced
      <3> QED BY ONLY <3>1, <3>2
    <2> QED BY <2>1, <2>2
  <1>6. /\ \A j \in 1 .. W : Xml!IsPrefix(prefix, on[j]) /\ Xml!Below(prefix, on[j]) = rel[j]
        /\ \A i, j \in 1 .. W : on[i] = on[j] => i = j
    <2>1. prefix \in Seq(A) /\ \A j \in 1 .. W : rel[j] \in Seq(A)
      BY DEF Described
    <2>2. \A s \in Seq(A) : /\ Xml!IsPrefix(prefix, prefix \o s)
                            /\ Xml!Below(prefix, prefix \o s) = s
                            /\ \A t \in Seq(A) : prefix \o s = prefix \o t => s = t
      BY <2>1, JoinedPrefix
    <2>3. \A i, j \in 1 .. W : rel[i] = rel[j] => i = j
      BY DEF Described
    <2> QED BY <1>4, <2>1, <2>2, <2>3
  <1>7. ASSUME NEW k \in full, Xml!IsPrefix(prefix, Of[k])
        PROVE  \E n \in 1 .. N,
            j \in 1 .. W : k = base[n] + j /\ rows[n][j] # NoText /\ Of[k] = on[j]
    <2>1. k \in 1 .. top /\ doc[k].text # NoText
      BY <1>1, <1>2
    <2>2. k \notin 1 .. R
      <3>1. \A m \in 1 .. R : doc[m].text = NoText \/ ~ Xml!IsPrefix(prefix, Xml!Path(doc, m))
        BY DEF Described
      <3>2. Of[k] = Xml!Path(doc, k)
        BY <1>3, <2>1
      <3> QED BY <1>7, <2>1, <3>1, <3>2
    <2>3. PICK n \in 1 .. N, j \in 1 .. W : k = base[n] + j
      BY <1>5, <2>1, <2>2
    <2> QED BY <1>5, <2>1, <2>3
  <1>8. ASSUME NEW j \in 1 .. W
        PROVE  {k \in full : Of[k] = on[j]} = Column(base, rows, N, j)
    <2>1. ASSUME NEW k \in full, Of[k] = on[j] PROVE k \in Column(base, rows, N, j)
      <3>1. PICK n \in 1 .. N,
          i \in 1 .. W : k = base[n] + i /\ rows[n][i] # NoText /\ Of[k] = on[i]
        BY <1>6, <1>7, <2>1
      <3>2. i = j
        BY <1>6, <2>1, <3>1
      <3> QED BY <3>1, <3>2 DEF Column
    <2>2. ASSUME NEW n \in 1 .. N, rows[n][j] # NoText
          PROVE  base[n] + j \in full /\ Of[base[n] + j] = on[j]
      BY <1>1, <1>2, <1>5, <2>2
    <2> QED BY <2>1, <2>2 DEF Column
  <1>9. PICK dict : dict = Xml!DOMToDict(doc)
    OBVIOUS
  <1>10. dict = [p \in {Of[k] : k \in full} |-> Xml!Texts(doc, {k \in full : Of[k] = p})]
    <2>1. \A k \in full : Of[k] = Xml!Path(doc, k)
      BY <1>1, <1>2, <1>3
    <2>2. dict = [p \in {Xml!Path(doc, k) : k \in full} |->
                    Xml!Texts(doc, {k \in full : Xml!Path(doc, k) = p})]
      BY ONLY <1>2, <1>9 DEF Xml!DOMToDict, NoText
    <2>3. {Xml!Path(doc, k) : k \in full} = {Of[k] : k \in full}
      BY <2>1
    <2>4. \A p : {k \in full : Xml!Path(doc, k) = p} = {k \in full : Of[k] = p}
      BY <2>1
    <2> QED BY <2>2, <2>3, <2>4
  <1>11. ASSUME NEW j \in Used(rows, W, N)
         PROVE  /\ j \in 1 .. W /\ on[j] \in DOMAIN dict
                /\ dict[on[j]] = Xml!Texts(doc, Column(base, rows, N, j))
    <2>1. PICK n \in 1 .. N : rows[n][j] # NoText /\ j \in 1 .. W
      BY DEF Used
    <2>2. base[n] + j \in full /\ Of[base[n] + j] = on[j]
      BY <1>1, <1>2, <1>5, <2>1
    <2> QED BY <1>8, <1>10, <2>1, <2>2
  <1>12. PICK found : found = {p \in DOMAIN dict : Xml!IsPrefix(prefix, p)}
    OBVIOUS
  <1>13. found = {on[j] : j \in Used(rows, W, N)}
    <2>1. ASSUME NEW p \in found PROVE p \in {on[j] : j \in Used(rows, W, N)}
      <3>1. PICK k \in full : p = Of[k] /\ Xml!IsPrefix(prefix, Of[k])
        BY <1>10, <1>12
      <3>2. PICK n \in 1 .. N,
          j \in 1 .. W : k = base[n] + j /\ rows[n][j] # NoText /\ Of[k] = on[j]
        BY <1>7, <3>1
      <3>3. j \in Used(rows, W, N)
        BY <3>2 DEF Used
      <3> QED BY <3>1, <3>2, <3>3
    <2>2. ASSUME NEW j \in Used(rows, W, N) PROVE on[j] \in found
      BY <1>6, <1>11, <1>12
    <2> QED BY <2>1, <2>2
  <1>14. {Xml!Below(prefix, p) : p \in found} = {rel[j] : j \in Used(rows, W, N)}
    BY <1>6, <1>11, <1>13
  <1>15. PICK r : r = Xml!ExtractSubPaths(prefix, dict)
    OBVIOUS
  <1>16. r = [q \in {rel[j] : j \in Used(rows, W, N)} |-> dict[prefix \o q]]
    <2>1. r = [q \in {Xml!Below(prefix, p) : p \in found} |-> dict[prefix \o q]]
      BY ONLY <1>12, <1>15 DEF Xml!ExtractSubPaths
    <2> QED BY ONLY <1>14, <2>1
  <1>17. ASSUME NEW j \in Used(rows, W, N)
         PROVE  r[rel[j]] = Xml!Texts(doc, Column(base, rows, N, j))
    <2>1. r[rel[j]] = dict[prefix \o rel[j]]
      BY <1>16
    <2>2. prefix \o rel[j] = on[j]
      BY <1>4, <1>11
    <2> QED BY <1>11, <2>1, <2>2
  <1>18. DOMAIN r = {rel[j] : j \in Used(rows, W, N)}
    BY <1>16
  <1> QED BY <1>9, <1>15, <1>17, <1>18 DEF Columns

\* All the rows have texts in the same places.
Even(rows, W, N) ==
  \A j \in 1 .. W : (\A n \in 1 .. N : rows[n][j] # NoText)
      \/ (\A n \in 1 .. N : rows[n][j] = NoText)

\* All the rows have a text in a place.
HasTexts(rows, N, j) == \A n \in 1 .. N : rows[n][j] # NoText

\* The texts in a place are those of the rows.
ColumnRead(doc, base, rows, N, j) ==
  Xml!Texts(doc, Column(base, rows, N, j)) = [n \in 1 .. N |-> rows[n][j]]

\* The texts in a place of which every record has one.
LEMMA ColumnIsRead ==
  ASSUME NEW Str, NEW doc \in Documents(Str), NEW base, NEW R \in Nat, NEW W \in Nat,
         NEW N \in Nat, NEW rows, NEW rel, NEW prefix, NEW A,
         Described(doc, base, R, W, N, rows, rel, prefix, A),
         NEW j \in 1 .. W, HasTexts(rows, N, j)
  PROVE  ColumnRead(doc, base, rows, N, j)
  <1>1. PICK top \in Nat : Len(doc) = top /\ DOMAIN doc = 1 .. top
    BY DEF Documents
  <1>2. PICK g : g = [n \in 1 .. N |-> base[n] + j]
    OBVIOUS
  <1>3. \A n \in 1 .. N : base[n] \in Nat /\ base[n] + W <= top
    BY <1>1 DEF Described, RowsPlaced
  <1>4. \A m, n \in 1 .. N : m < n => base[m] + W <= base[n]
    BY DEF Described, RowsPlaced
  <1>5. Ascending(g, N, top)
    <2>1. ASSUME NEW n \in 1 .. N PROVE g[n] \in 1 .. top
      <3>1. base[n] \in Nat /\ base[n] + W <= top /\ g[n] = base[n] + j
        BY <1>2, <1>3
      <3> QED BY ONLY <3>1, j \in 1 .. W, W \in Nat, top \in Nat
    <2>2. ASSUME NEW m \in 1 .. N, NEW n \in 1 .. N, m < n PROVE g[m] < g[n]
      <3>1. /\ base[m] \in Nat /\ base[n] \in Nat /\ base[m] + W <= base[n]
            /\ g[m] = base[m] + j /\ g[n] = base[n] + j
        BY <1>2, <1>3, <1>4, <2>2
      <3> QED BY ONLY <3>1, j \in 1 .. W, W \in Nat
    <2> QED BY <2>1, <2>2 DEF Ascending
  <1>6. PICK S : S = Column(base, rows, N, j)
    OBVIOUS
  <1>7. S = {g[n] : n \in 1 .. N}
    BY <1>2, <1>6 DEF Column, HasTexts
  <1>8. Xml!InOrder(doc, S) = [n \in 1 .. N |-> g[n]]
    BY <1>1, <1>5, <1>7, InOrderIs
  <1>9. \A n \in 1 .. N : doc[g[n]].text = rows[n][j]
    BY <1>2 DEF Described
  <1>10. Xml!Texts(doc, S) = [n \in 1 .. N |-> rows[n][j]]
    BY ONLY <1>8, <1>9 DEF Xml!Texts
  <1> QED BY ONLY <1>6, <1>10 DEF ColumnRead

\* The records of a list are the rows, by the paths of their places.
RecordsOf(records, rel, W, N, rows) ==
  /\ records = [n \in 1 .. N |-> records[n]]
  /\ \A n \in 1 .. N :
       /\ \A j \in 1 .. W : Xml!Get(records[n], rel[j]) = rows[n][j]
       /\ \A q : (\A j \in 1 .. W : q # rel[j]) => Xml!Get(records[n], q) = NoText

\* A field that a record does not have is no text.
LEMMA GetIs ==
  ASSUME NEW m, NEW q
  PROVE  Xml!Get(m, q) = IF q \in DOMAIN m THEN m[q] ELSE NoText
  BY DEF Xml!Get, NoText

\* The records that are found are the rows, when these are even.
LEMMA RecordsAre ==
  ASSUME NEW Str, NEW doc \in Documents(Str), NEW base, NEW R \in Nat, NEW W \in Nat,
         NEW N \in Nat, NEW rows, NEW rel, NEW prefix, NEW A,
         Described(doc, base, R, W, N, rows, rel, prefix, A), Even(rows, W, N),
         NEW c \in 1 .. W, HasTexts(rows, N, c)
  PROVE  RecordsOf(Xml!RecordList(prefix, Xml!DOMToDict(doc)), rel, W, N, rows)
  <1>1. PICK dict, r : dict = Xml!DOMToDict(doc) /\ r = Xml!ExtractSubPaths(prefix, dict)
    OBVIOUS
  <1>2. Columns(doc, base, W, N, rows, rel, r)
    BY <1>1, SubPathsAre
  <1>3. ASSUME NEW j \in Used(rows, W, N)
        PROVE  j \in 1 .. W /\ r[rel[j]] = [n \in 1 .. N |-> rows[n][j]] /\ Len(r[rel[j]]) = N
    <2>1. j \in 1 .. W /\ HasTexts(rows, N, j)
      BY DEF Used, Even, HasTexts
    <2>2. r[rel[j]] = Xml!Texts(doc, Column(base, rows, N, j))
      BY <1>2 DEF Columns
    <2>3. r[rel[j]] = [n \in 1 .. N |-> rows[n][j]]
      <3>1. ColumnRead(doc, base, rows, N, j)
        BY ONLY <2>1, ColumnIsRead, doc \in Documents(Str), R \in Nat, W \in Nat, N \in Nat,
                Described(doc, base, R, W, N, rows, rel, prefix, A)
      <3> QED BY ONLY <2>2, <3>1 DEF ColumnRead
    <2> QED BY <2>1, <2>3
  <1>4. DOMAIN r = {rel[j] : j \in Used(rows, W, N)}
    BY <1>2 DEF Columns
  <1>5. PICK S : S = {0} \cup {Len(r[q]) : q \in DOMAIN r}
    OBVIOUS
  <1>6. Xml!Max(S) = N
    <2>0. \A q \in DOMAIN r : Len(r[q]) = N
      BY <1>3, <1>4
    <2>1. S \subseteq Nat /\ \A s \in S : s <= N
      BY <1>5, <2>0
    <2>2. N \in S
      <3>1. CASE N = 0
        BY <1>5, <3>1
      <3>2. CASE N # 0
        <4>1. c \in Used(rows, W, N)
          <5>1. 1 \in 1 .. N
            BY <3>2
          <5> QED BY <5>1 DEF Used, HasTexts
        <4>2. rel[c] \in DOMAIN r
          BY <1>4, <4>1
        <4> QED BY <1>5, <2>0, <4>2
      <3> QED BY <3>1, <3>2
    <2> QED BY <2>1, <2>2, MaxIs
  <1>7. PICK records : records = Xml!RecordList(prefix, dict)
    OBVIOUS
  <1>8. records = [n \in 1 .. N |-> [q \in DOMAIN r |-> IF n <= Len(r[q]) THEN r[q][n] ELSE NoText]]
    BY ONLY <1>1, <1>5, <1>6, <1>7 DEF Xml!RecordList, NoText
  <1>9. ASSUME NEW n \in 1 .. N, NEW j \in 1 .. W
        PROVE  Xml!Get(records[n], rel[j]) = rows[n][j]
    <2>1. PICK e : e = records[n]
      OBVIOUS
    <2>2. e = [q \in DOMAIN r |-> IF n <= Len(r[q]) THEN r[q][n] ELSE NoText]
      BY <1>8, <2>1
    <2>3. CASE j \in Used(rows, W, N)
      <3>1. rel[j] \in DOMAIN r
        BY <1>4, <2>3
      <3>2. r[rel[j]][n] = rows[n][j] /\ Len(r[rel[j]]) = N
        <4>1. r[rel[j]] = [i \in 1 .. N |-> rows[i][j]] /\ Len(r[rel[j]]) = N
          BY <1>3, <2>3
        <4> QED BY ONLY <4>1, n \in 1 .. N
      <3>3. n <= N
        OBVIOUS
      <3>4. rel[j] \in DOMAIN e /\ e[rel[j]] = rows[n][j]
        BY ONLY <2>2, <3>1, <3>2, <3>3
      <3> QED BY <2>1, <3>4, GetIs
    <2>4. CASE j \notin Used(rows, W, N)
      <3>1. rows[n][j] = NoText
        BY <2>4 DEF Used
      <3>2. rel[j] \notin DOMAIN r
        <4>1. \A i \in 1 .. W : rel[i] = rel[j] => i = j
          BY DEF Described
        <4> QED BY <1>3, <1>4, <2>4, <4>1
      <3>3. rel[j] \notin DOMAIN e
        BY <2>2, <3>2
      <3> QED BY <2>1, <3>1, <3>3, GetIs
    <2> QED BY <2>3, <2>4
  <1>10. ASSUME NEW n \in 1 .. N, NEW q, \A j \in 1 .. W : q # rel[j]
         PROVE  Xml!Get(records[n], q) = NoText
    <2>1. q \notin DOMAIN r
      BY <1>3, <1>4, <1>10
    <2>2. DOMAIN records[n] = DOMAIN r
      BY <1>8
    <2> QED BY <2>1, <2>2, GetIs
  <1>11. records = [n \in 1 .. N |-> records[n]]
    BY <1>8
  <1> QED BY <1>1, <1>7, <1>9, <1>10, <1>11 DEF RecordsOf

-----------------------------------------------------------------------------
(* The records of a listing.                                               *)

\* The paths of the places of a record, below a prefix that is that of the
\* element around the records or of the records.
Sited(A, rel, W, shape, prefix, outer) ==
  /\ Continued(A, rel, W, shape) /\ prefix \in Seq(A)
  /\ \A i, j \in 1 .. W : rel[i] = rel[j] => i = j
  /\ 1 \in 1 .. W /\ shape[1].under = 0
  /\ Append(outer, Xml!ToLower(shape[1].name)) = prefix \o rel[1]

\* A table whose places have paths below a prefix.
LEMMA DescribedIs ==
  ASSUME NEW Str, NEW doc \in Documents(Str), NEW base, NEW R \in Nat, NEW D \in 1 .. R,
         NEW W \in Nat, NEW N \in Nat, NEW shape, NEW rows, NEW A, NEW rel, NEW prefix,
         RowsPlaced(doc, base, R, W, N), Filled(doc, base, D, W, N, shape, rows),
         Sited(A, rel, W, shape, prefix, Xml!Path(doc, D)),
         \A k \in 1 .. R : doc[k].text = NoText \/ ~ Xml!IsPrefix(prefix, Xml!Path(doc, k))
  PROVE  Described(doc, base, R, W, N, rows, rel, prefix, A)
  <1>1. /\ Continued(A, rel, W, shape) /\ prefix \in Seq(A)
        /\ 1 \in 1 .. W /\ shape[1].under = 0
        /\ Append(Xml!Path(doc, D), Xml!ToLower(shape[1].name)) = prefix \o rel[1]
    BY DEF Sited
  <1>2. ASSUME NEW n \in 1 .. N
        PROVE  \A j \in 1 .. W : Xml!PathTo(doc, base[n] + j, 1) = prefix \o rel[j]
    <2>1. PICK from \in Nat : from
        = base[n] /\ from >= R /\ from + W <= Len(doc) /\ Len(doc) \in Nat
      <3>1. base[n] \in Nat /\ base[n] >= R /\ base[n] + W <= Len(doc)
        BY DEF RowsPlaced
      <3>2. Len(doc) \in Nat
        BY DEF Documents
      <3> QED BY <3>1, <3>2
    <2>2. doc[from + 1].name = shape[1].name /\ doc[from + 1].parent = D
      BY <1>1, <2>1 DEF Filled
    <2>3. /\ from + 1 \in 1 .. Len(doc) /\ from + 1 # 1 /\ D # 0 /\ D \in Nat /\ 1 <= from + 1
      <3>1. 1 \in 1 .. W
        BY ONLY <1>1
      <3> QED BY ONLY <2>1, <3>1, R \in Nat, D \in 1 .. R, W \in Nat
    <2>4. Xml!PathTo(doc, from + 1, 1)
            = IF from + 1 = 1 \/ D = 0 THEN <<Xml!ToLower(doc[from + 1].name)>>
              ELSE Append(Xml!PathTo(doc, D, 1), Xml!ToLower(doc[from + 1].name))
      <3>1. PathsFrom(doc, 1)
        BY PathsAre
      <3> QED BY <2>2, <2>3, <3>1 DEF PathsFrom
    <2>5. Xml!PathTo(doc, from + 1, 1) = prefix \o rel[1]
      BY ONLY <1>1, <2>2, <2>3, <2>4 DEF Xml!Path
    <2>6. PathsBelow(doc, from, 1, prefix, rel, W)
      BY ONLY <1>1, <2>1, <2>3, <2>5, PathsGrow, doc \in Documents(Str), R \in Nat, W \in Nat,
          N \in Nat,
              n \in 1 .. N, 1 \in Nat, RowsPlaced(doc, base, R, W, N),
              Filled(doc, base, D, W, N, shape, rows)
    <2> QED BY <2>1, <2>6 DEF PathsBelow
  <1>3. \A j \in 1 .. W : rel[j] \in Seq(A)
    BY <1>1 DEF Continued
  <1>4. \A n \in 1 .. N, j \in 1 .. W : doc[base[n] + j].text = rows[n][j]
    BY DEF Filled
  <1>5. \A i, j \in 1 .. W : rel[i] = rel[j] => i = j
    BY DEF Sited
  <1> QED BY <1>1, <1>2, <1>3, <1>4, <1>5 DEF Described, Xml!Path

\* The elements around the records, when there is nothing else before them.
LEMMA RootIs ==
  ASSUME NEW Str, NoText \in Str, NEW R \in Nat, NEW around, DOMAIN around = 1 .. R,
         \A k \in 1 .. R : around[k] \in Str, NEW head, head = Xml!Root(around).doc
  PROVE  /\ head \in Documents(Str) /\ Len(head) = R /\ Open(head, R, R)
         /\ \A k \in 1 .. R : head[k] = [name |-> around[k], parent |-> k - 1, text |-> NoText]
  <1>1. head = [k \in 1 .. R |-> [name |-> around[k], parent |-> k - 1, text |-> NoText]]
    BY DEF Xml!Root, Xml!Element, NoText
  <1>2. \A k \in 1 .. R : [name |-> around[k], parent |-> k - 1, text |-> NoText] \in Elements(Str)
    BY DEF Elements
  <1>3. head \in Seq(Elements(Str)) /\ Len(head) = R
    BY <1>1, <1>2
  <1>4. \A k \in 1 .. R : head[k].parent = k - 1
    BY <1>1
  <1>5. head \in Documents(Str)
    BY <1>3, <1>4 DEF Documents
  <1>6. Open(head, R, R)
    BY DEF Open
  <1> QED BY <1>1, <1>3, <1>5, <1>6

\* The names of the elements of answers, and the values of fields.
ElementNames == {"listbucketresult", "contents", "key", "etag", "owner", "id",
           "listallmybucketsresult", "buckets", "bucket", "name", "creationdate",
           "accesscontrolpolicy", "accesscontrollist", "grant", "grantee", "displayname",
           "permission", "ownerid", "tagging", "tagset", "tag", "value"}

\* The names of answers are in lower case, those of tags are not.
LEMMA LowerIs == \A name \in ElementNames : Xml!ToLower(name) = name
  BY DEF ElementNames, Xml!ToLower

\* The names of tags, as they are looked up.
LEMMA TagNamesLowered == /\ Xml!ToLower("Tagging") = "tagging" /\ Xml!ToLower("TagSet") = "tagset"
                  /\ Xml!ToLower("Tag") = "tag" /\ Xml!ToLower("Key")
                       = "key" /\ Xml!ToLower("Value") = "value"
  BY DEF Xml!ToLower

\* The elements of an object in a listing, and their paths.
ListingShape == <<Under("contents", 0), Under("key", 1), Under("etag", 1), Under("owner", 1),
                  Under("id", 4)>>
ListingPaths == <<<<>>, <<"key">>, <<"etag">>, <<"owner">>, <<"owner", "id">>>>

\* The shape of an object in a listing, element by element.
LEMMA ListingShapeIs ==
  /\ DOMAIN ListingShape = 1 .. 5 /\ 1 .. 5 = {1, 2, 3, 4, 5}
  /\ ListingShape[1].name = "contents" /\ ListingShape[1].under = 0
  /\ ListingShape[2].name = "key" /\ ListingShape[2].under = 1
  /\ ListingShape[3].name = "etag" /\ ListingShape[3].under = 1
  /\ ListingShape[4].name = "owner" /\ ListingShape[4].under = 1
  /\ ListingShape[5].name = "id" /\ ListingShape[5].under = 4
  BY DEF ListingShape, Under

\* It is a shape.
LEMMA ListingNested ==
  ASSUME NEW Str, ElementNames \subseteq Str
  PROVE  Nested(Str, ListingShape, 5)
  BY ListingShapeIs DEF Nested, ElementNames

\* Its places have paths below that of the objects.
LEMMA ListingSited ==
  Sited(ElementNames, ListingPaths, 5, ListingShape,
        <<"listbucketresult", "contents">>, <<"listbucketresult">>)
  <1>1. Continued(ElementNames, ListingPaths, 5, ListingShape)
    <2>1. /\ ListingPaths[1] \in Seq(ElementNames) /\ ListingPaths[2] \in Seq(ElementNames)
          /\ ListingPaths[3] \in Seq(ElementNames) /\ ListingPaths[4] \in Seq(ElementNames)
          /\ ListingPaths[5] \in Seq(ElementNames)
      BY DEF ListingPaths, ElementNames
    <2>2. \A j \in 1 .. 5 : ListingShape[j].name \in ElementNames
      BY ListingShapeIs DEF ElementNames
    <2>3. \A j \in 1 .. 5 : Xml!ToLower(ListingShape[j].name) = ListingShape[j].name
      BY <2>2, LowerIs
    <2>4. /\ ListingPaths[2] = Append(ListingPaths[1], "key")
          /\ ListingPaths[3] = Append(ListingPaths[1], "etag")
          /\ ListingPaths[4] = Append(ListingPaths[1], "owner")
          /\ ListingPaths[5] = Append(ListingPaths[4], "id")
      BY DEF ListingPaths
    <2>5. 2 .. 5 = {2, 3, 4, 5}
      OBVIOUS
    <2>8. /\ ListingShape[2].under \in 1 .. 2 - 1 /\ ListingShape[3].under \in 1 .. 3 - 1
          /\ ListingShape[4].under \in 1 .. 4 - 1 /\ ListingShape[5].under \in 1 .. 5 - 1
      BY ListingShapeIs
    <2>9. /\ ListingPaths[2] = Append(ListingPaths[ListingShape[2].under], ListingShape[2].name)
          /\ ListingPaths[3] = Append(ListingPaths[ListingShape[3].under], ListingShape[3].name)
          /\ ListingPaths[4] = Append(ListingPaths[ListingShape[4].under], ListingShape[4].name)
          /\ ListingPaths[5] = Append(ListingPaths[ListingShape[5].under], ListingShape[5].name)
      BY <2>4, ListingShapeIs
    <2>6. \A j \in 2 .. 5 :
            /\ ListingShape[j].under \in 1 .. j - 1
            /\ ListingPaths[j] = Append(ListingPaths[ListingShape[j].under], ListingShape[j].name)
      BY ONLY <2>5, <2>8, <2>9
    <2>7. \A j \in 1 .. 5 : ListingPaths[j] \in Seq(ElementNames)
      BY <2>1, ListingShapeIs
    <2>10. 2 .. 5 \subseteq 1 .. 5
      OBVIOUS
    <2> QED BY ONLY <2>2, <2>3, <2>6, <2>7, <2>10 DEF Continued
  <1>2. \A i, j \in 1 .. 5 : ListingPaths[i] = ListingPaths[j] => i = j
    BY ListingShapeIs DEF ListingPaths
  <1>3. Append(<<"listbucketresult">>, Xml!ToLower(ListingShape[1].name))
      = <<"listbucketresult", "contents">> \o ListingPaths[1]
    BY ListingShapeIs, LowerIs DEF ListingPaths, ElementNames
  <1> QED BY <1>1, <1>2, <1>3, ListingShapeIs DEF Sited, ElementNames

\* What tells a table of an answer from any other document.
AnswerIs(Str, doc, around, shape, W, N, rows, base) ==
  /\ doc \in Documents(Str)
  /\ RowsPlaced(doc, base, Len(around), W, N)
  /\ Filled(doc, base, Len(around), W, N, shape, rows)
  /\ \A k \in 1 .. Len(around) : /\ doc[k].name = around[k] /\ doc[k].parent = k - 1
                                 /\ doc[k].text = NoText
  /\ Len(around) <= Len(doc)

\* A table below the elements around it.
LEMMA TableIs ==
  ASSUME NEW Str, NoText \in Str, NEW around, NEW R \in Nat, DOMAIN around = 1 .. R,
      Len(around) = R,
         \A k \in 1 .. R : around[k] \in Str, NEW W \in Nat, NEW shape, Nested(Str, shape, W),
         NEW N \in Nat, NEW rows, Len(rows) = N, \A n \in 1 .. N : RowOf(Str, W, rows[n]),
         NEW doc, Table(doc, Xml!Root(around).doc, around, shape, rows)
  PROVE  \E base : AnswerIs(Str, doc, around, shape, W, N, rows, base)
  <1>1. PICK head : head = Xml!Root(around).doc
    OBVIOUS
  <1>2. /\ head \in Documents(Str) /\ Len(head) = R /\ Open(head, R, R)
        /\ \A k \in 1 .. R : head[k] = [name |-> around[k], parent |-> k - 1, text |-> NoText]
    BY <1>1, RootIs
  <1>3. Table(doc, head, around, shape, rows)
    BY <1>1
  <1>4. doc \in Documents(Str) /\ Tabled(doc, R, R, W, N, head, shape, rows)
    BY <1>2, <1>3, TableIsLaid
  <1>5. PICK base : /\ RowsPlaced(doc, base, R, W, N)
                    /\ Filled(doc, base, R, W, N, shape, rows)
                    /\ Headed(doc, head, R)
    BY <1>4 DEF Tabled
  <1>6. \A k \in 1 .. R : /\ doc[k].name = around[k] /\ doc[k].parent = k - 1 /\ doc[k].text
                               = NoText
    BY <1>2, <1>5 DEF Headed
  <1>7. R <= Len(doc)
    BY <1>5 DEF Headed
  <1> QED BY <1>4, <1>5, <1>6, <1>7 DEF AnswerIs

\* The document of an answer is such a table.
LEMMA AnswerLaid ==
  ASSUME NEW Str, NoText \in Str, NEW around, NEW R \in Nat, DOMAIN around = 1 .. R,
      Len(around) = R,
         \A k \in 1 .. R : around[k] \in Str, NEW W \in Nat, NEW shape, Nested(Str, shape, W),
         NEW N \in Nat, NEW rows, Len(rows) = N, \A n \in 1 .. N : RowOf(Str, W, rows[n]),
         NEW doc, doc = AnswerDoc(around, shape, rows)
  PROVE  \E base : AnswerIs(Str, doc, around, shape, W, N, rows, base)
  <1>1. Table(doc, Xml!Root(around).doc, around, shape, rows)
    BY AnswerDocsAre
  <1> QED BY <1>1, TableIs

\* The paths of the elements around the records.
LEMMA OuterPath ==
  ASSUME NEW Str, NEW doc \in Documents(Str), 1 <= Len(doc), doc[1].parent = 0
  PROVE  /\ Xml!Path(doc, 1) = <<Xml!ToLower(doc[1].name)>>
         /\ 2 <= Len(doc) /\ doc[2].parent = 1 =>
              Xml!Path(doc, 2) = Append(<<Xml!ToLower(doc[1].name)>>, Xml!ToLower(doc[2].name))
  <1>1. PathsFrom(doc, 1) /\ Len(doc) \in Nat
    BY PathsAre DEF Documents
  <1>2. Xml!PathTo(doc, 1, 1) = <<Xml!ToLower(doc[1].name)>>
    BY <1>1 DEF PathsFrom
  <1>3. ASSUME 2 <= Len(doc), doc[2].parent = 1
        PROVE  Xml!PathTo(doc, 2, 1) = Append(Xml!PathTo(doc, 1, 1), Xml!ToLower(doc[2].name))
    BY <1>1, <1>3 DEF PathsFrom
  <1> QED BY ONLY <1>2, <1>3 DEF Xml!Path

FieldValues == {NoText, "k1", "k2", "e1", "e2", "i1", "i2", "d1", "p1", "p2", "o", "v1", "v2",
                "markup"}
Strs == ElementNames \cup FieldValues

\* The texts of the elements of an object.
ObjectRow(o) == <<"", o.key, o.etag, "", o.id>>
ObjectRows(records) == [n \in DOMAIN records |-> ObjectRow(records[n])]

\* The row of an object.
LEMMA ObjectIs ==
  ASSUME NEW o \in Objects
  PROVE  /\ ObjectRow(o)[1] = NoText /\ ObjectRow(o)[2] = o.key /\ ObjectRow(o)[3] = o.etag
         /\ ObjectRow(o)[4] = NoText /\ ObjectRow(o)[5] = o.id
         /\ o.key # NoText /\ o.key \in Strs /\ o.etag \in Strs /\ o.id \in Strs /\ NoText \in Strs
         /\ o = [key |-> o.key, etag |-> o.etag, id |-> o.id]
  <1>1. /\ o.key \in {"k1", "k2"} /\ o.etag \in {NoText, "e1", "e2"} /\ o.id \in {NoText, "i1"}
        /\ o = [key |-> o.key, etag |-> o.etag, id |-> o.id]
    BY DEF Objects, NoText
  <1>2. "k1" # NoText /\ "k2" # NoText
    BY DEF NoText
  <1>3. ObjectRow(o) = <<NoText, o.key, o.etag, NoText, o.id>>
    BY DEF ObjectRow, NoText
  <1> QED BY <1>1, <1>2, <1>3 DEF Strs, FieldValues

\* A listing is a table of objects.
LEMMA ListingIs ==
  ASSUME NEW records \in Seq(Objects), NEW N \in Nat, Len(records) = N,
         NEW doc, doc = Listing(records), NEW rows, rows = ObjectRows(records)
  PROVE  \E base : /\ AnswerIs(Strs, doc, <<"listbucketresult">>, ListingShape, 5, N, rows, base)
                   /\ Described(doc, base, 1, 5, N, rows, ListingPaths,
                                <<"listbucketresult", "contents">>, ElementNames)
  <1>1. PICK around : around = <<"listbucketresult">>
    OBVIOUS
  <1>2. DOMAIN around = 1 .. 1 /\ Len(around) = 1 /\ around[1] = "listbucketresult"
    BY <1>1
  <1>3. DOMAIN rows = 1 .. N /\ Len(rows) = N /\ \A n \in 1 .. N : rows[n] = ObjectRow(records[n])
    BY DEF ObjectRows
  <1>4. ASSUME NEW n \in 1 .. N PROVE RowOf(Strs, 5, rows[n])
    <2>1. records[n] \in Objects
      OBVIOUS
    <2> QED BY <1>3, <2>1, ObjectIs, ListingShapeIs DEF RowOf
  <1>5. doc = AnswerDoc(around, ListingShape, rows)
    BY <1>1 DEF Listing, ListingShape, ObjectRows, ObjectRow
  <1>6. PICK base : AnswerIs(Strs, doc, around, ListingShape, 5, N, rows, base)
    <2>1. Nested(Strs, ListingShape, 5)
      BY ListingNested DEF Strs
    <2>2. NoText \in Strs /\ \A k \in 1 .. 1 : around[k] \in Strs
      BY <1>2 DEF Strs, FieldValues, ElementNames
    <2> QED BY ONLY <1>2, <1>3, <1>4, <1>5, <2>1, <2>2, AnswerLaid, N \in Nat, 1 \in Nat, 5 \in Nat
  <1>7. /\ doc \in Documents(Strs) /\ RowsPlaced(doc, base, 1, 5, N)
        /\ Filled(doc, base, 1, 5, N, ListingShape, rows)
        /\ 1 <= Len(doc) /\ doc[1].name = "listbucketresult" /\ doc[1].parent = 0 /\ doc[1].text
             = NoText
    <2>1. 1 \in 1 .. 1 /\ 1 - 1 = 0
      OBVIOUS
    <2> QED BY <1>2, <1>6, <2>1 DEF AnswerIs
  <1>8. Xml!Path(doc, 1) = <<"listbucketresult">>
    <2>1. "listbucketresult" \in ElementNames
      BY DEF ElementNames
    <2> QED BY <1>7, <2>1, OuterPath, LowerIs
  <1>9. Described(doc, base, 1, 5, N, rows, ListingPaths,
                  <<"listbucketresult", "contents">>, ElementNames)
    <2>1. \A k \in 1 .. 1 : doc[k].text = NoText
      BY <1>7
    <2>2. 1 \in 1 .. 1
      OBVIOUS
    <2> QED BY ONLY <1>7, <1>8, <2>1, <2>2, ListingSited, DescribedIs, N \in Nat, 1 \in Nat,
        5 \in Nat
  <1> QED BY <1>1, <1>6, <1>9

\* Objects that are alike are even rows.
LEMMA EvenObjects ==
  ASSUME NEW records \in Seq(Objects), NEW N \in Nat, Len(records) = N, Alike(records)
  PROVE  Even(ObjectRows(records), 5, N)
  <1>1. PICK rows : rows = ObjectRows(records)
    OBVIOUS
  <1>2. ASSUME NEW n \in 1 .. N
        PROVE  /\ n \in DOMAIN records /\ DOMAIN records[n] = {"key", "etag", "id"}
               /\ rows[n][1] = NoText /\ rows[n][2] = records[n].key /\ rows[n][2] # NoText
               /\ rows[n][3] = records[n].etag /\ rows[n][4] = NoText
               /\ rows[n][5] = records[n].id
    <2>1. PICK o \in Objects : o = records[n] /\ n \in DOMAIN records
      OBVIOUS
    <2>2. rows[n] = ObjectRow(o)
      BY <1>1, <2>1 DEF ObjectRows
    <2>3. DOMAIN o = {"key", "etag", "id"}
      BY DEF Objects
    <2> QED BY <2>1, <2>2, <2>3, ObjectIs
  <1>3. \A m, n \in 1 .. N : \A f \in {"key", "etag", "id"} :
          (records[m][f] = NoText) = (records[n][f] = NoText)
    <2>1. \A m, n \in DOMAIN records : \A f \in DOMAIN records[m] :
            (records[m][f] = NoText) = (records[n][f] = NoText)
      BY DEF Alike, NoText
    <2> QED BY ONLY <1>2, <2>1
  <1>4. \A m, n \in 1 .. N : /\ (rows[m][3] = NoText) = (rows[n][3] = NoText)
                             /\ (rows[m][5] = NoText) = (rows[n][5] = NoText)
    <2>1. \A m, n \in 1 .. N : /\ (records[m]["etag"] = NoText) = (records[n]["etag"] = NoText)
                               /\ (records[m]["id"] = NoText) = (records[n]["id"] = NoText)
      BY <1>3
    <2> QED BY <1>2, <2>1
  <1>5. \A j \in 1 .. 5 : \A m, n \in 1 .. N : (rows[m][j] = NoText) = (rows[n][j] = NoText)
    <2>1. 1 .. 5 = {1, 2, 3, 4, 5}
      OBVIOUS
    <2> QED BY <1>2, <1>4, <2>1
  <1> QED BY <1>1, <1>5 DEF Even

\* The objects of a listing whose objects are alike.
LEMMA ObjectsAreListed ==
  ASSUME NEW records \in Seq(Objects), Alike(records)
  PROVE  All(AsObject, Xml!ParseObjects(Listing(records)).keys) = records
  <1>n. PICK N \in Nat : Len(records) = N
    OBVIOUS
  <1>1. PICK doc, rows : /\ Len(records) = N /\ doc = Listing(records)
                         /\ rows = ObjectRows(records)
    BY <1>n
  <1>2. PICK prefix : prefix = <<"listbucketresult", "contents">>
    OBVIOUS
  <1>3. PICK base : /\ doc \in Documents(Strs)
                    /\ Described(doc, base, 1, 5, N, rows, ListingPaths, prefix, ElementNames)
    BY <1>1, <1>2, ListingIs DEF AnswerIs
  <1>4. \A n \in 1 .. N : /\ records[n] \in Objects /\ rows[n] = ObjectRow(records[n])
    BY <1>1 DEF ObjectRows
  <1>5. HasTexts(rows, N, 2)
    BY <1>4, ObjectIs DEF HasTexts
  <1>6. PICK r : r = Xml!RecordList(prefix, Xml!DOMToDict(doc))
    OBVIOUS
  <1>7. RecordsOf(r, ListingPaths, 5, N, rows)
    <2>1. Even(rows, 5, N)
      BY <1>1, EvenObjects
    <2>2. 2 \in 1 .. 5
      OBVIOUS
    <2> QED BY ONLY <1>3, <1>5, <1>6, <2>1, <2>2, RecordsAre, 1 \in Nat, 5 \in Nat, N \in Nat
  <1>8. PICK keys : keys = Xml!ParseObjects(doc).keys
    OBVIOUS
  <1>9. keys = [n \in DOMAIN r |-> [f \in Xml!ObjectFields |-> Xml!Get(r[n], f)]]
    BY ONLY <1>2, <1>6, <1>8 DEF Xml!ParseObjects, Xml!Fields
  <1>10. DOMAIN r = 1 .. N
    BY <1>7 DEF RecordsOf
  <1>11. ASSUME NEW n \in 1 .. N PROVE AsObject(keys[n]) = records[n]
    <2>1. PICK k, e, i : k = <<"key">> /\ e = <<"etag">> /\ i = <<"owner", "id">>
      OBVIOUS
    <2>2. keys[n] = [f \in {k, e, i} |-> Xml!Get(r[n], f)]
      BY ONLY <1>9, <1>10, <2>1, n \in 1 .. N DEF Xml!ObjectFields
    <2>3. k = ListingPaths[2] /\ e = ListingPaths[3] /\ i = ListingPaths[5]
      BY <2>1 DEF ListingPaths
    <2>4. /\ Xml!Get(r[n], k) = rows[n][2] /\ Xml!Get(r[n], e) = rows[n][3]
          /\ Xml!Get(r[n], i) = rows[n][5]
      <3>1. \A j \in 1 .. 5 : Xml!Get(r[n], ListingPaths[j]) = rows[n][j]
        BY <1>7 DEF RecordsOf
      <3> QED BY <2>3, <3>1
    <2>5. keys[n][k] = rows[n][2] /\ keys[n][e] = rows[n][3] /\ keys[n][i] = rows[n][5]
      BY ONLY <2>2, <2>4
    <2>6. AsObject(keys[n]) = [key |-> keys[n][k], etag |-> keys[n][e], id |-> keys[n][i]]
      BY ONLY <2>1 DEF AsObject
    <2> QED BY <1>4, <2>5, <2>6, ObjectIs
  <1>12. DOMAIN keys = 1 .. N
    BY <1>9, <1>10
  <1>13. All(AsObject, keys) = [n \in 1 .. N |-> AsObject(keys[n])]
    BY ONLY <1>12 DEF All
  <1>14. records = [n \in 1 .. N |-> records[n]]
    BY <1>1
  <1> QED BY <1>1, <1>8, <1>11, <1>13, <1>14

\* The first of the elements, when there is one.
LEMMA FirstText ==
  ASSUME NEW doc, NEW k \in Nat
  PROVE  Xml!TextOfFirst(doc, {k}) = doc[k].text
  <1>1. Xml!Min({k}) = k
    <2>1. {k} \subseteq Nat /\ k \in {k} /\ \A n \in {k} : k <= n
      OBVIOUS
    <2> QED BY ONLY <2>1, MinIs
  <1>2. {k} # {}
    OBVIOUS
  <1> QED BY <1>1, <1>2 DEF Xml!TextOfFirst

\* The one element with the path of an identity, inside of an object.
IdOf(doc, c, id) ==
  {k \in Xml!Inside(doc, c) : Xml!PathTo(doc, k, c) = <<"contents", "owner", "id">>} = {id}

\* Of the elements inside of an object of a listing, one is its identity.
LEMMA IdInside ==
  ASSUME NEW doc \in Documents(Strs), NEW N \in Nat, NEW rows, NEW base,
         RowsPlaced(doc, base, 1, 5, N), Filled(doc, base, 1, 5, N, ListingShape, rows),
         NEW n \in 1 .. N
  PROVE  IdOf(doc, base[n] + 1, base[n] + 5)
  <1>0. PICK c : c = base[n] + 1
    OBVIOUS
  <1>1. PICK top \in Nat, from \in Nat :
          /\ Len(doc) = top /\ DOMAIN doc = 1 .. top
          /\ from = base[n] /\ from >= 1 /\ from + 5 <= top
    <2>1. base[n] \in Nat /\ base[n] >= 1 /\ base[n] + 5 <= Len(doc)
      BY DEF RowsPlaced
    <2>2. Len(doc) \in Nat /\ DOMAIN doc = 1 .. Len(doc)
      BY DEF Documents
    <2> QED BY <2>1, <2>2
  <1>c. c = from + 1
    BY <1>0, <1>1
  <1>2. /\ \A m \in 1 .. N : base[m] \in Nat
        /\ \A i, m \in 1 .. N : i < m => base[i] + 5 <= base[m]
        /\ \A k \in 2 .. top : \E m \in 1 .. N, j \in 1 .. 5 : k = base[m] + j
    <2>1. 1 + 1 = 2
      OBVIOUS
    <2> QED BY <1>1, <2>1 DEF RowsPlaced
  <1>3. \A m \in 1 .. N, j \in 1 .. 5 :
          /\ doc[base[m] + j].name = ListingShape[j].name
          /\ doc[base[m] + j].parent
               = IF ListingShape[j].under = 0 THEN 1 ELSE base[m] + ListingShape[j].under
    BY DEF Filled
  <1>4. PICK one, path : one = <<"contents">> /\ path = <<"contents", "owner", "id">>
    OBVIOUS
  <1>5. one \in Seq(ElementNames) /\ path = one \o ListingPaths[5] /\ one = one \o ListingPaths[1]
    BY <1>4 DEF ElementNames, ListingPaths
  <1>6. /\ Continued(ElementNames, ListingPaths, 5, ListingShape)
        /\ \A i, j \in 1 .. 5 : ListingPaths[i] = ListingPaths[j] => i = j
    BY ListingSited DEF Sited
  <1>7. \A j \in 1 .. 5 : Xml!PathTo(doc, from + j, c) = one \o ListingPaths[j]
    <2>1. c \in Nat /\ c = from + 1 /\ c \in 1 .. top
      BY <1>1, <1>c
    <2>2. Xml!PathTo(doc, c, c) = <<Xml!ToLower(doc[c].name)>>
      <3>1. PathsFrom(doc, c)
        BY <2>1, PathsAre
      <3>2. doc[c].parent \in Nat
        <4>1. c \in 1 .. Len(doc)
          BY <1>1, <2>1
        <4>2. doc[c].parent \in 0 .. c - 1
          BY <4>1 DEF Documents
        <4> QED BY ONLY <4>2
      <3> QED BY <1>1, <2>1, <3>1, <3>2 DEF PathsFrom
    <2>3. Xml!PathTo(doc, from + 1, c) = one \o ListingPaths[1]
      <3>1. doc[c].name = "contents"
        BY <1>1, <1>3, <2>1, ListingShapeIs
      <3>2. Xml!ToLower("contents") = "contents"
        BY LowerIs DEF ElementNames
      <3> QED BY ONLY <1>4, <1>5, <2>1, <2>2, <3>1, <3>2
    <2>4. PathsBelow(doc, from, c, one, ListingPaths, 5)
      <3>1. c <= from + 1
        BY <2>1
      <3> QED BY ONLY <1>1, <1>5, <1>6, <2>1, <2>3, <3>1, doc \in Documents(Strs), N \in Nat,
                      n \in 1 .. N, RowsPlaced(doc, base, 1, 5, N), 1 \in Nat, 5 \in Nat,
                      Filled(doc, base, 1, 5, N, ListingShape, rows), PathsGrow
    <2> QED BY <2>4 DEF PathsBelow
  <1>8. from + 5 \in Xml!Inside(doc, c) /\ Xml!PathTo(doc, from + 5, c) = path
    <2>1. ASSUME NEW m \in c + 1 .. from + 5 PROVE doc[m].parent >= c
      <3>1. PICK j \in 2 .. 5 : m = from + j
        <4>1. m - from \in 2 .. 5 /\ m = from + (m - from)
          BY ONLY <1>c, from \in Nat, m \in c + 1 .. from + 5
        <4> QED BY <4>1
      <3>2. j \in 1 .. 5 /\ ListingShape[j].under \in {1, 4}
        BY ListingShapeIs
      <3>3. doc[m].parent = from + ListingShape[j].under
        <4>1. doc[base[n] + j].parent
                = IF ListingShape[j].under = 0 THEN 1 ELSE base[n] + ListingShape[j].under
          BY <1>3, <3>2
        <4>2. ListingShape[j].under # 0
          BY ONLY <3>2
        <4> QED BY ONLY <1>1, <3>1, <4>1, <4>2
      <3> QED BY ONLY <1>c, <3>2, <3>3, from \in Nat
    <2>2. from + 5 \in DOMAIN doc /\ c <= from + 5
      BY <1>1, <1>c
    <2>3. from + 5 \in Xml!Inside(doc, c)
      BY <2>1, <2>2 DEF Xml!Inside
    <2>4. 5 \in 1 .. 5
      OBVIOUS
    <2> QED BY <1>5, <1>7, <2>3, <2>4
  <1>9. ASSUME NEW k \in Xml!Inside(doc, c), Xml!PathTo(doc, k, c) = path PROVE k = from + 5
    <2>1. k \in 1 .. top /\ c <= k /\ \A m \in c + 1 .. k : doc[m].parent >= c
      BY <1>1 DEF Xml!Inside
    <2>2. PICK m \in 1 .. N, j \in 1 .. 5 : k = base[m] + j
      <3>1. k \in 2 .. top
        BY <1>1, <1>c, <2>1
      <3> QED BY <1>2, <3>1
    <2>3. PICK b \in Nat : b = base[m]
      BY <1>2
    <2>4. ~ m < n
      <3>1. m < n => b + 5 <= from
        BY <1>1, <1>2, <2>3
      <3> QED BY ONLY <1>c, <2>1, <2>2, <2>3, <3>1, from \in Nat, b \in Nat, j \in 1 .. 5
    <2>5. ~ n < m
      <3>1. SUFFICES ASSUME n < m PROVE FALSE
        OBVIOUS
      <3>2. from + 5 <= b
        BY <1>1, <1>2, <2>3, <3>1
      <3>3. b + 1 \in c + 1 .. k
        BY ONLY <1>c, <2>2, <2>3, <3>2, from \in Nat, b \in Nat, j \in 1 .. 5
      <3>4. doc[b + 1].parent = 1
        BY <1>3, <2>3, ListingShapeIs
      <3>5. 1 >= c
        BY <2>1, <3>3, <3>4
      <3> QED BY <1>1, <1>c, <3>5
    <2>6. m = n
      BY <2>4, <2>5
    <2>7. one \o ListingPaths[j] = one \o ListingPaths[5]
      BY <1>1, <1>5, <1>7, <1>9, <2>2, <2>6
    <2>8. ListingPaths[j] = ListingPaths[5]
      <3>1. PICK s \in Seq(ElementNames),
          t \in Seq(ElementNames) : s = ListingPaths[j] /\ t = ListingPaths[5]
        <4>1. 5 \in 1 .. 5
          OBVIOUS
        <4> QED BY <1>6, <4>1 DEF Continued
      <3>2. \A x \in Seq(ElementNames), y \in Seq(ElementNames) : one \o x = one \o y => x = y
        BY <1>5, JoinedPrefix
      <3> QED BY <2>7, <3>1, <3>2
    <2>9. j = 5
      BY <1>6, <2>8
    <2> QED BY <1>1, <2>2, <2>6, <2>9
  <1>10. Xml!Inside(doc, c) \subseteq Nat
    BY <1>1 DEF Xml!Inside
  <1>11. {k \in Xml!Inside(doc, c) : Xml!PathTo(doc, k, c) = path} = {from + 5}
    BY <1>8, <1>9
  <1> QED BY ONLY <1>0, <1>1, <1>4, <1>11 DEF IdOf

\* What is looked up under every object of a listing is its own.
LEMMA IdsAreFound ==
  ASSUME NEW records \in Seq(Objects)
  PROVE  Xml!ParseXMLMultiPathText(Listing(records), <<"listbucketresult">>,
                                   <<"contents", "owner", "id">>)
           = [n \in DOMAIN records |-> records[n].id]
  <1>n. PICK N \in Nat : Len(records) = N
    OBVIOUS
  <1>1. PICK doc, rows : /\ Len(records) = N /\ doc = Listing(records)
                         /\ rows = ObjectRows(records)
    BY <1>n
  <1>2. PICK base : /\ AnswerIs(Strs, doc, <<"listbucketresult">>, ListingShape, 5, N, rows, base)
                    /\ Described(doc, base, 1, 5, N, rows, ListingPaths,
                                 <<"listbucketresult", "contents">>, ElementNames)
    BY <1>1, ListingIs
  <1>3. PICK prefix, path : prefix = <<"listbucketresult", "contents">> /\ path
      = <<"listbucketresult">>
    OBVIOUS
  <1>4. /\ doc \in Documents(Strs) /\ RowsPlaced(doc, base, 1, 5, N)
        /\ Filled(doc, base, 1, 5, N, ListingShape, rows)
        /\ 1 <= Len(doc) /\ doc[1].name = "listbucketresult" /\ doc[1].parent = 0
    <2>1. Len(path) = 1 /\ 1 \in 1 .. Len(path) /\ path[1] = "listbucketresult" /\ 1 - 1 = 0
      BY <1>3
    <2> QED BY <1>2, <1>3, <2>1 DEF AnswerIs
  <1>5. PICK top \in Nat : Len(doc) = top /\ DOMAIN doc = 1 .. top /\ 1 <= top
    BY <1>4 DEF Documents
  <1>6. /\ \A n \in 1 .. N : base[n] \in Nat /\ base[n] >= 1 /\ base[n] + 5 <= top
        /\ \A m, n \in 1 .. N : m < n => base[m] + 5 <= base[n]
        /\ \A k \in 2 .. top : \E n \in 1 .. N, j \in 1 .. 5 : k = base[n] + j
    <2>1. 1 + 1 = 2
      OBVIOUS
    <2> QED BY <1>4, <1>5, <2>1 DEF RowsPlaced
  <1>7. {k \in DOMAIN doc : Xml!Path(doc, k) = path} = {1}
    <2>1. Xml!Path(doc, 1) = path
      <3>1. Xml!Path(doc, 1) = <<Xml!ToLower(doc[1].name)>>
        BY <1>4, OuterPath
      <3>2. Xml!ToLower("listbucketresult") = "listbucketresult"
        BY LowerIs DEF ElementNames
      <3> QED BY <1>3, <1>4, <3>1, <3>2
    <2>2. ASSUME NEW k \in 1 .. top, k # 1 PROVE Xml!Path(doc, k) # path
      <3>1. PICK n \in 1 .. N, j \in 1 .. 5 : k = base[n] + j
        <4>1. k \in 2 .. top
          BY <2>2
        <4> QED BY <1>6, <4>1
      <3>2. Xml!Path(doc, k) = prefix \o ListingPaths[j]
        BY <1>2, <1>3, <3>1 DEF Described
      <3>3. PICK s \in Seq(ElementNames) : s = ListingPaths[j]
        BY <1>2 DEF Described
      <3>4. Len(prefix \o s) # 1
        <4>1. prefix \in Seq(ElementNames) /\ Len(prefix) = 2
          BY <1>3 DEF ElementNames
        <4>2. \A x, y \in Seq(ElementNames) : Len(x \o y) = Len(x) + Len(y) /\ Len(y) \in Nat
          OBVIOUS
        <4>3. Len(prefix \o s) = 2 + Len(s) /\ Len(s) \in Nat
          BY ONLY <4>1, <4>2, s \in Seq(ElementNames)
        <4> QED BY ONLY <4>3
      <3>5. Len(path) = 1
        BY <1>3
      <3> QED BY ONLY <3>2, <3>3, <3>4, <3>5
    <2> QED BY <1>5, <2>1, <2>2
  <1>8. PICK g : g = [n \in 1 .. N |-> base[n] + 1]
    OBVIOUS
  <1>9. PICK C : C = {g[n] : n \in 1 .. N}
    OBVIOUS
  <1>10. Xml!Children(doc, 1, "contents") = C
    <2>1. ASSUME NEW k \in DOMAIN doc, doc[k].name = "contents" PROVE k \in C
      <3>1. k \in 2 .. top
        <4>1. "contents" # "listbucketresult"
          OBVIOUS
        <4>2. k # 1
          BY <1>4, <2>1, <4>1
        <4> QED BY <1>5, <4>2
      <3>2. PICK n \in 1 .. N, j \in 1 .. 5 : k = base[n] + j
        BY <1>6, <3>1
      <3>3. ListingShape[j].name = "contents"
        BY <1>4, <2>1, <3>2 DEF Filled
      <3>4. j = 1
        BY <3>3, ListingShapeIs
      <3> QED BY <1>8, <1>9, <3>2, <3>4
    <2>2. ASSUME NEW n \in 1 .. N
          PROVE  /\ g[n] \in DOMAIN doc /\ doc[g[n]].name = "contents" /\ doc[g[n]].parent = 1
      <3>1. 1 \in 1 .. 5
        OBVIOUS
      <3>2. doc[base[n] + 1].name = "contents" /\ doc[base[n] + 1].parent = 1
        BY <1>4, <3>1, ListingShapeIs DEF Filled
      <3>3. base[n] + 1 \in 1 .. top
        <4>1. base[n] \in Nat /\ base[n] + 5 <= top
          BY ONLY <1>6, n \in 1 .. N
        <4> QED BY ONLY <4>1, top \in Nat
      <3> QED BY <1>5, <1>8, <3>2, <3>3
    <2> QED BY <1>9, <2>1, <2>2 DEF Xml!Children
  <1>11. Xml!InOrder(doc, C) = [n \in 1 .. N |-> base[n] + 1]
    <2>1. Ascending(g, N, top)
      <3>1. ASSUME NEW n \in 1 .. N PROVE g[n] \in 1 .. top
        <4>1. g[n] = base[n] + 1
          BY <1>8
        <4> QED BY <1>6, <4>1
      <3>2. ASSUME NEW m \in 1 .. N, NEW n \in 1 .. N, m < n PROVE g[m] < g[n]
        <4>1. g[m] = base[m] + 1 /\ g[n] = base[n] + 1
          BY <1>8
        <4>2. base[m] \in Nat /\ base[n] \in Nat /\ base[m] + 5 <= base[n]
          BY ONLY <1>6, <3>2, m \in 1 .. N, n \in 1 .. N
        <4> QED BY ONLY <4>1, <4>2
      <3> QED BY <3>1, <3>2 DEF Ascending
    <2>2. Xml!InOrder(doc, C) = [n \in 1 .. N |-> g[n]]
      BY ONLY <1>5, <1>9, <2>1, InOrderIs, N \in Nat, top \in Nat
    <2> QED BY <1>8, <2>2
  <1>12. PICK under : under = <<"contents", "owner", "id">>
    OBVIOUS
  <1>13. Head(under) = "contents"
    BY <1>12
  <1>14. PICK at, barren, seen :
           /\ at = {k \in DOMAIN doc : Xml!Path(doc, k) = path}
           /\ barren = {k \in at : Xml!Children(doc, k, Head(under)) = {}}
           /\ seen = {k \in at : \A b \in barren : k < b}
    OBVIOUS
  <1>15. UNION {Xml!Children(doc, k, Head(under)) : k \in seen} = C
    <2>1. at = {1}
      BY <1>7, <1>14
    <2>2. CASE C = {}
      <3>1. barren = {1}
        BY <1>10, <1>13, <1>14, <2>1, <2>2
      <3>2. seen = {}
        BY <1>14, <2>1, <3>1
      <3> QED BY <2>2, <3>2
    <2>3. CASE C # {}
      <3>1. barren = {}
        BY <1>10, <1>13, <1>14, <2>1, <2>3
      <3>2. seen = {1}
        BY <1>14, <2>1, <3>1
      <3> QED BY <1>10, <1>13, <3>2
    <2> QED BY <2>2, <2>3
  <1>16. PICK found : found
      = Xml!InOrder(doc, UNION {Xml!Children(doc, k, Head(under)) : k \in seen})
    OBVIOUS
  <1>17. found = [n \in 1 .. N |-> base[n] + 1]
    BY <1>11, <1>15, <1>16
  <1>18. Xml!ParseXMLMultiPathText(doc, path, under)
           = [n \in DOMAIN found |->
                Xml!TextOfFirst(doc, {k \in Xml!Inside(doc, found[n]) :
                                        Xml!PathTo(doc, k, found[n]) = under})]
    BY ONLY <1>14, <1>16 DEF Xml!ParseXMLMultiPathText
  <1>19. ASSUME NEW n \in 1 .. N
         PROVE  Xml!TextOfFirst(doc, {k \in Xml!Inside(doc, found[n]) :
                                        Xml!PathTo(doc, k, found[n]) = under})
                  = records[n].id
    <2>1. found[n] = base[n] + 1
      BY <1>17
    <2>2. {k \in Xml!Inside(doc, found[n]) : Xml!PathTo(doc, k, found[n]) = under} = {base[n] + 5}
      <3>1. {k \in Xml!Inside(doc, base[n] + 1) :
               Xml!PathTo(doc, k, base[n] + 1) = <<"contents", "owner", "id">>} = {base[n] + 5}
        <4>1. IdOf(doc, base[n] + 1, base[n] + 5)
          BY ONLY <1>4, IdInside, N \in Nat, n \in 1 .. N
        <4> QED BY ONLY <4>1 DEF IdOf
      <3> QED BY ONLY <1>12, <2>1, <3>1
    <2>3. base[n] + 5 \in Nat
      BY <1>6
    <2>4. doc[base[n] + 5].text = rows[n][5]
      <3>1. 5 \in 1 .. 5
        OBVIOUS
      <3> QED BY <1>4, <3>1 DEF Filled
    <2>5. rows[n][5] = records[n].id
      <3>1. records[n] \in Objects /\ rows[n] = ObjectRow(records[n])
        BY <1>1 DEF ObjectRows
      <3> QED BY <3>1, ObjectIs
    <2> QED BY <2>2, <2>3, <2>4, <2>5, FirstText
  <1>20. DOMAIN found = 1 .. N /\ DOMAIN records = 1 .. N
    BY <1>1, <1>17
  <1> QED BY ONLY <1>1, <1>3, <1>12, <1>18, <1>19, <1>20

-----------------------------------------------------------------------------
(* Buckets.                                                                *)

\* The elements of a bucket, and their paths.
BucketsShape == <<Under("bucket", 0), Under("name", 1), Under("creationdate", 1)>>
BucketsPaths == <<<<"bucket">>, <<"bucket", "name">>, <<"bucket", "creationdate">>>>

\* The shape of a bucket, element by element.
LEMMA BucketsShapeIs ==
  /\ DOMAIN BucketsShape = 1 .. 3 /\ 1 .. 3 = {1, 2, 3} /\ 2 .. 3 = {2, 3}
  /\ BucketsShape[1].name = "bucket" /\ BucketsShape[1].under = 0
  /\ BucketsShape[2].name = "name" /\ BucketsShape[2].under = 1
  /\ BucketsShape[3].name = "creationdate" /\ BucketsShape[3].under = 1
  BY DEF BucketsShape, Under

\* It is a shape.
LEMMA BucketsNested ==
  ASSUME NEW Str, ElementNames \subseteq Str
  PROVE  Nested(Str, BucketsShape, 3)
  BY BucketsShapeIs DEF Nested, ElementNames

\* Its places have paths below that of the buckets.
LEMMA BucketsSited ==
  Sited(ElementNames, BucketsPaths, 3, BucketsShape, <<"listallmybucketsresult", "buckets">>,
        <<"listallmybucketsresult", "buckets">>)
  <1>1. Continued(ElementNames, BucketsPaths, 3, BucketsShape)
    <2>1. /\ BucketsPaths[1] \in Seq(ElementNames) /\ BucketsPaths[2] \in Seq(ElementNames)
          /\ BucketsPaths[3] \in Seq(ElementNames)
      BY DEF BucketsPaths, ElementNames
    <2>2. \A j \in 1 .. 3 : BucketsShape[j].name \in ElementNames
      BY BucketsShapeIs DEF ElementNames
    <2>3. \A j \in 1 .. 3 : Xml!ToLower(BucketsShape[j].name) = BucketsShape[j].name
      BY <2>2, LowerIs
    <2>4. /\ BucketsPaths[2] = Append(BucketsPaths[1], "name")
          /\ BucketsPaths[3] = Append(BucketsPaths[1], "creationdate")
      BY DEF BucketsPaths
    <2>5. BucketsShape[2].under \in 1 .. 2 - 1 /\ BucketsShape[3].under \in 1 .. 3 - 1
      BY BucketsShapeIs
    <2>6. /\ BucketsPaths[2] = Append(BucketsPaths[BucketsShape[2].under], BucketsShape[2].name)
          /\ BucketsPaths[3] = Append(BucketsPaths[BucketsShape[3].under], BucketsShape[3].name)
      BY <2>4, BucketsShapeIs
    <2>7. \A j \in 2 .. 3 :
            /\ BucketsShape[j].under \in 1 .. j - 1
            /\ BucketsPaths[j] = Append(BucketsPaths[BucketsShape[j].under], BucketsShape[j].name)
      BY ONLY <2>5, <2>6, BucketsShapeIs
    <2>8. \A j \in 1 .. 3 : BucketsPaths[j] \in Seq(ElementNames)
      BY <2>1, BucketsShapeIs
    <2>9. 2 .. 3 \subseteq 1 .. 3
      OBVIOUS
    <2> QED BY ONLY <2>2, <2>3, <2>7, <2>8, <2>9 DEF Continued
  <1>2. \A i, j \in 1 .. 3 : BucketsPaths[i] = BucketsPaths[j] => i = j
    BY BucketsShapeIs DEF BucketsPaths
  <1>3. Append(<<"listallmybucketsresult", "buckets">>, Xml!ToLower(BucketsShape[1].name))
          = <<"listallmybucketsresult", "buckets">> \o BucketsPaths[1]
    BY BucketsShapeIs, LowerIs DEF BucketsPaths, ElementNames
  <1>4. <<"listallmybucketsresult", "buckets">> \in Seq(ElementNames)
    BY DEF ElementNames
  <1> QED BY <1>1, <1>2, <1>3, <1>4, BucketsShapeIs DEF Sited

\* The texts of the elements of a bucket.
BucketRow(o) == <<"", o.key, o.etag>>
BucketRows(records) == [n \in DOMAIN records |-> BucketRow(records[n])]

\* The row of a bucket.
LEMMA BucketIs ==
  ASSUME NEW o \in Objects
  PROVE  /\ BucketRow(o)[1] = NoText /\ BucketRow(o)[2] = o.key /\ BucketRow(o)[3] = o.etag
         /\ o.key # NoText /\ o.key \in Strs /\ o.etag \in Strs /\ NoText \in Strs
  <1>1. BucketRow(o) = <<NoText, o.key, o.etag>>
    BY DEF BucketRow, NoText
  <1> QED BY <1>1, ObjectIs

\* An answer of buckets is a table of them.
LEMMA BucketsIs ==
  ASSUME NEW records \in Seq(Objects), NEW N \in Nat, Len(records) = N,
         NEW doc, doc = Buckets(records), NEW rows, rows = BucketRows(records)
  PROVE  \E base : /\ doc \in Documents(Strs)
                   /\ Described(doc, base, 2, 3, N, rows, BucketsPaths,
                                <<"listallmybucketsresult", "buckets">>, ElementNames)
  <1>1. PICK around : around = <<"listallmybucketsresult", "buckets">>
    OBVIOUS
  <1>2. /\ DOMAIN around = 1 .. 2 /\ Len(around) = 2 /\ 1 .. 2 = {1, 2}
        /\ around[1] = "listallmybucketsresult" /\ around[2] = "buckets"
    BY <1>1
  <1>3. DOMAIN rows = 1 .. N /\ Len(rows) = N /\ \A n \in 1 .. N : rows[n] = BucketRow(records[n])
    BY DEF BucketRows
  <1>4. ASSUME NEW n \in 1 .. N PROVE RowOf(Strs, 3, rows[n])
    <2>1. records[n] \in Objects
      OBVIOUS
    <2> QED BY <1>3, <2>1, BucketIs, BucketsShapeIs DEF RowOf
  <1>5. doc = AnswerDoc(around, BucketsShape, rows)
    BY <1>1 DEF Buckets, BucketsShape, BucketRows, BucketRow
  <1>6. PICK base : AnswerIs(Strs, doc, around, BucketsShape, 3, N, rows, base)
    <2>1. Nested(Strs, BucketsShape, 3)
      BY BucketsNested DEF Strs
    <2>2. NoText \in Strs /\ \A k \in 1 .. 2 : around[k] \in Strs
      BY <1>2 DEF Strs, FieldValues, ElementNames
    <2> QED BY ONLY <1>2, <1>3, <1>4, <1>5, <2>1, <2>2, AnswerLaid, N \in Nat, 2 \in Nat, 3 \in Nat
  <1>7. /\ doc \in Documents(Strs) /\ RowsPlaced(doc, base, 2, 3, N)
        /\ Filled(doc, base, 2, 3, N, BucketsShape, rows)
        /\ 2 <= Len(doc) /\ doc[1].name = "listallmybucketsresult" /\ doc[1].parent = 0
        /\ doc[1].text = NoText
        /\ doc[2].name = "buckets" /\ doc[2].parent = 1 /\ doc[2].text = NoText
    <2>1. 1 \in 1 .. 2 /\ 2 \in 1 .. 2 /\ 1 - 1 = 0 /\ 2 - 1 = 1
      OBVIOUS
    <2> QED BY <1>2, <1>6, <2>1 DEF AnswerIs
  <1>8. Xml!Path(doc, 2) = around
    <2>1. "listallmybucketsresult" \in ElementNames /\ "buckets" \in ElementNames
      BY DEF ElementNames
    <2>2. 1 <= Len(doc)
      BY <1>7 DEF Documents
    <2>3. Xml!Path(doc, 2) = Append(<<"listallmybucketsresult">>, "buckets")
      BY <1>7, <2>1, <2>2, OuterPath, LowerIs
    <2> QED BY <1>1, <2>3
  <1>9. Described(doc, base, 2, 3, N, rows, BucketsPaths, around, ElementNames)
    <2>1. \A k \in 1 .. 2 : doc[k].text = NoText
      BY <1>2, <1>7
    <2>2. 2 \in 1 .. 2
      OBVIOUS
    <2>3. Sited(ElementNames, BucketsPaths, 3, BucketsShape, around, Xml!Path(doc, 2))
      BY ONLY <1>1, <1>8, BucketsSited
    <2> QED BY ONLY <1>7, <2>1, <2>2, <2>3, DescribedIs, N \in Nat, 2 \in Nat, 3 \in Nat
  <1> QED BY <1>1, <1>7, <1>9

\* The texts in a place of which not all records have one are too few.
LEMMA FewerTexts ==
  ASSUME NEW Str, NEW doc \in Documents(Str), NEW base, NEW R \in Nat, NEW W \in Nat,
         NEW N \in Nat, NEW rows, RowsPlaced(doc, base, R, W, N),
         NEW j \in 1 .. W, NEW k \in 1 .. N, rows[k][j] = NoText
  PROVE  Len(Xml!Texts(doc, Column(base, rows, N, j))) < N
  <1>1. PICK top \in Nat : Len(doc) = top
    BY DEF Documents
  <1>2. PICK g : g = [n \in 1 .. N |-> base[n] + j]
    OBVIOUS
  <1>3. ASSUME NEW n \in 1 .. N PROVE g[n] \in 1 .. top /\ base[n] \in Nat
    <2>1. base[n] \in Nat /\ base[n] + W <= top /\ g[n] = base[n] + j
      BY <1>1, <1>2 DEF RowsPlaced
    <2> QED BY ONLY <2>1, j \in 1 .. W, W \in Nat, top \in Nat
  <1>4. ASSUME NEW m \in 1 .. N, NEW n \in 1 .. N, m < n PROVE g[m] < g[n]
    <2>1. base[m] + W <= base[n] /\ g[m] = base[m] + j /\ g[n] = base[n] + j
      BY <1>2, <1>4 DEF RowsPlaced
    <2>2. base[m] \in Nat /\ base[n] \in Nat
      BY <1>3
    <2> QED BY ONLY <2>1, <2>2, j \in 1 .. W, W \in Nat
  <1>5. Ascending(g, N, top)
    BY <1>3, <1>4 DEF Ascending
  <1>6. PICK S, T : S = Column(base, rows, N, j) /\ T = {g[n] : n \in 1 .. N}
    OBVIOUS
  <1>7. Xml!InOrder(doc, T) = [n \in 1 .. N |-> g[n]]
    BY ONLY <1>1, <1>5, <1>6, InOrderIs, N \in Nat, top \in Nat
  <1>8. S \subseteq T
    BY <1>2, <1>6 DEF Column
  <1>9. g[k] \in T /\ g[k] \in 1 .. top
    BY <1>3, <1>6
  <1>10. g[k] \notin S
    <2>1. SUFFICES ASSUME g[k] \in S PROVE FALSE
      OBVIOUS
    <2>2. PICK n \in 1 .. N : g[k] = g[n] /\ rows[n][j] # NoText
      BY <1>2, <1>6, <2>1 DEF Column
    <2>3. n < k \/ k < n
      BY <2>2
    <2>4. g[n] \in Nat
      BY <1>3
    <2> QED BY <1>4, <2>2, <2>3, <2>4
  <1>11. Len(Xml!InOrder(doc, S)) < Len(Xml!InOrder(doc, T))
    BY ONLY <1>1, <1>8, <1>9, <1>10, FewerVisits, top \in Nat
  <1>12. Len(Xml!InOrder(doc, T)) = N
    BY <1>7
  <1>13. Len(Xml!Texts(doc, S)) = Len(Xml!InOrder(doc, S))
    BY DEF Xml!Texts
  <1> QED BY <1>6, <1>11, <1>12, <1>13

\* Buckets without all their dates are noticed, others are read.
LEMMA BucketsAreFound ==
  ASSUME NEW records \in Seq(Objects), NEW found, found = Xml!ParseBuckets(Buckets(records))
  PROVE  /\ found.ok = \A n \in DOMAIN records : records[n].etag # ""
         /\ found.ok => found.buckets
              = [n \in DOMAIN records |-> <<records[n].key, records[n].etag>>]
  <1>n. PICK N \in Nat : Len(records) = N
    OBVIOUS
  <1>1. PICK doc, rows : /\ Len(records) = N /\ doc = Buckets(records)
                         /\ rows = BucketRows(records)
    BY <1>n
  <1>2. PICK prefix : prefix = <<"listallmybucketsresult", "buckets">>
    OBVIOUS
  <1>3. PICK base : /\ doc \in Documents(Strs)
                    /\ Described(doc, base, 2, 3, N, rows, BucketsPaths, prefix, ElementNames)
    BY <1>1, <1>2, BucketsIs
  <1>4. PICK r : r = Xml!ExtractSubPaths(prefix, Xml!DOMToDict(doc))
    OBVIOUS
  <1>5. Columns(doc, base, 3, N, rows, BucketsPaths, r)
    BY ONLY <1>3, <1>4, SubPathsAre, 2 \in Nat, 3 \in Nat, N \in Nat
  <1>6. /\ DOMAIN r = {BucketsPaths[j] : j \in Used(rows, 3, N)}
        /\ \A j \in Used(rows, 3, N) : r[BucketsPaths[j]] = Xml!Texts(doc, Column(base, rows, N, j))
    BY <1>5 DEF Columns
  <1>7. \A i, j \in 1 .. 3 : BucketsPaths[i] = BucketsPaths[j] => i = j
    BY <1>3 DEF Described
  <1>8. \A n \in 1 .. N : /\ rows[n][1] = NoText /\ rows[n][2] = records[n].key
                          /\ rows[n][3] = records[n].etag /\ rows[n][2] # NoText
    <2>1. \A n \in 1 .. N : records[n] \in Objects /\ rows[n] = BucketRow(records[n])
      BY <1>1 DEF BucketRows
    <2> QED BY <2>1, BucketIs
  <1>9. PICK At : /\ At = [j \in 1 .. 3 |-> IF BucketsPaths[j] \in DOMAIN r THEN r[BucketsPaths[j]]
                                            ELSE <<>>]
    OBVIOUS
  <1>10. ASSUME NEW j \in 1 .. 3, HasTexts(rows, N, j)
         PROVE  At[j] = [n \in 1 .. N |-> rows[n][j]]
    <2>1. CASE N = 0
      <3>1. Used(rows, 3, N) = {}
        BY <2>1 DEF Used
      <3>2. At[j] = <<>>
        BY <1>6, <1>9, <3>1
      <3>3. [n \in 1 .. 0 |-> rows[n][j]] = <<>>
        OBVIOUS
      <3> QED BY <2>1, <3>2, <3>3
    <2>2. CASE N # 0
      <3>1. j \in Used(rows, 3, N)
        <4>1. 1 \in 1 .. N
          BY <2>2
        <4> QED BY <1>10, <4>1 DEF Used, HasTexts
      <3>2. At[j] = Xml!Texts(doc, Column(base, rows, N, j))
        BY <1>6, <1>9, <3>1
      <3>3. Xml!Texts(doc, Column(base, rows, N, j)) = [n \in 1 .. N |-> rows[n][j]]
        <4>1. /\ doc \in Documents(Strs) /\ HasTexts(rows, N, j)
              /\ Described(doc, base, 2, 3, N, rows, BucketsPaths, prefix, ElementNames)
          BY <1>3, <1>10
        <4>2. ColumnRead(doc, base, rows, N, j)
          BY ONLY <4>1, ColumnIsRead, 2 \in Nat, 3 \in Nat, N \in Nat, j \in 1 .. 3
        <4> QED BY <4>2 DEF ColumnRead
      <3> QED BY <3>2, <3>3
    <2> QED BY <2>1, <2>2
  <1>11. ASSUME NEW j \in 1 .. 3, NEW k \in 1 .. N, rows[k][j] = NoText
         PROVE  Len(At[j]) < N
    <2>1. CASE j \in Used(rows, 3, N)
      <3>1. At[j] = Xml!Texts(doc, Column(base, rows, N, j))
        BY <1>6, <1>9, <2>1
      <3>2. RowsPlaced(doc, base, 2, 3, N)
        BY <1>3 DEF Described
      <3>3. Len(Xml!Texts(doc, Column(base, rows, N, j))) < N
        BY ONLY <1>3, <1>11, <3>2, FewerTexts, 2 \in Nat, 3 \in Nat, N \in Nat, j \in 1 .. 3,
            k \in 1 .. N
      <3> QED BY <3>1, <3>3
    <2>2. CASE j \notin Used(rows, 3, N)
      <3>1. BucketsPaths[j] \notin DOMAIN r
        <4>1. \A i \in Used(rows, 3, N) : i \in 1 .. 3
          BY DEF Used
        <4> QED BY <1>6, <1>7, <2>2, <4>1
      <3>2. At[j] = <<>>
        BY <1>9, <3>1
      <3> QED BY <3>2
    <2> QED BY <2>1, <2>2
  <1>12. PICK a, b : a = At[2] /\ b = At[3]
    OBVIOUS
  <1>13. found = IF Len(a) # Len(b) THEN [ok |-> FALSE, buckets |-> <<>>]
                 ELSE [ok |-> TRUE, buckets |-> [n \in DOMAIN a |-> <<a[n], b[n]>>]]
    <2>1. BucketsPaths[2] = <<"bucket", "name">> /\ BucketsPaths[3] = <<"bucket", "creationdate">>
      BY DEF BucketsPaths
    <2>2. 2 \in 1 .. 3 /\ 3 \in 1 .. 3
      OBVIOUS
    <2>3. /\ a = IF <<"bucket", "name">> \in DOMAIN r THEN r[<<"bucket", "name">>] ELSE <<>>
          /\ b = IF <<"bucket", "creationdate">> \in DOMAIN r THEN r[<<"bucket", "creationdate">>]
                 ELSE <<>>
      BY <1>9, <1>12, <2>1, <2>2
    <2>4. found = Xml!ParseBuckets(doc)
      BY <1>1
    <2> QED BY ONLY <1>2, <1>4, <2>3, <2>4 DEF Xml!ParseBuckets
  <1>14. a = [n \in 1 .. N |-> records[n].key] /\ Len(a) = N
    <2>1. HasTexts(rows, N, 2)
      BY <1>8 DEF HasTexts
    <2>2. a = [n \in 1 .. N |-> rows[n][2]]
      BY <1>10, <1>12, <2>1
    <2> QED BY <1>8, <2>2
  <1>15. CASE \A n \in 1 .. N : records[n].etag # NoText
    <2>1. HasTexts(rows, N, 3)
      BY <1>8, <1>15 DEF HasTexts
    <2>2. b = [n \in 1 .. N |-> rows[n][3]]
      BY <1>10, <1>12, <2>1
    <2>3. b = [n \in 1 .. N |-> records[n].etag] /\ Len(b) = N
      BY <1>8, <2>2
    <2>4. found = [ok |-> TRUE, buckets |-> [n \in DOMAIN a |-> <<a[n], b[n]>>]]
      BY <1>13, <1>14, <2>3
    <2>5. found.ok /\ found.buckets = [n \in 1 .. N |-> <<records[n].key, records[n].etag>>]
      BY <1>14, <2>3, <2>4
    <2>6. DOMAIN records = 1 .. N
      BY <1>1
    <2>7. found.ok = TRUE
      BY <2>4
    <2> QED BY <1>15, <2>5, <2>6, <2>7 DEF NoText
  <1>16. CASE \E n \in 1 .. N : records[n].etag = NoText
    <2>1. PICK k \in 1 .. N : records[k].etag = NoText
      BY <1>16
    <2>2. Len(b) < N
      BY <1>8, <1>11, <1>12, <2>1
    <2>3. Len(a) # Len(b)
      BY <1>14, <2>2
    <2>4. found.ok = FALSE
      BY <1>13, <2>3
    <2>5. DOMAIN records = 1 .. N
      BY <1>1
    <2>6. ~ \A n \in DOMAIN records : records[n].etag # ""
      BY <2>1, <2>5 DEF NoText
    <2> QED BY <2>4, <2>6
  <1> QED BY <1>15, <1>16

-----------------------------------------------------------------------------
(* The grants of an answer.                                                *)

\* The elements of a grant, with its fields in some order, and their paths.
GrantShape(a, b) == <<Under("grant", 0), Under("grantee", 1), Under(a, 2), Under(b, 2),
                      Under("permission", 1)>>
GrantPaths(a, b) == <<<<>>, <<"grantee">>, <<"grantee", a>>, <<"grantee", b>>, <<"permission">>>>

\* The shape of a grant, element by element.
LEMMA GrantShapeIs ==
  ASSUME NEW a, NEW b
  PROVE
  /\ DOMAIN GrantShape(a, b) = 1 .. 5 /\ 1 .. 5 = {1, 2, 3, 4, 5} /\ 2 .. 5 = {2, 3, 4, 5}
  /\ GrantShape(a, b)[1].name = "grant" /\ GrantShape(a, b)[1].under = 0
  /\ GrantShape(a, b)[2].name = "grantee" /\ GrantShape(a, b)[2].under = 1
  /\ GrantShape(a, b)[3].name = a /\ GrantShape(a, b)[3].under = 2
  /\ GrantShape(a, b)[4].name = b /\ GrantShape(a, b)[4].under = 2
  /\ GrantShape(a, b)[5].name = "permission" /\ GrantShape(a, b)[5].under = 1
  BY DEF GrantShape, Under

\* It is a shape.
LEMMA GrantNested ==
  ASSUME NEW Str, ElementNames \subseteq Str, NEW a \in ElementNames, NEW b \in ElementNames
  PROVE  Nested(Str, GrantShape(a, b), 5)
  BY GrantShapeIs DEF Nested, ElementNames

\* Where the grants are.
AclPath == <<"accesscontrolpolicy", "accesscontrollist">>
GrantPath == <<"accesscontrolpolicy", "accesscontrollist", "grant">>

\* The fields of a grantee.
GrantFieldNames == {"id", "displayname"}

\* The path of a field of a grantee.
LEMMA FieldAppended ==
  ASSUME NEW a \in GrantFieldNames
  PROVE  Append(<<"grantee">>, a) = <<"grantee", a>> /\ a \in ElementNames /\ a # NoText
  <1>1. "id" \in ElementNames /\ "displayname" \in ElementNames /\ "id" # NoText
      /\ "displayname" # NoText
    BY DEF ElementNames, NoText
  <1>2. <<"grantee", "id">> = Append(<<"grantee">>, "id")
    OBVIOUS
  <1>3. <<"grantee", "displayname">> = Append(<<"grantee">>, "displayname")
    OBVIOUS
  <1>4. a = "id" \/ a = "displayname"
    BY DEF GrantFieldNames
  <1> QED BY ONLY <1>1, <1>2, <1>3, <1>4

\* The places of a grant have paths below that of the grants.
LEMMA GrantSited ==
  ASSUME NEW a \in GrantFieldNames, NEW b \in GrantFieldNames, a # b
  PROVE  Sited(ElementNames, GrantPaths(a, b), 5, GrantShape(a, b), GrantPath, AclPath)
  <1>0. a \in ElementNames /\ b \in ElementNames
    BY FieldAppended
  <1>1. Continued(ElementNames, GrantPaths(a, b), 5, GrantShape(a, b))
    <2>1. /\ GrantPaths(a, b)[1] \in Seq(ElementNames) /\ GrantPaths(a, b)[2] \in Seq(ElementNames)
          /\ GrantPaths(a, b)[3] \in Seq(ElementNames) /\ GrantPaths(a, b)[4] \in Seq(ElementNames)
          /\ GrantPaths(a, b)[5] \in Seq(ElementNames)
      <3>1. "grantee" \in ElementNames /\ "permission" \in ElementNames
        BY DEF ElementNames
      <3> QED BY <1>0, <3>1 DEF GrantPaths
    <2>2. \A j \in 1 .. 5 : GrantShape(a, b)[j].name \in ElementNames
      <3>1. "grant" \in ElementNames /\ "grantee" \in ElementNames /\ "permission" \in ElementNames
        BY DEF ElementNames
      <3> QED BY <1>0, <3>1, GrantShapeIs
    <2>3. \A j \in 1 .. 5 : Xml!ToLower(GrantShape(a, b)[j].name) = GrantShape(a, b)[j].name
      BY <2>2, LowerIs
    <2>p. PICK p, q : p = GrantPaths(a, b) /\ q = GrantShape(a, b)
      OBVIOUS
    <2>q. /\ q[2].name = "grantee" /\ q[2].under = 1 /\ q[3].name = a /\ q[3].under = 2
          /\ q[4].name = b /\ q[4].under = 2 /\ q[5].name = "permission" /\ q[5].under = 1
      BY <2>p, GrantShapeIs
    <2>r. PICK one : one = <<"grantee">>
      OBVIOUS
    <2>s. /\ p[1] = <<>> /\ p[2] = one /\ p[3] = <<"grantee", a>> /\ p[4] = <<"grantee", b>>
          /\ p[5] = <<"permission">>
      BY ONLY <2>p, <2>r DEF GrantPaths
    <2>t. /\ Append(<<"grantee">>, a) = <<"grantee", a>> /\ Append(<<"grantee">>, b)
               = <<"grantee", b>>
          /\ Append(<<>>, "grantee") = <<"grantee">> /\ Append(<<>>, "permission")
               = <<"permission">>
      <3>1. Append(<<>>, "grantee") = <<"grantee">> /\ Append(<<>>, "permission") = <<"permission">>
        OBVIOUS
      <3> QED BY <3>1, FieldAppended
    <2>4. /\ p[2] = Append(p[1], "grantee") /\ p[3] = Append(p[2], a)
          /\ p[4] = Append(p[2], b) /\ p[5] = Append(p[1], "permission")
      BY ONLY <2>r, <2>s, <2>t
    <2>5. /\ q[2].under \in 1 .. 2 - 1 /\ q[3].under \in 1 .. 3 - 1
          /\ q[4].under \in 1 .. 4 - 1 /\ q[5].under \in 1 .. 5 - 1
      BY <2>q
    <2>6. /\ p[2] = Append(p[q[2].under], q[2].name) /\ p[3] = Append(p[q[3].under], q[3].name)
          /\ p[4] = Append(p[q[4].under], q[4].name) /\ p[5] = Append(p[q[5].under], q[5].name)
      BY ONLY <2>4, <2>q
    <2>u. 2 .. 5 = {2, 3, 4, 5}
      OBVIOUS
    <2>v. \A j \in 2 .. 5 : q[j].under \in 1 .. j - 1 /\ p[j] = Append(p[q[j].under], q[j].name)
      BY ONLY <2>5, <2>6, <2>u
    <2>7. \A j \in 2 .. 5 :
            /\ GrantShape(a, b)[j].under \in 1 .. j - 1
            /\ GrantPaths(a, b)[j]
                 = Append(GrantPaths(a, b)[GrantShape(a, b)[j].under], GrantShape(a, b)[j].name)
      BY ONLY <2>p, <2>v
    <2>8. \A j \in 1 .. 5 : GrantPaths(a, b)[j] \in Seq(ElementNames)
      BY <2>1, GrantShapeIs
    <2>9. 2 .. 5 \subseteq 1 .. 5
      OBVIOUS
    <2> QED BY ONLY <2>2, <2>3, <2>7, <2>8, <2>9 DEF Continued
  <1>2. \A i, j \in 1 .. 5 : GrantPaths(a, b)[i] = GrantPaths(a, b)[j] => i = j
    BY GrantShapeIs DEF GrantPaths
  <1>3. Append(AclPath, Xml!ToLower(GrantShape(a, b)[1].name)) = GrantPath \o GrantPaths(a, b)[1]
    BY GrantShapeIs, LowerIs DEF GrantPaths, ElementNames, AclPath, GrantPath
  <1>4. GrantPath \in Seq(ElementNames)
    BY DEF ElementNames, GrantPath
  <1> QED BY <1>1, <1>2, <1>3, <1>4, GrantShapeIs DEF Sited

\* The texts of the elements of a grant of an answer.
GrantRow(g) == <<"", "", g.id, g.displayname, g.permission>>
GrantRows(records) == [n \in DOMAIN records |-> GrantRow(records[n])]

\* The row of a grant.
LEMMA GrantIs ==
  ASSUME NEW g \in Grants
  PROVE  /\ GrantRow(g)[1] = NoText /\ GrantRow(g)[2] = NoText /\ GrantRow(g)[3] = g.id
         /\ GrantRow(g)[4] = g.displayname /\ GrantRow(g)[5] = g.permission
         /\ g.permission # NoText /\ g.permission \in Strs /\ g.id \in Strs
         /\ g.displayname \in Strs /\ NoText \in Strs
         /\ g = [id |-> g.id, displayname |-> g.displayname, permission |-> g.permission]
  <1>1. /\ g.permission \in {"p1", "p2"} /\ g.id \in {NoText, "i1", "i2"}
        /\ g.displayname \in {NoText, "d1"}
        /\ g = [id |-> g.id, displayname |-> g.displayname, permission |-> g.permission]
    BY DEF Grants, NoText
  <1>2. "p1" # NoText /\ "p2" # NoText
    BY DEF NoText
  <1>3. GrantRow(g) = <<NoText, NoText, g.id, g.displayname, g.permission>>
    BY DEF GrantRow, NoText
  <1> QED BY <1>1, <1>2, <1>3 DEF Strs, FieldValues

\* Grants that are alike are even rows.
LEMMA EvenGrants ==
  ASSUME NEW records \in Seq(Grants), NEW N \in Nat, Len(records) = N, Alike(records)
  PROVE  Even(GrantRows(records), 5, N)
  <1>1. PICK rows : rows = GrantRows(records)
    OBVIOUS
  <1>2. ASSUME NEW n \in 1 .. N
        PROVE  /\ n \in DOMAIN records /\ DOMAIN records[n] = {"id", "displayname", "permission"}
               /\ rows[n][1] = NoText /\ rows[n][2] = NoText /\ rows[n][3] = records[n].id
               /\ rows[n][4] = records[n].displayname
               /\ rows[n][5] = records[n].permission /\ rows[n][5] # NoText
    <2>1. PICK g \in Grants : g = records[n] /\ n \in DOMAIN records
      OBVIOUS
    <2>2. rows[n] = GrantRow(g)
      BY <1>1, <2>1 DEF GrantRows
    <2>3. DOMAIN g = {"id", "displayname", "permission"}
      BY DEF Grants
    <2> QED BY <2>1, <2>2, <2>3, GrantIs
  <1>3. \A m, n \in 1 .. N : \A f \in {"id", "displayname", "permission"} :
          (records[m][f] = NoText) = (records[n][f] = NoText)
    <2>1. \A m, n \in DOMAIN records : \A f \in DOMAIN records[m] :
            (records[m][f] = NoText) = (records[n][f] = NoText)
      BY DEF Alike, NoText
    <2> QED BY ONLY <1>2, <2>1
  <1>4. \A m, n \in 1 .. N : /\ (rows[m][3] = NoText) = (rows[n][3] = NoText)
                             /\ (rows[m][4] = NoText) = (rows[n][4] = NoText)
    <2>1. \A m, n \in 1 .. N :
            /\ (records[m]["id"] = NoText) = (records[n]["id"] = NoText)
            /\ (records[m]["displayname"] = NoText) = (records[n]["displayname"] = NoText)
      BY <1>3
    <2> QED BY <1>2, <2>1
  <1>5. \A j \in 1 .. 5 : \A m, n \in 1 .. N : (rows[m][j] = NoText) = (rows[n][j] = NoText)
    BY <1>2, <1>4, GrantShapeIs
  <1> QED BY <1>1, <1>5 DEF Even

\* As they are in an answer.
AclShape == GrantShape("id", "displayname")
AclPaths == GrantPaths("id", "displayname")

\* A grant of an answer has a shape, and paths below that of the grants.
LEMMA AclShapeIs ==
  Nested(Strs, AclShape, 5) /\ Sited(ElementNames, AclPaths, 5, AclShape, GrantPath, AclPath)
  <1>1. /\ ElementNames \subseteq Strs /\ "id" \in ElementNames /\ "displayname" \in ElementNames
        /\ "id" \in GrantFieldNames /\ "displayname" \in GrantFieldNames
    BY DEF Strs, ElementNames, GrantFieldNames
  <1>2. "id" # "displayname"
    OBVIOUS
  <1> QED BY <1>1, <1>2, GrantNested, GrantSited DEF AclShape, AclPaths

\* The grants of an answer are a table.
LEMMA AclAnswerIs ==
  ASSUME NEW records \in Seq(Grants), NEW N \in Nat, Len(records) = N,
         NEW doc, doc = AclAnswer(records), NEW rows, rows = GrantRows(records)
  PROVE  \E base : /\ doc \in Documents(Strs)
                   /\ Described(doc, base, 2, 5, N, rows, AclPaths, GrantPath, ElementNames)
  <1>1. PICK around : around = AclPath
    OBVIOUS
  <1>2. /\ DOMAIN around = 1 .. 2 /\ Len(around) = 2 /\ 1 .. 2 = {1, 2}
        /\ around[1] = "accesscontrolpolicy" /\ around[2] = "accesscontrollist"
    BY <1>1 DEF AclPath
  <1>3. DOMAIN rows = 1 .. N /\ Len(rows) = N /\ \A n \in 1 .. N : rows[n] = GrantRow(records[n])
    BY DEF GrantRows
  <1>4. ASSUME NEW n \in 1 .. N PROVE RowOf(Strs, 5, rows[n])
    <2>1. records[n] \in Grants
      OBVIOUS
    <2> QED BY <1>3, <2>1, GrantIs, GrantShapeIs DEF RowOf
  <1>5. doc = AnswerDoc(around, AclShape, rows)
    BY <1>1 DEF AclAnswer, AclPath, AclShape, GrantShape, GrantRows, GrantRow
  <1>6. PICK base : AnswerIs(Strs, doc, around, AclShape, 5, N, rows, base)
    <2>1. Nested(Strs, AclShape, 5)
      BY AclShapeIs
    <2>2. NoText \in Strs /\ \A k \in 1 .. 2 : around[k] \in Strs
      BY <1>2 DEF Strs, FieldValues, ElementNames
    <2> QED BY ONLY <1>2, <1>3, <1>4, <1>5, <2>1, <2>2, AnswerLaid, N \in Nat, 2 \in Nat, 5 \in Nat
  <1>7. /\ doc \in Documents(Strs) /\ RowsPlaced(doc, base, 2, 5, N)
        /\ Filled(doc, base, 2, 5, N, AclShape, rows)
        /\ 2 <= Len(doc) /\ doc[1].name = "accesscontrolpolicy" /\ doc[1].parent = 0
        /\ doc[1].text = NoText
        /\ doc[2].name = "accesscontrollist" /\ doc[2].parent = 1 /\ doc[2].text = NoText
    <2>1. 1 \in 1 .. 2 /\ 2 \in 1 .. 2 /\ 1 - 1 = 0 /\ 2 - 1 = 1
      OBVIOUS
    <2> QED BY <1>2, <1>6, <2>1 DEF AnswerIs
  <1>8. Xml!Path(doc, 2) = AclPath
    <2>1. "accesscontrolpolicy" \in ElementNames /\ "accesscontrollist" \in ElementNames
      BY DEF ElementNames
    <2>2. 1 <= Len(doc)
      BY <1>7 DEF Documents
    <2>3. Xml!Path(doc, 2) = Append(<<"accesscontrolpolicy">>, "accesscontrollist")
      BY <1>7, <2>1, <2>2, OuterPath, LowerIs
    <2> QED BY <2>3 DEF AclPath
  <1>9. Described(doc, base, 2, 5, N, rows, AclPaths, GrantPath, ElementNames)
    <2>1. \A k \in 1 .. 2 : doc[k].text = NoText
      BY <1>2, <1>7
    <2>2. 2 \in 1 .. 2
      OBVIOUS
    <2>3. Sited(ElementNames, AclPaths, 5, AclShape, GrantPath, Xml!Path(doc, 2))
      BY ONLY <1>8, AclShapeIs
    <2> QED BY ONLY <1>7, <2>1, <2>2, <2>3, DescribedIs, N \in Nat, 2 \in Nat, 5 \in Nat
  <1> QED BY <1>1, <1>7, <1>9

\* The grants that are read, of a list of records that has their fields.
GrantsGiven(r, records, N) ==
  /\ DOMAIN r = 1 .. N
  /\ \A n \in 1 .. N : /\ Xml!Get(r[n], <<"grantee", "id">>) = records[n].id
                       /\ Xml!Get(r[n], <<"grantee", "displayname">>) = records[n].displayname
                       /\ Xml!Get(r[n], <<"permission">>) = records[n].permission

\* Grants whose fields are found are read as they are.
LEMMA GrantsAre ==
  ASSUME NEW records \in Seq(Grants), NEW N \in Nat, Len(records) = N, NEW doc,
         GrantsGiven(Xml!RecordList(GrantPath, Xml!DOMToDict(doc)), records, N)
  PROVE  All(AsGrant, Xml!ParseACL(doc).grants) = records
  <1>1. PICK r : r = Xml!RecordList(GrantPath, Xml!DOMToDict(doc))
    OBVIOUS
  <1>2. PICK keys : keys = Xml!ParseACL(doc).grants
    OBVIOUS
  <1>3. keys = [n \in DOMAIN r |-> [f \in Xml!GrantFields |-> Xml!Get(r[n], f)]]
    BY ONLY <1>1, <1>2 DEF Xml!ParseACL, Xml!Fields, GrantPath
  <1>4. DOMAIN r = 1 .. N
    BY <1>1 DEF GrantsGiven
  <1>5. ASSUME NEW n \in 1 .. N PROVE AsGrant(keys[n]) = records[n]
    <2>1. PICK i, d, p : i = <<"grantee", "id">> /\ d = <<"grantee", "displayname">> /\ p
        = <<"permission">>
      OBVIOUS
    <2>2. keys[n] = [f \in {i, d, p} |-> Xml!Get(r[n], f)]
      BY ONLY <1>3, <1>4, <2>1, n \in 1 .. N DEF Xml!GrantFields
    <2>4. /\ Xml!Get(r[n], i) = records[n].id /\ Xml!Get(r[n], d) = records[n].displayname
          /\ Xml!Get(r[n], p) = records[n].permission
      BY <1>1, <2>1 DEF GrantsGiven
    <2>5. /\ keys[n][i] = records[n].id /\ keys[n][d] = records[n].displayname
          /\ keys[n][p] = records[n].permission
      BY ONLY <2>2, <2>4
    <2>6. AsGrant(keys[n])
        = [id |-> keys[n][i], displayname |-> keys[n][d], permission |-> keys[n][p]]
      BY ONLY <2>1 DEF AsGrant
    <2>7. records[n] \in Grants
      OBVIOUS
    <2> QED BY <2>5, <2>6, <2>7, GrantIs
  <1>6. DOMAIN keys = 1 .. N
    BY <1>3, <1>4
  <1>7. All(AsGrant, keys) = [n \in 1 .. N |-> AsGrant(keys[n])]
    BY ONLY <1>6 DEF All
  <1>8. records = [n \in 1 .. N |-> records[n]]
    OBVIOUS
  <1> QED BY <1>2, <1>5, <1>7, <1>8

\* The grants of an answer whose grants are alike.
LEMMA GrantsAreFound ==
  ASSUME NEW records \in Seq(Grants), Alike(records)
  PROVE  All(AsGrant, Xml!ParseACL(AclAnswer(records)).grants) = records
  <1>n. PICK N \in Nat : Len(records) = N
    OBVIOUS
  <1>1. PICK doc, rows : /\ Len(records) = N /\ doc = AclAnswer(records)
                         /\ rows = GrantRows(records)
    BY <1>n
  <1>3. PICK base : /\ doc \in Documents(Strs)
                    /\ Described(doc, base, 2, 5, N, rows, AclPaths, GrantPath, ElementNames)
    BY <1>1, AclAnswerIs
  <1>4. \A n \in 1 .. N : /\ records[n] \in Grants /\ rows[n] = GrantRow(records[n])
    BY <1>1 DEF GrantRows
  <1>5. HasTexts(rows, N, 5)
    BY <1>4, GrantIs DEF HasTexts
  <1>6. PICK r : r = Xml!RecordList(GrantPath, Xml!DOMToDict(doc))
    OBVIOUS
  <1>7. RecordsOf(r, AclPaths, 5, N, rows)
    <2>1. Even(rows, 5, N)
      BY <1>1, EvenGrants
    <2>2. 5 \in 1 .. 5
      OBVIOUS
    <2> QED BY ONLY <1>3, <1>5, <1>6, <2>1, <2>2, RecordsAre, 2 \in Nat, 5 \in Nat, N \in Nat
  <1>8. GrantsGiven(r, records, N)
    <2>1. DOMAIN r = 1 .. N
      BY <1>7 DEF RecordsOf
    <2>2. ASSUME NEW n \in 1 .. N
          PROVE  /\ Xml!Get(r[n], <<"grantee", "id">>) = records[n].id
                 /\ Xml!Get(r[n], <<"grantee", "displayname">>) = records[n].displayname
                 /\ Xml!Get(r[n], <<"permission">>) = records[n].permission
      <3>1. \A j \in 1 .. 5 : Xml!Get(r[n], AclPaths[j]) = rows[n][j]
        BY <1>7 DEF RecordsOf
      <3>2. /\ rows[n][3] = records[n].id /\ rows[n][4] = records[n].displayname
            /\ rows[n][5] = records[n].permission
        BY <1>4, GrantIs
      <3>3. /\ AclPaths[3] = <<"grantee", "id">> /\ AclPaths[4] = <<"grantee", "displayname">>
            /\ AclPaths[5] = <<"permission">>
        BY DEF AclPaths, GrantPaths
      <3>4. 3 \in 1 .. 5 /\ 4 \in 1 .. 5 /\ 5 \in 1 .. 5
        OBVIOUS
      <3>5. /\ Xml!Get(r[n], AclPaths[3]) = records[n].id
            /\ Xml!Get(r[n], AclPaths[4]) = records[n].displayname
            /\ Xml!Get(r[n], AclPaths[5]) = records[n].permission
        BY <3>1, <3>2, <3>4
      <3> QED BY ONLY <3>3, <3>5
    <2> QED BY <2>1, <2>2 DEF GrantsGiven
  <1> QED BY ONLY <1>1, <1>6, <1>8, GrantsAre, records \in Seq(Grants), N \in Nat

-----------------------------------------------------------------------------
(* Tags that are sent.                                                     *)

\* What a stream is after going down, after an element with a text, and after
\* going up.
Goes(D, c, name) ==
  Xml!Down([doc |-> D, cur |-> c], name)
    = [doc |-> Append(D, [name |-> name, parent |-> c, text |-> NoText]), cur |-> Len(D) + 1]
Grows(D, c, name, text) ==
  Xml!Leaf([doc |-> D, cur |-> c], name, text)
    = [doc |-> Append(D, [name |-> name, parent |-> c, text |-> text]), cur |-> c]
Returns(D, c) == Xml!Up([doc |-> D, cur |-> c]) = [doc |-> D, cur |-> D[c].parent]

\* What Goes says, of every stream.
LEMMA GoesDown ==
  ASSUME NEW D, NEW c, NEW name
  PROVE  Goes(D, c, name)
  BY DownIs, Zenon DEF Goes

\* What Returns says, of every stream.
LEMMA GoesUp ==
  ASSUME NEW D, NEW c
  PROVE  Returns(D, c)
  BY UpIs, Zenon DEF Returns

\* An element with a text, and back to where the stream was.
LEMMA LeafGrows ==
  ASSUME NEW A, NEW D \in Seq(A), NEW c, NEW name, NEW text,
         [name |-> name, parent |-> c, text |-> NoText] \in A,
         [name |-> name, parent |-> c, text |-> text] \in A
  PROVE  Grows(D, c, name, text)
  <1>1. PICK e, f : /\ e = [name |-> name, parent |-> c, text |-> NoText]
                    /\ f = [name |-> name, parent |-> c, text |-> text]
    OBVIOUS
  <1>2. PICK top \in Nat : Len(D) = top
    OBVIOUS
  <1>3. PICK E, F : E = Append(D, e) /\ F = Append(D, f)
    OBVIOUS
  <1>4. e \in A /\ f \in A
    BY <1>1
  <1>5. /\ E \in Seq(A) /\ F \in Seq(A) /\ Len(E) = top + 1 /\ Len(F) = top + 1
        /\ E[top + 1] = e /\ F[top + 1] = f
        /\ \A k \in 1 .. top : E[k] = D[k] /\ F[k] = D[k]
    BY ONLY <1>2, <1>3, <1>4, D \in Seq(A), top \in Nat
  <1>6. Xml!Down([doc |-> D, cur |-> c], name) = [doc |-> E, cur |-> top + 1]
    <2>1. Xml!Down([doc |-> D, cur |-> c], name)
            = [doc |-> Append(D, [name |-> name, parent |-> c, text |-> NoText]), cur |-> Len(D) + 1]
      BY DownIs, Zenon
    <2> QED BY ONLY <1>1, <1>2, <1>3, <2>1
  <1>7. PICK G : G = [E EXCEPT ![top + 1].text = text]
    OBVIOUS
  <1>8. G = F
    <2>1. E = [k \in 1 .. top + 1 |-> E[k]] /\ F = [k \in 1 .. top + 1 |-> F[k]]
      BY ONLY <1>5, top \in Nat
    <2>2. [e EXCEPT !.text = text] = f
      BY <1>1
    <2>3. top + 1 \in 1 .. top + 1
      OBVIOUS
    <2>4. G = [k \in 1 .. top + 1 |-> IF k = top + 1 THEN f ELSE E[k]]
      <3>1. E[top + 1] = e
        BY <1>5
      <3> QED BY ONLY <1>7, <2>1, <2>2, <2>3, <3>1
    <2>5. \A k \in 1 .. top + 1 : (IF k = top + 1 THEN f ELSE E[k]) = F[k]
      <3>1. \A k \in 1 .. top + 1 : k = top + 1 \/ k \in 1 .. top
        OBVIOUS
      <3> QED BY ONLY <1>5, <3>1
    <2> QED BY ONLY <2>1, <2>4, <2>5
  <1>9. PICK os : os = [doc |-> E, cur |-> top + 1]
    OBVIOUS
  <1>10. [os EXCEPT !.doc[os.cur].text = text] = [doc |-> F, cur |-> top + 1]
    BY <1>7, <1>8, <1>9
  <1>11. Xml!Up([doc |-> F, cur |-> top + 1]) = [doc |-> F, cur |-> c]
    BY <1>1, <1>5, UpIs
  <1>12. Xml!Text(os, text) = [doc |-> F, cur |-> c]
    BY <1>10, <1>11 DEF Xml!Text
  <1>13. Xml!Leaf([doc |-> D, cur |-> c], name, text) = [doc |-> F, cur |-> c]
    BY <1>6, <1>9, <1>12 DEF Xml!Leaf
  <1> QED BY ONLY <1>1, <1>3, <1>13 DEF Grows

\* Names and values of tags, their elements and paths, and their texts.
TagStrs == Strs \cup {"Tagging", "TagSet", "Tag", "Key", "Value"}
TagShape == <<Under("Tag", 0), Under("Key", 1), Under("Value", 1)>>
TagPaths == <<<<>>, <<"key">>, <<"value">>>>
TagSetPath == <<"tagging", "tagset">>
TagPath == <<"tagging", "tagset", "tag">>
TagRow(t) == <<"", t.key, t.value>>
TagRows(records) == [n \in DOMAIN records |-> TagRow(records[n])]

\* The shape of a tag, element by element.
LEMMA TagShapeIs ==
  /\ DOMAIN TagShape = 1 .. 3 /\ 1 .. 3 = {1, 2, 3} /\ 2 .. 3 = {2, 3}
  /\ TagShape[1].name = "Tag" /\ TagShape[1].under = 0
  /\ TagShape[2].name = "Key" /\ TagShape[2].under = 1
  /\ TagShape[3].name = "Value" /\ TagShape[3].under = 1
  BY DEF TagShape, Under

\* It is a shape.
LEMMA TagNested == Nested(TagStrs, TagShape, 3)
  BY TagShapeIs DEF Nested, TagStrs

\* Its places have paths below that of the tags.
LEMMA TagSited == Sited(ElementNames, TagPaths, 3, TagShape, TagPath, TagSetPath)
  <1>1. Continued(ElementNames, TagPaths, 3, TagShape)
    <2>1. TagPaths[1] \in Seq(ElementNames) /\ TagPaths[2] \in Seq(ElementNames)
        /\ TagPaths[3] \in Seq(ElementNames)
      BY DEF TagPaths, ElementNames
    <2>2. /\ Xml!ToLower(TagShape[1].name) = "tag" /\ Xml!ToLower(TagShape[2].name) = "key"
          /\ Xml!ToLower(TagShape[3].name) = "value"
      BY TagShapeIs, TagNamesLowered
    <2>3. "tag" \in ElementNames /\ "key" \in ElementNames /\ "value" \in ElementNames
      BY DEF ElementNames
    <2>4. /\ TagPaths[2] = Append(TagPaths[1], "key")
          /\ TagPaths[3] = Append(TagPaths[1], "value")
      BY DEF TagPaths
    <2>5. TagShape[2].under \in 1 .. 2 - 1 /\ TagShape[3].under \in 1 .. 3 - 1
      BY TagShapeIs
    <2>6. /\ TagPaths[2] = Append(TagPaths[TagShape[2].under], Xml!ToLower(TagShape[2].name))
          /\ TagPaths[3] = Append(TagPaths[TagShape[3].under], Xml!ToLower(TagShape[3].name))
      BY <2>2, <2>4, TagShapeIs
    <2>7. \A j \in 2 .. 3 :
            /\ TagShape[j].under \in 1 .. j - 1
            /\ TagPaths[j] = Append(TagPaths[TagShape[j].under], Xml!ToLower(TagShape[j].name))
      BY ONLY <2>5, <2>6, TagShapeIs
    <2>8. \A j \in 1 .. 3 : TagPaths[j] \in Seq(ElementNames)
        /\ Xml!ToLower(TagShape[j].name) \in ElementNames
      BY <2>1, <2>2, <2>3, TagShapeIs
    <2> QED BY ONLY <2>7, <2>8 DEF Continued
  <1>2. \A i, j \in 1 .. 3 : TagPaths[i] = TagPaths[j] => i = j
    BY TagShapeIs DEF TagPaths
  <1>3. Append(TagSetPath, Xml!ToLower(TagShape[1].name)) = TagPath \o TagPaths[1]
    BY TagShapeIs, TagNamesLowered DEF TagPaths, TagSetPath, TagPath
  <1>4. TagPath \in Seq(ElementNames)
    BY DEF ElementNames, TagPath
  <1> QED BY <1>1, <1>2, <1>3, <1>4, TagShapeIs DEF Sited

\* The row of a tag.
LEMMA TagIs ==
  ASSUME NEW t \in Tags
  PROVE  /\ TagRow(t)[1] = NoText /\ TagRow(t)[2] = t.key /\ TagRow(t)[3] = t.value
         /\ t.key # NoText /\ t.key \in TagStrs /\ t.value \in TagStrs /\ NoText \in TagStrs
         /\ t.key \notin Xml!Marked /\ NoText \notin Xml!Marked
  <1>1. t.key \in {"k1", "k2"} /\ t.value \in {NoText, "v1", "v2", "markup"}
    BY DEF Tags, NoText
  <1>2. "k1" # NoText /\ "k2" # NoText
    BY DEF NoText
  <1>3. TagRow(t) = <<NoText, t.key, t.value>>
    BY DEF TagRow, NoText
  <1>4. NoText \notin Xml!Marked
    BY DEF NoText, Xml!Marked
  <1>5. t.key \notin Xml!Marked
    BY <1>1 DEF Xml!Marked
  <1> QED BY <1>1, <1>2, <1>3, <1>4, <1>5 DEF TagStrs, Strs, FieldValues

\* Appending three elements.
LEMMA ThreeAppended ==
  ASSUME NEW A, NEW D \in Seq(A), NEW e \in A, NEW f \in A, NEW g \in A
  PROVE  /\ Append(Append(Append(D, e), f), g) = D \o <<e, f, g>>
         /\ Append(Append(Append(D, e), f), g) \in Seq(A)
         /\ Append(Append(Append(D, e), f), g)[Len(D) + 1] = e
  OBVIOUS

\* A tag that is written is one more row.
LEMMA AddTagIs ==
  ASSUME NEW D \in Seq(Elements(TagStrs)), NEW t \in Tags
  PROVE  \E E \in Seq(Elements(TagStrs)) :
           /\ Xml!AddTag([doc |-> D, cur |-> 2], t) = [doc |-> E, cur |-> 2]
           /\ E = D \o AnswerRow(<<"Tagging", "TagSet">>, TagShape, Len(D), TagRow(t))
  <1>n. PICK top \in Nat : Len(D) = top
    OBVIOUS
  <1>1. PICK A : Len(D) = top /\ A = Elements(TagStrs) /\ D \in Seq(A)
    BY <1>n
  <1>2. PICK e, f0, f, g0, g :
          /\ e = [name |-> "Tag", parent |-> 2, text |-> NoText]
          /\ f0 = [name |-> "Key", parent |-> top + 1, text |-> NoText]
          /\ f = [name |-> "Key", parent |-> top + 1, text |-> t.key]
          /\ g0 = [name |-> "Value", parent |-> top + 1, text |-> NoText]
          /\ g = [name |-> "Value", parent |-> top + 1, text |-> t.value]
    OBVIOUS
  <1>3. e \in A /\ f0 \in A /\ f \in A /\ g0 \in A /\ g \in A
    <2>1. /\ "Tag" \in TagStrs /\ "Key" \in TagStrs /\ "Value" \in TagStrs /\ NoText \in TagStrs
          /\ t.key \in TagStrs /\ t.value \in TagStrs
      BY TagIs DEF TagStrs
    <2>2. 2 \in Nat /\ top + 1 \in Nat
      OBVIOUS
    <2> QED BY ONLY <1>1, <1>2, <2>1, <2>2 DEF Elements
  <1>4. PICK E, F, G : E = Append(D, e) /\ F = Append(E, f) /\ G = Append(F, g)
    OBVIOUS
  <1>5. E \in Seq(A) /\ F \in Seq(A)
    BY ONLY <1>1, <1>3, <1>4
  <1>6. G = D \o <<e, f, g>> /\ G \in Seq(A) /\ G[top + 1] = e
    BY ONLY <1>1, <1>3, <1>4, ThreeAppended
  <1>7. Xml!Down([doc |-> D, cur |-> 2], "Tag") = [doc |-> E, cur |-> top + 1]
    <2>1. Goes(D, 2, "Tag")
      BY GoesDown
    <2> QED BY ONLY <1>1, <1>2, <1>4, <2>1 DEF Goes
  <1>8. Xml!Leaf([doc |-> E, cur |-> top + 1], "Key", t.key) = [doc |-> F, cur |-> top + 1]
    <2>1. Grows(E, top + 1, "Key", t.key)
      BY ONLY <1>2, <1>3, <1>5, LeafGrows
    <2> QED BY ONLY <1>2, <1>4, <2>1 DEF Grows
  <1>9. Xml!Leaf([doc |-> F, cur |-> top + 1], "Value", t.value) = [doc |-> G, cur |-> top + 1]
    <2>1. Grows(F, top + 1, "Value", t.value)
      BY ONLY <1>2, <1>3, <1>5, LeafGrows
    <2> QED BY ONLY <1>2, <1>4, <2>1 DEF Grows
  <1>10. Xml!Up([doc |-> G, cur |-> top + 1]) = [doc |-> G, cur |-> 2]
    <2>1. Returns(G, top + 1)
      BY GoesUp
    <2>2. G[top + 1].parent = 2
      <3>1. e.parent = 2
        BY ONLY <1>2
      <3>2. G[top + 1] = e
        BY ONLY <1>6
      <3> QED BY ONLY <3>1, <3>2
    <2> QED BY ONLY <2>1, <2>2 DEF Returns
  <1>11. Xml!AddTag([doc |-> D, cur |-> 2], t) = [doc |-> G, cur |-> 2]
    BY <1>7, <1>8, <1>9, <1>10 DEF Xml!AddTag
  <1>12. AnswerRow(<<"Tagging", "TagSet">>, TagShape, top, TagRow(t)) = <<e, f, g>>
    <2>0. PICK around : around = <<"Tagging", "TagSet">>
      OBVIOUS
    <2>1. around = <<"Tagging", "TagSet">> /\ Len(around) = 2
      BY ONLY <2>0
    <2>2. PICK row : row = TagRow(t)
      OBVIOUS
    <2>3. PICK r : r = AnswerRow(around, TagShape, top, row)
      OBVIOUS
    <2>4. r = [j \in 1 .. 3 |->
                 [name |-> TagShape[j].name,
                  parent |-> IF TagShape[j].under = 0 THEN 2 ELSE top + TagShape[j].under,
                  text |-> row[j]]]
      BY ONLY <2>1, <2>3, TagShapeIs DEF AnswerRow, Xml!Element
    <2>5. row[1] = NoText /\ row[2] = t.key /\ row[3] = t.value
      BY <2>2, TagIs
    <2>6. r[1] = e /\ r[2] = f /\ r[3] = g
      BY ONLY <1>2, <2>4, <2>5, TagShapeIs, top \in Nat
    <2>7. r = <<e, f, g>>
      BY ONLY <2>4, <2>6, TagShapeIs
    <2> QED BY <2>1, <2>2, <2>3, <2>7
  <1> QED BY <1>1, <1>6, <1>11, <1>12

\* The tags that are written are a table of keys and values.
LEMMA TaggingIs ==
  ASSUME NEW records \in Seq(Tags), NEW N \in Nat, Len(records) = N,
         NEW doc, doc = Xml!GenerateTagging(records), NEW rows, rows = TagRows(records)
  PROVE  \E base : /\ AnswerIs(TagStrs, doc, <<"Tagging", "TagSet">>, TagShape, 3, N, rows, base)
                   /\ Described(doc, base, 2, 3, N, rows, TagPaths, TagPath, ElementNames)
  <1>0. PICK around : around = <<"Tagging", "TagSet">>
    OBVIOUS
  <1>1. /\ DOMAIN around = 1 .. 2 /\ Len(around) = 2 /\ 1 .. 2 = {1, 2}
        /\ around[1] = "Tagging" /\ around[2] = "TagSet"
    BY <1>0
  <1>2. DOMAIN rows = 1 .. N /\ Len(rows) = N /\ \A n \in 1 .. N : rows[n] = TagRow(records[n])
    BY DEF TagRows
  <1>3. PICK upto : /\ upto[0] = Xml!Root(around)
                    /\ \A n \in 1 .. N : upto[n] = Xml!AddTag(upto[n - 1], records[n])
                    /\ doc = upto[N].doc
    <2>1. PICK upto : upto = Xml!Tagged(records)
      OBVIOUS
    <2>2. doc = upto[N].doc
      BY <2>1 DEF Xml!GenerateTagging
    <2>3. /\ upto[0] = Xml!Root(<<"Tagging", "TagSet">>)
          /\ \A n \in 1 .. N : upto[n] = Xml!AddTag(upto[n - 1], records[n])
      BY <2>1, TaggedAre
    <2> QED BY <1>0, <2>2, <2>3
  <1> DEFINE P == {n \in Nat : upto[n] = [doc |-> upto[n].doc, cur |-> 2]
                               /\ upto[n].doc \in Seq(Elements(TagStrs))}
  <1>4. 0 \in P
    <2>1. upto[0] = [doc |-> upto[0].doc, cur |-> 2]
      <3>1. PICK h : h = [k \in DOMAIN around |-> Xml!Element(around[k], k - 1, "")]
        OBVIOUS
      <3>2. Xml!Root(around) = [doc |-> h, cur |-> 2]
        BY ONLY <1>1, <3>1 DEF Xml!Root
      <3> QED BY ONLY <1>3, <3>2
    <2>2. PICK head : head = Xml!Root(around).doc
      OBVIOUS
    <2>3. \A k \in 1 .. 2 : around[k] \in TagStrs
      BY <1>1 DEF TagStrs
    <2>4. NoText \in TagStrs
      BY DEF TagStrs, Strs, FieldValues
    <2>5. head \in Documents(TagStrs)
      BY ONLY <1>1, <2>2, <2>3, <2>4, RootIs, 2 \in Nat
    <2> QED BY <1>3, <2>1, <2>2, <2>5 DEF Documents
  <1>5. ASSUME NEW n \in 0 .. N - 1, n \in P
        PROVE  /\ n + 1 \in P
               /\ upto[n + 1].doc = upto[n].doc
                                      \o AnswerRow(around, TagShape, Len(upto[n].doc), rows[n + 1])
    <2>1. PICK k \in 1 .. N : k = n + 1 /\ n = k - 1
      OBVIOUS
    <2>2. PICK D, t : D = upto[n].doc /\ t = records[k]
      OBVIOUS
    <2>3. D \in Seq(Elements(TagStrs)) /\ upto[n] = [doc |-> D, cur |-> 2] /\ t \in Tags
      BY <1>5, <2>2
    <2>4. PICK E \in Seq(Elements(TagStrs)) :
            /\ Xml!AddTag([doc |-> D, cur |-> 2], t) = [doc |-> E, cur |-> 2]
            /\ E = D \o AnswerRow(<<"Tagging", "TagSet">>, TagShape, Len(D), TagRow(t))
      BY ONLY <2>3, AddTagIs
    <2>5. upto[k] = [doc |-> E, cur |-> 2]
      BY <1>3, <2>1, <2>2, <2>3, <2>4
    <2>6. rows[k] = TagRow(t)
      BY <1>2, <2>2
    <2>7. upto[k].doc = E
      BY <2>5
    <2>8. E = D \o AnswerRow(around, TagShape, Len(D), rows[k])
      BY ONLY <1>0, <2>4, <2>6
    <2>9. k \in P
      BY <2>5, <2>7
    <2>10. upto[k].doc = D \o AnswerRow(around, TagShape, Len(D), rows[k])
      BY ONLY <2>7, <2>8
    <2> HIDE DEF P
    <2> QED BY ONLY <2>1, <2>2, <2>9, <2>10
  <1>6. \A n \in 0 .. N : n \in P
    <2>1. \A n \in 0 .. N - 1 : n \in P => n + 1 \in P
      BY <1>5
    <2> HIDE DEF P
    <2> QED BY <1>4, <2>1, Upwards
  <1>7. Table(doc, Xml!Root(around).doc, around, TagShape, rows)
    <2>1. PICK docs : docs = [n \in 0 .. N |-> upto[n].doc]
      OBVIOUS
    <2>2. docs[0] = Xml!Root(around).doc /\ doc = docs[N]
      BY <1>3, <2>1
    <2>3. ASSUME NEW n \in 1 .. N
          PROVE  docs[n] = docs[n - 1] \o AnswerRow(around, TagShape, Len(docs[n - 1]), rows[n])
      <3>1. PICK k \in 0 .. N - 1 : k = n - 1 /\ n = k + 1
        OBVIOUS
      <3>2. k \in P
        <4> HIDE DEF P
        <4> QED BY <1>6
      <3>3. upto[k + 1].doc = upto[k].doc
                                \o AnswerRow(around, TagShape, Len(upto[k].doc), rows[k + 1])
        BY <1>5, <3>2
      <3>4. docs[n] = upto[k + 1].doc /\ docs[n - 1] = upto[k].doc
        BY <2>1, <3>1
      <3> QED BY ONLY <3>1, <3>3, <3>4
    <2> QED BY ONLY <1>2, <2>2, <2>3 DEF Table
  <1> HIDE DEF P
  <1>8. ASSUME NEW n \in 1 .. N PROVE RowOf(TagStrs, 3, rows[n])
    <2>1. records[n] \in Tags
      OBVIOUS
    <2> QED BY <1>2, <2>1, TagIs, TagShapeIs DEF RowOf
  <1>9. PICK base : AnswerIs(TagStrs, doc, around, TagShape, 3, N, rows, base)
    <2>1. NoText \in TagStrs /\ \A k \in 1 .. 2 : around[k] \in TagStrs
      BY <1>1 DEF TagStrs, Strs, FieldValues
    <2> QED BY ONLY <1>1, <1>2, <1>7, <1>8, <2>1, TagNested, TableIs, N \in Nat, 2 \in Nat,
        3 \in Nat
  <1>10. /\ doc \in Documents(TagStrs) /\ RowsPlaced(doc, base, 2, 3, N)
         /\ Filled(doc, base, 2, 3, N, TagShape, rows)
         /\ 2 <= Len(doc) /\ doc[1].name = "Tagging" /\ doc[1].parent = 0 /\ doc[1].text = NoText
         /\ doc[2].name = "TagSet" /\ doc[2].parent = 1 /\ doc[2].text = NoText
    <2>1. 1 \in 1 .. 2 /\ 2 \in 1 .. 2 /\ 1 - 1 = 0 /\ 2 - 1 = 1
      OBVIOUS
    <2> QED BY <1>1, <1>9, <2>1 DEF AnswerIs
  <1>11. Xml!Path(doc, 2) = TagSetPath
    <2>1. 1 <= Len(doc)
      BY <1>10 DEF Documents
    <2>2. Xml!Path(doc, 2) = Append(<<"tagging">>, "tagset")
      BY <1>10, <2>1, OuterPath, TagNamesLowered
    <2> QED BY <2>2 DEF TagSetPath
  <1>12. Described(doc, base, 2, 3, N, rows, TagPaths, TagPath, ElementNames)
    <2>1. \A k \in 1 .. 2 : doc[k].text = NoText
      BY <1>1, <1>10
    <2>2. 2 \in 1 .. 2
      OBVIOUS
    <2>3. Sited(ElementNames, TagPaths, 3, TagShape, TagPath, Xml!Path(doc, 2))
      BY ONLY <1>11, TagSited
    <2> QED BY ONLY <1>10, <2>1, <2>2, <2>3, DescribedIs, N \in Nat, 2 \in Nat, 3 \in Nat
  <1> QED BY <1>0, <1>9, <1>12

\* The text of tags is refused exactly when a value would have to be escaped.
LEMMA TagsAreRefused ==
  ASSUME NEW records \in Seq(Tags)
  PROVE  Reread(Xml!GenerateTagging(records)).ok
           = \A n \in DOMAIN records : records[n].value \notin Xml!Marked
  <1>n. PICK N \in Nat : Len(records) = N
    OBVIOUS
  <1>1. PICK doc, rows : /\ Len(records) = N /\ doc = Xml!GenerateTagging(records)
                         /\ rows = TagRows(records)
    BY <1>n
  <1>2. PICK base : AnswerIs(TagStrs, doc, <<"Tagging", "TagSet">>, TagShape, 3, N, rows, base)
    BY <1>1, TaggingIs
  <1>0. PICK around : around = <<"Tagging", "TagSet">>
    OBVIOUS
  <1>3. Len(around) = 2 /\ 1 .. 2 = {1, 2} /\ around[1] = "Tagging" /\ around[2] = "TagSet"
    BY <1>0
  <1>4. /\ doc \in Documents(TagStrs) /\ RowsPlaced(doc, base, 2, 3, N)
        /\ Filled(doc, base, 2, 3, N, TagShape, rows)
        /\ \A k \in 1 .. 2 : doc[k].name = around[k] /\ doc[k].text = NoText
    BY <1>0, <1>2, <1>3 DEF AnswerIs
  <1>5. PICK top \in Nat : Len(doc) = top
    BY <1>4 DEF Documents
  <1>6. ASSUME NEW n \in 1 .. N
        PROVE  /\ base[n] + 3 \in 1 .. top
               /\ \A j \in 1 .. 3 : doc[base[n] + j].name = TagShape[j].name
               /\ doc[base[n] + 1].text = NoText /\ doc[base[n] + 2].text = records[n].key
               /\ doc[base[n] + 3].text = records[n].value
    <2>1. records[n] \in Tags /\ rows[n] = TagRow(records[n])
      BY <1>1 DEF TagRows
    <2>2. rows[n][1] = NoText /\ rows[n][2] = records[n].key /\ rows[n][3] = records[n].value
      BY <2>1, TagIs
    <2>3. 1 \in 1 .. 3 /\ 2 \in 1 .. 3 /\ 3 \in 1 .. 3
      OBVIOUS
    <2>4. \A j \in 1 .. 3 : /\ doc[base[n] + j].name = TagShape[j].name
                            /\ doc[base[n] + j].text = rows[n][j]
      BY <1>4 DEF Filled
    <2>5. base[n] \in Nat /\ base[n] + 3 <= top
      BY <1>4, <1>5 DEF RowsPlaced
    <2> QED BY <2>2, <2>3, <2>4, <2>5
  <1>7. \A k \in 1 .. top : k \in 1 .. 2 \/ \E n \in 1 .. N, j \in 1 .. 3 : k = base[n] + j
    <2>1. \A k \in 2 + 1 .. top : \E n \in 1 .. N, j \in 1 .. 3 : k = base[n] + j
      BY <1>4, <1>5 DEF RowsPlaced
    <2>2. \A k \in 1 .. top : k \in 1 .. 2 \/ k \in 2 + 1 .. top
      OBVIOUS
    <2> QED BY ONLY <2>1, <2>2
  <1>8. NoText \notin Xml!Marked /\ \A n \in 1 .. N : records[n].key \notin Xml!Marked
    <2>1. \A n \in 1 .. N : records[n] \in Tags
      BY <1>1
    <2>2. NoText \notin Xml!Marked
      BY DEF NoText, Xml!Marked
    <2> QED BY <2>1, <2>2, TagIs
  <1>9. \A k \in 1 .. top : doc[k].name \notin Xml!Marked
    <2>1. {"Tagging", "TagSet", "Tag", "Key", "Value"} \cap Xml!Marked = {}
      BY DEF Xml!Marked
    <2>2. \A j \in 1 .. 3 : TagShape[j].name \in {"Tag", "Key", "Value"}
      BY TagShapeIs
    <2>3. ASSUME NEW k \in 1 .. top
          PROVE  doc[k].name \in {"Tagging", "TagSet", "Tag", "Key", "Value"}
      <3>1. CASE k \in 1 .. 2
        BY <1>3, <1>4, <3>1
      <3>2. CASE \E n \in 1 .. N, j \in 1 .. 3 : k = base[n] + j
        <4>1. PICK n \in 1 .. N, j \in 1 .. 3 : k = base[n] + j
          BY <3>2
        <4>2. doc[k].name = TagShape[j].name
          BY <1>6, <4>1
        <4> QED BY <2>2, <4>2
      <3> QED BY <1>7, <3>1, <3>2
    <2> QED BY <2>1, <2>3
  <1>10. (\A k \in 1 .. top : doc[k].text \notin Xml!Marked)
           <=> (\A n \in 1 .. N : records[n].value \notin Xml!Marked)
    <2>1. ASSUME \A k \in 1 .. top : doc[k].text \notin Xml!Marked, NEW n \in 1 .. N
          PROVE  records[n].value \notin Xml!Marked
      BY <1>6, <2>1
    <2>2. ASSUME \A n \in 1 .. N : records[n].value \notin Xml!Marked, NEW k \in 1 .. top
          PROVE  doc[k].text \notin Xml!Marked
      <3>1. CASE k \in 1 .. 2
        BY <1>4, <1>8, <3>1
      <3>2. CASE \E n \in 1 .. N, j \in 1 .. 3 : k = base[n] + j
        <4>1. PICK n \in 1 .. N, j \in 1 .. 3 : k = base[n] + j
          BY <3>2
        <4>2. j = 1 \/ j = 2 \/ j = 3
          OBVIOUS
        <4> QED BY <1>6, <1>8, <2>2, <4>1, <4>2
      <3> QED BY <1>7, <3>1, <3>2
    <2> QED BY <2>1, <2>2
  <1>11. Xml!Parse(Xml!XMLText(doc)).ok = \A k \in 1 .. top : doc[k].text \notin Xml!Marked
    BY ONLY <1>4, <1>5, <1>8, <1>9, RefusedIfMarked, top \in Nat
  <1>12. DOMAIN records = 1 .. N
    BY <1>1
  <1> QED BY ONLY <1>1, <1>10, <1>11, <1>12 DEF Reread

\* Tags that are alike are even rows.
LEMMA EvenTags ==
  ASSUME NEW records \in Seq(Tags), NEW N \in Nat, Len(records) = N, Alike(records)
  PROVE  Even(TagRows(records), 3, N)
  <1>1. PICK rows : rows = TagRows(records)
    OBVIOUS
  <1>2. ASSUME NEW n \in 1 .. N
        PROVE  /\ n \in DOMAIN records /\ DOMAIN records[n] = {"key", "value"}
               /\ rows[n][1] = NoText /\ rows[n][2] = records[n].key /\ rows[n][2] # NoText
               /\ rows[n][3] = records[n].value
    <2>1. PICK t \in Tags : t = records[n] /\ n \in DOMAIN records
      OBVIOUS
    <2>2. rows[n] = TagRow(t)
      BY <1>1, <2>1 DEF TagRows
    <2>3. DOMAIN t = {"key", "value"}
      BY DEF Tags
    <2> QED BY <2>1, <2>2, <2>3, TagIs
  <1>3. \A m, n \in 1 .. N : (records[m]["value"] = NoText) = (records[n]["value"] = NoText)
    <2>1. \A m, n \in DOMAIN records : \A f \in DOMAIN records[m] :
            (records[m][f] = NoText) = (records[n][f] = NoText)
      BY DEF Alike, NoText
    <2> QED BY ONLY <1>2, <2>1
  <1>4. \A m, n \in 1 .. N : (rows[m][3] = NoText) = (rows[n][3] = NoText)
    BY <1>2, <1>3
  <1>5. \A j \in 1 .. 3 : \A m, n \in 1 .. N : (rows[m][j] = NoText) = (rows[n][j] = NoText)
    BY <1>2, <1>4, TagShapeIs
  <1> QED BY <1>1, <1>5 DEF Even

\* A tag is put where its key is, and leaves the others as they are.
PutIs(m, e, key, value) ==
  /\ key # NoText /\ value # NoText =>
       key \in DOMAIN Xml!PutTag(m, e) /\ Xml!PutTag(m, e)[key] = value
  /\ \A k \in DOMAIN m : k # key => k \in DOMAIN Xml!PutTag(m, e) /\ Xml!PutTag(m, e)[k] = m[k]

\* What PutIs says, of every tag.
LEMMA TagIsPut ==
  ASSUME NEW m, NEW e, NEW key, NEW value,
         Xml!Get(e, <<"key">>) = key, Xml!Get(e, <<"value">>) = value
  PROVE  PutIs(m, e, key, value)
  <1>1. PICK p : p = Xml!PutTag(m, e)
    OBVIOUS
  <1>2. p = IF key = NoText \/ value = NoText THEN m
            ELSE [k \in DOMAIN m \cup {key} |-> IF k = key THEN value ELSE m[k]]
    BY <1>1 DEF Xml!PutTag, NoText
  <1>3. CASE key = NoText \/ value = NoText
    BY <1>1, <1>2, <1>3 DEF PutIs
  <1>4. CASE ~ (key = NoText \/ value = NoText)
    <2>1. p = [k \in DOMAIN m \cup {key} |-> IF k = key THEN value ELSE m[k]]
      BY <1>2, <1>4
    <2>2. key \in DOMAIN p /\ p[key] = value
      BY <2>1
    <2>3. \A k \in DOMAIN m : k # key => k \in DOMAIN p /\ p[k] = m[k]
      BY <2>1
    <2> QED BY ONLY <1>1, <2>2, <2>3 DEF PutIs
  <1> QED BY <1>3, <1>4

\* A tag with a value, whose key no later one has; and its being found.
LastOfKey(records, n, N) ==
  records[n].value # NoText /\ \A k \in n + 1 .. N : records[k].key # records[n].key
TagFound(m, t) == t.key \in DOMAIN m /\ m[t.key] = t.value

\* When the tags are alike, each has the value that comes last.
LEMMA LastTagsAreRead ==
  ASSUME NEW records \in Seq(Tags), Alike(records), NEW N \in Nat, Len(records) = N,
         NEW n \in 1 .. N, LastOfKey(records, n, N)
  PROVE  TagFound(Xml!ParseTaggingResponse(Reread(Xml!GenerateTagging(records)).doc), records[n])
  <1>0. PICK m : m = Xml!ParseTaggingResponse(Reread(Xml!GenerateTagging(records)).doc)
    OBVIOUS
  <1>1. PICK doc, rows : doc = Xml!GenerateTagging(records) /\ rows = TagRows(records)
    OBVIOUS
  <1>2. PICK base : /\ doc \in Documents(TagStrs)
                    /\ Described(doc, base, 2, 3, N, rows, TagPaths, TagPath, ElementNames)
    BY <1>1, TaggingIs DEF AnswerIs
  <1>3. Reread(doc).doc = doc
    <2>1. NoText \in TagStrs
      BY DEF TagStrs, Strs, FieldValues
    <2>2. Xml!Parse(Xml!XMLText(doc)).doc = doc
      BY ONLY <1>2, <2>1, WrittenDocumentsAreRead
    <2> QED BY <2>2 DEF Reread
  <1>4. PICK r : r = Xml!RecordList(TagPath, Xml!DOMToDict(doc))
    OBVIOUS
  <1>5. \A i \in 1 .. N : /\ records[i] \in Tags /\ rows[i] = TagRow(records[i])
    BY <1>1 DEF TagRows
  <1>6. RecordsOf(r, TagPaths, 3, N, rows)
    <2>1. Even(rows, 3, N)
      BY <1>1, EvenTags
    <2>2. 2 \in 1 .. 3
      OBVIOUS
    <2>3. HasTexts(rows, N, 2)
      BY <1>5, TagIs DEF HasTexts
    <2> QED BY ONLY <1>2, <1>4, <2>1, <2>2, <2>3, RecordsAre, 2 \in Nat, 3 \in Nat, N \in Nat
  <1>7. Len(r) = N
    BY <1>6 DEF RecordsOf
  <1>8. ASSUME NEW i \in 1 .. N
        PROVE  /\ Xml!Get(r[i], <<"key">>) = records[i].key
               /\ Xml!Get(r[i], <<"value">>) = records[i].value
               /\ records[i].key # NoText
    <2>1. \A j \in 1 .. 3 : Xml!Get(r[i], TagPaths[j]) = rows[i][j]
      BY <1>6 DEF RecordsOf
    <2>2. /\ rows[i][2] = records[i].key /\ rows[i][3] = records[i].value
          /\ records[i].key # NoText
      BY <1>5, TagIs
    <2>3. TagPaths[2] = <<"key">> /\ TagPaths[3] = <<"value">>
      BY DEF TagPaths
    <2>4. 2 \in 1 .. 3 /\ 3 \in 1 .. 3
      OBVIOUS
    <2>5. Xml!Get(r[i], TagPaths[2]) = records[i].key /\ Xml!Get(r[i], TagPaths[3])
        = records[i].value
      BY <2>1, <2>2, <2>4
    <2> QED BY ONLY <2>2, <2>3, <2>5
  <1>9. PICK upto : /\ \A i \in 1 .. N : upto[i] = Xml!PutTag(upto[i - 1], r[i])
                    /\ m = upto[N]
    <2>1. PICK upto : /\ \A i \in 1 .. N : upto[i] = Xml!PutTag(upto[i - 1], r[i])
                      /\ Xml!TagsIn(r) = upto[N]
      BY <1>7, TagsInAre
    <2>2. m = Xml!ParseTaggingResponse(doc)
      BY <1>0, <1>1, <1>3
    <2>3. Xml!ParseTaggingResponse(doc) = Xml!TagsIn(r)
      BY <1>4 DEF Xml!ParseTaggingResponse, TagPath
    <2> QED BY <2>1, <2>2, <2>3
  <1>10. PICK key, value : key = records[n].key /\ value = records[n].value
    OBVIOUS
  <1> DEFINE P == {i \in Nat : i >= n => key \in DOMAIN upto[i] /\ upto[i][key] = value}
  <1>11. value # NoText /\ \A k \in n + 1 .. N : records[k].key # key
    BY <1>10 DEF LastOfKey
  <1>12. 0 \in P
    OBVIOUS
  <1>13. ASSUME NEW i \in 0 .. N - 1, i \in P PROVE i + 1 \in P
    <2>1. PICK k \in 1 .. N : k = i + 1 /\ i = k - 1
      OBVIOUS
    <2>2. upto[k] = Xml!PutTag(upto[i], r[k])
      BY <1>9, <2>1
    <2>3. PutIs(upto[i], r[k], records[k].key, records[k].value)
      BY <1>8, TagIsPut
    <2>4. CASE k = n
      <3>1. value # NoText /\ key # NoText
        BY <1>8, <1>10, <1>11
      <3>2. key \in DOMAIN upto[k] /\ upto[k][key] = value
        BY ONLY <1>10, <2>2, <2>3, <2>4, <3>1 DEF PutIs
      <3> QED BY <2>1, <3>2
    <2>5. CASE k > n
      <3>1. k \in n + 1 .. N
        BY <2>5
      <3>2. records[k].key # key
        BY <1>11, <3>1
      <3>3. key \in DOMAIN upto[i] /\ upto[i][key] = value
        BY <1>13, <2>1, <2>5
      <3>4. key \in DOMAIN upto[k] /\ upto[k][key] = value
        BY ONLY <2>2, <2>3, <3>2, <3>3 DEF PutIs
      <3> QED BY <2>1, <3>4
    <2>6. CASE k < n
      BY <2>1, <2>6
    <2> QED BY <2>4, <2>5, <2>6
  <1>14. \A i \in 0 .. N : i \in P
    <2>1. \A i \in 0 .. N - 1 : i \in P => i + 1 \in P
      BY <1>13
    <2> HIDE DEF P
    <2> QED BY <1>12, <2>1, Upwards
  <1>15. N \in P
    <2> HIDE DEF P
    <2> QED BY <1>14
  <1>16. N >= n
    OBVIOUS
  <1> QED BY <1>0, <1>9, <1>10, <1>15, <1>16 DEF TagFound

-----------------------------------------------------------------------------
(* A grant that is sent.                                                   *)

\* A grant with one of the fields.
OneShape(a) == <<Under("grant", 0), Under("grantee", 1), Under(a, 2), Under("permission", 1)>>
OnePaths(a) == <<<<>>, <<"grantee">>, <<"grantee", a>>, <<"permission">>>>

\* The shape of a grant with one field, element by element.
LEMMA OneShapeIs ==
  ASSUME NEW a
  PROVE
  /\ DOMAIN OneShape(a) = 1 .. 4 /\ 1 .. 4 = {1, 2, 3, 4} /\ 2 .. 4 = {2, 3, 4}
  /\ OneShape(a)[1].name = "grant" /\ OneShape(a)[1].under = 0
  /\ OneShape(a)[2].name = "grantee" /\ OneShape(a)[2].under = 1
  /\ OneShape(a)[3].name = a /\ OneShape(a)[3].under = 2
  /\ OneShape(a)[4].name = "permission" /\ OneShape(a)[4].under = 1
  BY DEF OneShape, Under

\* It is a shape.
LEMMA OneNested ==
  ASSUME NEW Str, ElementNames \subseteq Str, NEW a \in ElementNames
  PROVE  Nested(Str, OneShape(a), 4)
  BY OneShapeIs DEF Nested, ElementNames

\* Its places have paths below that of the grants.
LEMMA OneSited ==
  ASSUME NEW a \in GrantFieldNames
  PROVE  Sited(ElementNames, OnePaths(a), 4, OneShape(a), GrantPath, AclPath)
  <1>0. a \in ElementNames
    BY FieldAppended
  <1>p. PICK p, q : p = OnePaths(a) /\ q = OneShape(a)
    OBVIOUS
  <1>1. Continued(ElementNames, OnePaths(a), 4, OneShape(a))
    <2>1. p[1] \in Seq(ElementNames) /\ p[2] \in Seq(ElementNames) /\ p[3] \in Seq(ElementNames)
        /\ p[4] \in Seq(ElementNames)
      <3>1. "grantee" \in ElementNames /\ "permission" \in ElementNames
        BY DEF ElementNames
      <3> QED BY <1>0, <1>p, <3>1 DEF OnePaths
    <2>2. \A j \in 1 .. 4 : q[j].name \in ElementNames
      <3>1. "grant" \in ElementNames /\ "grantee" \in ElementNames /\ "permission" \in ElementNames
        BY DEF ElementNames
      <3> QED BY <1>0, <1>p, <3>1, OneShapeIs
    <2>3. \A j \in 1 .. 4 : Xml!ToLower(q[j].name) = q[j].name
      BY <2>2, LowerIs
    <2>q. /\ q[2].name = "grantee" /\ q[2].under = 1 /\ q[3].name = a /\ q[3].under = 2
          /\ q[4].name = "permission" /\ q[4].under = 1
      BY <1>p, OneShapeIs
    <2>r. PICK one : one = <<"grantee">>
      OBVIOUS
    <2>s. p[1] = <<>> /\ p[2] = one /\ p[3] = <<"grantee", a>> /\ p[4] = <<"permission">>
      BY ONLY <1>p, <2>r DEF OnePaths
    <2>t. /\ Append(<<"grantee">>, a) = <<"grantee", a>>
          /\ Append(<<>>, "grantee") = <<"grantee">> /\ Append(<<>>, "permission")
               = <<"permission">>
      <3>1. Append(<<>>, "grantee") = <<"grantee">> /\ Append(<<>>, "permission") = <<"permission">>
        OBVIOUS
      <3> QED BY <3>1, FieldAppended
    <2>4. p[2] = Append(p[1], "grantee") /\ p[3] = Append(p[2], a) /\ p[4]
        = Append(p[1], "permission")
      BY ONLY <2>r, <2>s, <2>t
    <2>5. q[2].under \in 1 .. 2 - 1 /\ q[3].under \in 1 .. 3 - 1 /\ q[4].under \in 1 .. 4 - 1
      BY <2>q
    <2>6. /\ p[2] = Append(p[q[2].under], q[2].name) /\ p[3] = Append(p[q[3].under], q[3].name)
          /\ p[4] = Append(p[q[4].under], q[4].name)
      BY ONLY <2>4, <2>q
    <2>u. 2 .. 4 = {2, 3, 4} /\ 1 .. 4 = {1, 2, 3, 4} /\ 2 .. 4 \subseteq 1 .. 4
      OBVIOUS
    <2>7. \A j \in 2 .. 4 : q[j].under \in 1 .. j - 1 /\ p[j] = Append(p[q[j].under], q[j].name)
      BY ONLY <2>5, <2>6, <2>u
    <2>8. \A j \in 1 .. 4 : p[j] \in Seq(ElementNames)
      BY <2>1, <2>u
    <2> QED BY ONLY <1>p, <2>2, <2>3, <2>7, <2>8, <2>u DEF Continued
  <1>2. \A i, j \in 1 .. 4 : p[i] = p[j] => i = j
    <2>1. p[1] = <<>> /\ p[2] = <<"grantee">> /\ p[3] = <<"grantee", a>> /\ p[4] = <<"permission">>
      BY <1>p DEF OnePaths
    <2>2. 1 .. 4 = {1, 2, 3, 4}
      OBVIOUS
    <2>3. p[1] # p[2] /\ p[1] # p[3] /\ p[1] # p[4]
      BY ONLY <2>1
    <2>4. p[2] # p[3] /\ p[3] # p[4]
      <3>1. Len(p[2]) = 1 /\ Len(p[3]) = 2 /\ Len(p[4]) = 1
        BY ONLY <2>1
      <3> QED BY ONLY <3>1
    <2>5. p[2] # p[4]
      <3>1. p[2][1] = "grantee" /\ p[4][1] = "permission"
        BY ONLY <2>1
      <3> QED BY ONLY <3>1
    <2> QED BY ONLY <2>2, <2>3, <2>4, <2>5
  <1>3. Append(AclPath, Xml!ToLower(q[1].name)) = GrantPath \o p[1]
    <2>1. q[1].name = "grant" /\ p[1] = <<>>
      BY <1>p, OneShapeIs DEF OnePaths
    <2>2. Xml!ToLower("grant") = "grant"
      BY LowerIs DEF ElementNames
    <2>3. GrantPath = Append(AclPath, "grant")
      BY DEF AclPath, GrantPath
    <2>4. GrantPath \o <<>> = GrantPath
      BY DEF GrantPath
    <2> QED BY ONLY <2>1, <2>2, <2>3, <2>4
  <1>4. GrantPath \in Seq(ElementNames)
    BY DEF ElementNames, GrantPath
  <1>5. 1 \in 1 .. 4 /\ q[1].under = 0
    BY <1>p, OneShapeIs
  <1> QED BY ONLY <1>1, <1>2, <1>3, <1>4, <1>5, <1>p DEF Sited

\* What is sent before the first grant.
Ahead(n, p, t) == [name |-> n, parent |-> p, text |-> t]
SentHead == <<Ahead("accesscontrolpolicy", 0, NoText), Ahead("accesscontrollist", 1, NoText),
              Ahead("owner", 2, NoText), Ahead("displayname", 3, "o"), Ahead("ownerid", 3, "o")>>

\* What is sent before the first grant, element by element.
LEMMA SentHeadIs ==
  /\ SentHead \in Seq(Elements(Strs)) /\ Len(SentHead) = 5
  /\ SentHead[1] = Ahead("accesscontrolpolicy", 0, NoText)
  /\ SentHead[2] = Ahead("accesscontrollist", 1, NoText)
  /\ SentHead[3] = Ahead("owner", 2, NoText)
  /\ SentHead[4] = Ahead("displayname", 3, "o") /\ SentHead[5] = Ahead("ownerid", 3, "o")
  <1>1. /\ "accesscontrolpolicy" \in Strs /\ "accesscontrollist" \in Strs /\ "owner" \in Strs
        /\ "displayname" \in Strs /\ "ownerid" \in Strs /\ "o" \in Strs /\ NoText \in Strs
    BY DEF Strs, ElementNames, FieldValues
  <1>2. /\ Ahead("accesscontrolpolicy", 0, NoText) \in Elements(Strs)
        /\ Ahead("accesscontrollist", 1, NoText) \in Elements(Strs)
        /\ Ahead("owner", 2, NoText) \in Elements(Strs)
        /\ Ahead("displayname", 3, "o") \in Elements(Strs)
        /\ Ahead("ownerid", 3, "o") \in Elements(Strs)
    BY <1>1 DEF Ahead, Elements
  <1> QED BY <1>2 DEF SentHead

\* It is a document that ends inside of the list of the grants.
LEMMA SentHeadOpen ==
  /\ SentHead \in Documents(Strs) /\ Open(SentHead, 2, 5)
  <1>1. PICK h : h = SentHead
    OBVIOUS
  <1>2. /\ h \in Seq(Elements(Strs)) /\ Len(h) = 5 /\ 1 .. 5 = {1, 2, 3, 4, 5}
        /\ h[1].parent = 0 /\ h[2].parent = 1 /\ h[3].parent = 2 /\ h[4].parent = 3 /\ h[5].parent
             = 3
    BY <1>1, SentHeadIs DEF Ahead
  <1>3. ASSUME NEW k \in 1 .. 5
        PROVE  h[k].parent \in 0 .. k - 1
            /\ \A m \in h[k].parent + 1 .. k - 1 : h[m].parent >= h[k].parent
    BY <1>2
  <1>4. h \in Documents(Strs)
    BY ONLY <1>2, <1>3 DEF Documents
  <1>5. Open(h, 2, 5)
    BY <1>2 DEF Open
  <1> QED BY <1>1, <1>4, <1>5

\* No text ahead of the grants has a path below that of the grants.
LEMMA SentHeadTexts ==
  ASSUME NEW doc \in Documents(Strs), Headed(doc, SentHead, 5)
  PROVE  /\ Xml!Path(doc, 2) = AclPath
         /\ \A k \in 1 .. 5 : doc[k].text = NoText \/ ~ Xml!IsPrefix(GrantPath, Xml!Path(doc, k))
  <1>1. PICK top \in Nat : Len(doc) = top /\ 5 <= top
    <2>1. 5 <= Len(doc) /\ Len(doc) \in Nat
      BY DEF Headed, Documents
    <2> QED BY <2>1
  <1>2. /\ doc[1] = Ahead("accesscontrolpolicy", 0, NoText)
        /\ doc[2] = Ahead("accesscontrollist", 1, NoText)
        /\ doc[3] = Ahead("owner", 2, NoText)
        /\ doc[4] = Ahead("displayname", 3, "o") /\ doc[5] = Ahead("ownerid", 3, "o")
    <2>1. 1 \in 1 .. 5 /\ 2 \in 1 .. 5 /\ 3 \in 1 .. 5 /\ 4 \in 1 .. 5 /\ 5 \in 1 .. 5
      OBVIOUS
    <2>2. \A k \in 1 .. 5 : doc[k] = SentHead[k]
      BY DEF Headed
    <2> QED BY ONLY <2>1, <2>2, SentHeadIs
  <1>3. /\ doc[1].name = "accesscontrolpolicy" /\ doc[1].parent = 0 /\ doc[1].text = NoText
        /\ doc[2].name = "accesscontrollist" /\ doc[2].parent = 1 /\ doc[2].text = NoText
        /\ doc[3].name = "owner" /\ doc[3].parent = 2 /\ doc[3].text = NoText
        /\ doc[4].name = "displayname" /\ doc[4].parent = 3
        /\ doc[5].name = "ownerid" /\ doc[5].parent = 3
    BY <1>2 DEF Ahead
  <1>4. /\ Xml!ToLower("accesscontrolpolicy") = "accesscontrolpolicy"
        /\ Xml!ToLower("accesscontrollist") = "accesscontrollist"
        /\ Xml!ToLower("owner") = "owner" /\ Xml!ToLower("displayname") = "displayname"
        /\ Xml!ToLower("ownerid") = "ownerid"
    BY LowerIs DEF ElementNames
  <1>5. Xml!Path(doc, 2) = AclPath
    <2>1. Xml!Path(doc, 2) = Append(<<"accesscontrolpolicy">>, "accesscontrollist")
      BY <1>1, <1>3, <1>4, OuterPath
    <2>2. AclPath = Append(<<"accesscontrolpolicy">>, "accesscontrollist")
      BY DEF AclPath
    <2> QED BY <2>1, <2>2
  <1>6. ASSUME NEW k \in 2 .. top, NEW q \in Nat, q = doc[k].parent, q # 0
        PROVE  Xml!Path(doc, k) = Append(Xml!Path(doc, q), Xml!ToLower(doc[k].name))
    <2>1. PathsFrom(doc, 1)
      BY PathsAre
    <2>2. k \in 1 .. Len(doc) /\ k # 1
      BY <1>1
    <2>3. Xml!PathTo(doc, k, 1) = Append(Xml!PathTo(doc, q, 1), Xml!ToLower(doc[k].name))
      BY ONLY <1>6, <2>1, <2>2, q \in Nat DEF PathsFrom
    <2> QED BY <2>3 DEF Xml!Path
  <1>7. PICK o : o = <<"accesscontrolpolicy", "accesscontrollist", "owner">>
    OBVIOUS
  <1>8. Xml!Path(doc, 3) = o
    <2>1. 3 \in 2 .. top /\ 2 \in Nat /\ 2 # 0
      BY <1>1
    <2>2. Xml!Path(doc, 3) = Append(AclPath, "owner")
      BY ONLY <1>3, <1>4, <1>5, <1>6, <2>1
    <2>3. o = Append(AclPath, "owner")
      BY <1>7 DEF AclPath
    <2> QED BY <2>2, <2>3
  <1>9. ASSUME NEW k \in {4, 5} PROVE ~ Xml!IsPrefix(GrantPath, Xml!Path(doc, k))
    <2>1. k \in 2 .. top /\ 3 \in Nat /\ 3 # 0
      BY <1>1
    <2>2. PICK n \in ElementNames : Xml!Path(doc, k) = Append(o, n)
      <3>1. doc[k].parent = 3 /\ doc[k].name \in ElementNames
        BY <1>3 DEF ElementNames
      <3>2. Xml!ToLower(doc[k].name) = doc[k].name
        BY <3>1, LowerIs
      <3>3. Xml!Path(doc, k) = Append(Xml!Path(doc, 3), Xml!ToLower(doc[k].name))
        BY ONLY <1>6, <2>1, <3>1
      <3> QED BY <1>8, <3>1, <3>2, <3>3
    <2>p. PICK p : p = Append(o, n)
      OBVIOUS
    <2>3. p \in Seq(ElementNames) /\ Len(p) = 4 /\ p[3] = "owner"
      <3>1. o \in Seq(ElementNames) /\ Len(o) = 3 /\ o[3] = "owner"
        BY <1>7 DEF ElementNames
      <3>2. \A x \in Seq(ElementNames), y \in ElementNames :
              /\ Append(x, y) \in Seq(ElementNames) /\ Len(Append(x, y)) = Len(x) + 1
              /\ \A i \in 1 .. Len(x) : Append(x, y)[i] = x[i]
        OBVIOUS
      <3>3. /\ Append(o, n) \in Seq(ElementNames) /\ Len(Append(o, n)) = Len(o) + 1
            /\ \A i \in 1 .. Len(o) : Append(o, n)[i] = o[i]
        BY ONLY <3>1, <3>2, n \in ElementNames
      <3>4. 3 \in 1 .. 3 /\ 3 + 1 = 4
        OBVIOUS
      <3> QED BY ONLY <2>p, <3>1, <3>3, <3>4
    <2>4. Len(GrantPath) = 3 /\ GrantPath[3] = "grant"
      BY DEF GrantPath
    <2>5. ASSUME Xml!IsPrefix(GrantPath, p) PROVE FALSE
      <3>1. SubSeq(GrantPath, 1, 3) = SubSeq(p, 1, 3)
        BY ONLY <2>4, <2>5 DEF Xml!IsPrefix
      <3>2. GrantPath \in Seq(ElementNames)
        BY DEF GrantPath, ElementNames
      <3>3. SubSeq(GrantPath, 1, 3)[3] = GrantPath[3] /\ SubSeq(p, 1, 3)[3] = p[3]
        BY ONLY <2>3, <2>4, <3>2
      <3>4. "grant" # "owner"
        OBVIOUS
      <3> QED BY ONLY <2>3, <2>4, <3>1, <3>3, <3>4
    <2> QED BY <2>2, <2>p, <2>5
  <1>10. \A k \in 1 .. 5 : k \in {1, 2, 3} \/ k \in {4, 5}
    OBVIOUS
  <1> QED BY <1>3, <1>5, <1>9, <1>10

\* A grant that is sent, when it has a shape and is read below its path.
SentIs(doc, W, rel, row) ==
  /\ doc \in Documents(Strs)
  /\ RecordsOf(Xml!RecordList(GrantPath, Xml!DOMToDict(doc)), rel, W, 1, <<row>>)

\* A document with one grant of some shape is read so.
LEMMA SentGrant ==
  ASSUME NEW W \in Nat, NEW shape, NEW rel, NEW row, Nested(Strs, shape, W),
         Sited(ElementNames, rel, W, shape, GrantPath, AclPath), RowOf(Strs, W, row),
         NEW c \in 1 .. W, row[c] # NoText,
         NEW doc, doc = SentHead \o AnswerRow(AclPath, shape, 5, row)
  PROVE  SentIs(doc, W, rel, row)
  <1>1. PICK rows : rows = <<row>>
    OBVIOUS
  <1>2. Len(rows) = 1 /\ rows[1] = row /\ 1 .. 1 = {1}
    BY <1>1
  <1>3. Len(AclPath) = 2 /\ Len(SentHead) = 5
    BY SentHeadIs DEF AclPath
  <1>4. Table(doc, SentHead, AclPath, shape, rows)
    <2>1. PICK upto : upto = [n \in 0 .. 1 |-> IF n = 0 THEN SentHead ELSE doc]
      OBVIOUS
    <2>2. upto[0] = SentHead /\ upto[1] = doc
      BY <2>1
    <2>3. \A n \in 1 .. 1 :
            upto[n] = upto[n - 1] \o AnswerRow(AclPath, shape, Len(upto[n - 1]), rows[n])
      <3>1. 1 - 1 = 0
        OBVIOUS
      <3>2. upto[1] = upto[1 - 1] \o AnswerRow(AclPath, shape, Len(upto[1 - 1]), rows[1])
        BY <1>2, <1>3, <2>2, <3>1
      <3> QED BY ONLY <1>2, <3>2
    <2> QED BY ONLY <1>2, <2>2, <2>3 DEF Table
  <1>5. doc \in Documents(Strs) /\ Tabled(doc, 5, 2, W, 1, SentHead, shape, rows)
    <2>1. \A n \in 1 .. 1 : RowOf(Strs, W, rows[n])
      BY <1>2
    <2>2. 5 \in Nat /\ 2 \in Nat /\ 1 \in Nat
      OBVIOUS
    <2> QED BY ONLY <1>2, <1>3, <1>4, <2>1, <2>2, SentHeadOpen, TableIsLaid, Nested(Strs, shape, W),
                    W \in Nat
  <1>6. PICK base : /\ RowsPlaced(doc, base, 5, W, 1)
                    /\ Filled(doc, base, 2, W, 1, shape, rows)
                    /\ Headed(doc, SentHead, 5)
    BY <1>5 DEF Tabled
  <1>7. Described(doc, base, 5, W, 1, rows, rel, GrantPath, ElementNames)
    <2>1. /\ Xml!Path(doc, 2) = AclPath
          /\ \A k \in 1 .. 5 : doc[k].text = NoText \/ ~ Xml!IsPrefix(GrantPath, Xml!Path(doc, k))
      BY ONLY <1>5, <1>6, SentHeadTexts
    <2>2. Sited(ElementNames, rel, W, shape, GrantPath, Xml!Path(doc, 2))
      BY <2>1
    <2>3. 5 \in Nat /\ 2 \in 1 .. 5 /\ 1 \in Nat
      OBVIOUS
    <2> QED BY ONLY <1>5, <1>6, <2>1, <2>2, <2>3, DescribedIs, W \in Nat
  <1>8. Even(rows, W, 1) /\ HasTexts(rows, 1, c)
    BY ONLY <1>2, row[c] # NoText DEF Even, HasTexts
  <1>9. RecordsOf(Xml!RecordList(GrantPath, Xml!DOMToDict(doc)), rel, W, 1, rows)
    <2>1. 5 \in Nat /\ 1 \in Nat
      OBVIOUS
    <2> QED BY ONLY <1>5, <1>7, <1>8, <2>1, RecordsAre, W \in Nat, c \in 1 .. W
  <1> QED BY <1>1, <1>5, <1>9 DEF SentIs

\* A field without a value is not written.
LEMMA OptionalIs ==
  ASSUME NEW os, NEW name, NEW text
  PROVE  /\ text = NoText => Xml!OptionalLeaf(os, name, text) = os
         /\ text # NoText => Xml!OptionalLeaf(os, name, text) = Xml!Leaf(os, name, text)
  BY DEF Xml!OptionalLeaf, NoText

\* Appending one element after the other.
LEMMA OneAppended ==
  ASSUME NEW A, NEW D \in Seq(A), NEW e \in A
  PROVE  /\ Append(D, e) \in Seq(A) /\ Len(Append(D, e)) = Len(D) + 1
         /\ Append(D, e)[Len(D) + 1] = e
         /\ \A k \in 1 .. Len(D) : Append(D, e)[k] = D[k]
  OBVIOUS

\* What an element is made of.
LEMMA AheadIs ==
  ASSUME NEW n \in Strs, NEW p \in Nat, NEW t \in Strs
  PROVE  Ahead(n, p, t) \in Elements(Strs) /\ Ahead(n, p, t).parent = p
  BY DEF Ahead, Elements

\* An element with a text in a stream.
LEMMA LeafAppends ==
  ASSUME NEW D \in Seq(Elements(Strs)), NEW c \in Nat, NEW name \in Strs, NEW text \in Strs
  PROVE  Xml!Leaf([doc |-> D, cur |-> c], name, text)
           = [doc |-> Append(D, Ahead(name, c, text)), cur |-> c]
  <1>1. NoText \in Strs
    BY DEF Strs, FieldValues
  <1>2. Ahead(name, c, NoText) \in Elements(Strs) /\ Ahead(name, c, text) \in Elements(Strs)
    BY <1>1, AheadIs
  <1>3. PICK A : A = Elements(Strs)
    OBVIOUS
  <1>4. /\ [name |-> name, parent |-> c, text |-> NoText] \in A
        /\ [name |-> name, parent |-> c, text |-> text] \in A /\ D \in Seq(A)
    BY <1>2, <1>3 DEF Ahead
  <1>5. Grows(D, c, name, text)
    BY ONLY <1>4, LeafGrows
  <1> QED BY ONLY <1>5 DEF Grows, Ahead

\* Going down in a stream makes an element without a text.
LEMMA DownAppends ==
  ASSUME NEW D, NEW c, NEW name
  PROVE  Xml!Down([doc |-> D, cur |-> c], name)
           = [doc |-> Append(D, Ahead(name, c, NoText)), cur |-> Len(D) + 1]
  <1>1. Goes(D, c, name)
    BY GoesDown
  <1> QED BY ONLY <1>1 DEF Goes, Ahead

\* Going up goes to the element around.
LEMMA UpGoes ==
  ASSUME NEW D, NEW c
  PROVE  Xml!Up([doc |-> D, cur |-> c]) = [doc |-> D, cur |-> D[c].parent]
  <1>1. Returns(D, c)
    BY GoesUp
  <1> QED BY ONLY <1>1 DEF Returns

\* The stream before the first grant.
LEMMA SentStart ==
  ASSUME NEW acl, acl.ownerDisplayName = "o", acl.ownerID = "o"
  PROVE  GrantsStart(acl) = [doc |-> SentHead, cur |-> 2]
  <1>1. PICK e1, e2, e3, e4, e5 :
          /\ e1 = Ahead("accesscontrolpolicy", 0, NoText)
          /\ e2 = Ahead("accesscontrollist", 1, NoText)
          /\ e3 = Ahead("owner", 2, NoText)
          /\ e4 = Ahead("displayname", 3, "o") /\ e5 = Ahead("ownerid", 3, "o")
    OBVIOUS
  <1>0. PICK A : A = Elements(Strs)
    OBVIOUS
  <1>2. e1 \in A /\ e2 \in A /\ e3 \in A /\ e4 \in A /\ e5 \in A /\ e3.parent = 2
    <2>1. /\ "accesscontrolpolicy" \in Strs /\ "accesscontrollist" \in Strs /\ "owner" \in Strs
          /\ "displayname" \in Strs /\ "ownerid" \in Strs /\ "o" \in Strs /\ NoText \in Strs
      BY DEF Strs, ElementNames, FieldValues
    <2>2. 0 \in Nat /\ 1 \in Nat /\ 2 \in Nat /\ 3 \in Nat
      OBVIOUS
    <2>3. e1 \in Elements(Strs) /\ e2 \in Elements(Strs)
      BY ONLY <1>1, <2>1, <2>2, AheadIs
    <2>4. e3 \in Elements(Strs) /\ e3.parent = 2
      BY ONLY <1>1, <2>1, <2>2, AheadIs
    <2>5. e4 \in Elements(Strs)
      BY ONLY <1>1, <2>1, <2>2, AheadIs
    <2>6. e5 \in Elements(Strs)
      BY ONLY <1>1, <2>1, <2>2, AheadIs
    <2> QED BY ONLY <1>0, <2>3, <2>4, <2>5, <2>6
  <1>3. PICK D2, D3, D4, D5 : /\ D2 = <<e1, e2>> /\ D3 = Append(D2, e3) /\ D4 = Append(D3, e4)
                              /\ D5 = Append(D4, e5)
    OBVIOUS
  <1>4. D2 \in Seq(A) /\ Len(D2) = 2
    BY <1>2, <1>3
  <1>5. D3 \in Seq(A) /\ Len(D3) = 3 /\ D3[3] = e3
    BY ONLY <1>2, <1>3, <1>4, OneAppended, 2 + 1 = 3
  <1>6. D4 \in Seq(A) /\ Len(D4) = 4 /\ D4[3] = e3
    BY ONLY <1>2, <1>3, <1>5, OneAppended, 3 + 1 = 4, 3 \in 1 .. 3
  <1>7. D5[3] = e3
    BY ONLY <1>2, <1>3, <1>6, OneAppended, 3 \in 1 .. 4
  <1>8. D5 = SentHead
    <2>1. <<e1, e2, e3>> = D3
      BY ONLY <1>2, <1>3
    <2>2. <<e1, e2, e3, e4>> = D4
      BY ONLY <1>2, <1>3, <2>1
    <2>3. <<e1, e2, e3, e4, e5>> = D5
      BY ONLY <1>2, <1>3, <2>2
    <2>4. SentHead = <<e1, e2, e3, e4, e5>>
      BY ONLY <1>1 DEF SentHead
    <2> QED BY ONLY <2>3, <2>4
  <1>9. PICK list : list = Xml!Root(<<"accesscontrolpolicy", "accesscontrollist">>)
    OBVIOUS
  <1>10. list = [doc |-> D2, cur |-> 2]
    <2>1. PICK around : around = <<"accesscontrolpolicy", "accesscontrollist">>
      OBVIOUS
    <2>2. /\ DOMAIN around = 1 .. 2 /\ Len(around) = 2 /\ around[1] = "accesscontrolpolicy"
          /\ around[2] = "accesscontrollist"
      BY <2>1
    <2>3. list = [doc |-> [k \in 1 .. 2 |-> Ahead(around[k], k - 1, NoText)], cur |-> 2]
      BY ONLY <1>9, <2>1, <2>2 DEF Xml!Root, Xml!Element, Ahead, NoText
    <2>4. [k \in 1 .. 2 |-> Ahead(around[k], k - 1, NoText)] = <<e1, e2>>
      <3>1. PICK s : s = [k \in 1 .. 2 |-> Ahead(around[k], k - 1, NoText)]
        OBVIOUS
      <3>2. s[1] = e1 /\ s[2] = e2
        BY ONLY <1>1, <2>2, <3>1
      <3>3. 1 .. 2 = {1, 2}
        OBVIOUS
      <3>4. <<e1, e2>> = s
        BY ONLY <3>1, <3>2, <3>3
      <3> QED BY <3>1, <3>4
    <2> QED BY ONLY <1>3, <2>3, <2>4
  <1>11. Xml!Down(list, "owner") = [doc |-> D3, cur |-> 3]
    <2>1. Xml!Down([doc |-> D2, cur |-> 2], "owner")
            = [doc |-> Append(D2, Ahead("owner", 2, NoText)), cur |-> Len(D2) + 1]
      BY DownAppends
    <2>2. Len(D2) + 1 = 3
      BY <1>4
    <2> QED BY ONLY <1>1, <1>3, <1>10, <2>1, <2>2
  <1>12. Xml!Leaf([doc |-> D3, cur |-> 3], "displayname", "o") = [doc |-> D4, cur |-> 3]
    <2>1. "displayname" \in Strs /\ "o" \in Strs
      BY DEF Strs, ElementNames, FieldValues
    <2>2. D3 \in Seq(Elements(Strs))
      BY <1>0, <1>5
    <2>3. Xml!Leaf([doc |-> D3, cur |-> 3], "displayname", "o")
            = [doc |-> Append(D3, Ahead("displayname", 3, "o")), cur |-> 3]
      BY ONLY <2>1, <2>2, LeafAppends, 3 \in Nat
    <2> QED BY ONLY <1>1, <1>3, <2>3
  <1>13. Xml!Leaf([doc |-> D4, cur |-> 3], "ownerid", "o") = [doc |-> D5, cur |-> 3]
    <2>1. "ownerid" \in Strs /\ "o" \in Strs
      BY DEF Strs, ElementNames, FieldValues
    <2>2. D4 \in Seq(Elements(Strs))
      BY <1>0, <1>6
    <2>3. Xml!Leaf([doc |-> D4, cur |-> 3], "ownerid", "o")
            = [doc |-> Append(D4, Ahead("ownerid", 3, "o")), cur |-> 3]
      BY ONLY <2>1, <2>2, LeafAppends, 3 \in Nat
    <2> QED BY ONLY <1>1, <1>3, <2>3
  <1>14. Xml!Up([doc |-> D5, cur |-> 3]) = [doc |-> D5, cur |-> 2]
    BY ONLY <1>2, <1>7, UpGoes
  <1>15. "o" # NoText
    BY DEF NoText
  <1>16. PICK os3, os4, os5 :
           /\ os3 = Xml!Down(list, "owner")
           /\ os4 = Xml!OptionalLeaf(os3, "displayname", "o")
           /\ os5 = Xml!OptionalLeaf(os4, "ownerid", "o")
    OBVIOUS
  <1>17. GrantsStart(acl) = Xml!Up(os5)
    <2>1. /\ (acl.ownerID = "") = FALSE
          /\ (IF acl.ownerID = "" THEN "" ELSE acl.ownerDisplayName) = "o"
          /\ acl.ownerDisplayName = "o"
      BY <1>15 DEF NoText
    <2> QED BY ONLY <1>9, <1>16, <2>1 DEF GrantsStart
  <1>18. os4 = [doc |-> D4, cur |-> 3]
    BY ONLY <1>11, <1>12, <1>15, <1>16, OptionalIs
  <1>19. os5 = [doc |-> D5, cur |-> 3]
    BY ONLY <1>13, <1>15, <1>16, <1>18, OptionalIs
  <1> QED BY ONLY <1>8, <1>14, <1>17, <1>19

\* The elements of a grant that is sent, and the document up to its grantee.
TheGrant == Ahead("grant", 2, NoText)
TheGrantee == Ahead("grantee", 6, NoText)
TheField(a, value) == Ahead(a, 7, value)
ThePermission(g) == Ahead("permission", 6, g.permission)
UpToGrantee == Append(Append(SentHead, TheGrant), TheGrantee)

\* The document up to the grantee.
LEMMA UpToGranteeIs ==
  /\ TheGrant \in Elements(Strs) /\ TheGrantee \in Elements(Strs) /\ TheGrantee.parent = 6
  /\ Append(SentHead, TheGrant) \in Seq(Elements(Strs)) /\ Len(Append(SentHead, TheGrant)) = 6
  /\ UpToGrantee \in Seq(Elements(Strs)) /\ Len(UpToGrantee) = 7 /\ UpToGrantee[7] = TheGrantee
  <1>1. PICK A, e, f : A = Elements(Strs) /\ e = TheGrant /\ f = TheGrantee
    OBVIOUS
  <1>2. e \in A /\ f \in A /\ f.parent = 6
    <2>1. "grant" \in Strs /\ "grantee" \in Strs /\ NoText \in Strs
      BY DEF Strs, ElementNames, FieldValues
    <2> QED BY <1>1, <2>1, AheadIs DEF TheGrant, TheGrantee
  <1>3. SentHead \in Seq(A) /\ Len(SentHead) = 5
    BY <1>1, SentHeadIs
  <1>4. PICK E : E = Append(SentHead, e)
    OBVIOUS
  <1>5. E \in Seq(A) /\ Len(E) = 6
    <2>1. /\ Append(SentHead, e) \in Seq(A)
          /\ Len(Append(SentHead, e)) = Len(SentHead) + 1
      BY ONLY <1>2, <1>3, OneAppended
    <2>2. Len(SentHead) + 1 = 6
      BY <1>3
    <2> QED BY ONLY <1>4, <2>1, <2>2
  <1>6. PICK F : F = Append(E, f)
    OBVIOUS
  <1>7. F \in Seq(A) /\ Len(F) = 7 /\ F[7] = f
    <2>1. /\ Append(E, f) \in Seq(A) /\ Len(Append(E, f)) = Len(E) + 1
          /\ Append(E, f)[Len(E) + 1] = f
      <3>1. \A x \in Seq(A), y \in A :
              /\ Append(x, y) \in Seq(A) /\ Len(Append(x, y)) = Len(x) + 1
              /\ Append(x, y)[Len(x) + 1] = y
        OBVIOUS
      <3> QED BY ONLY <1>2, <1>5, <3>1
    <2>2. Len(E) + 1 = 7
      BY <1>5
    <2> QED BY ONLY <1>6, <2>1, <2>2
  <1>8. F = UpToGrantee
    BY ONLY <1>1, <1>4, <1>6 DEF UpToGrantee
  <1> QED BY ONLY <1>1, <1>2, <1>4, <1>5, <1>7, <1>8

\* A field is an element.
LEMMA FieldIs ==
  ASSUME NEW a \in GrantFieldNames, NEW value \in Strs
  PROVE  a \in Strs /\ TheField(a, value) \in Elements(Strs)
  <1>1. a \in Strs
    BY FieldAppended DEF Strs
  <1> QED BY <1>1, AheadIs DEF TheField

\* A grant with a grantee, once the fields of that are written.
LEMMA GrantAdded ==
  ASSUME NEW g \in Grants, g.id # NoText \/ g.displayname # NoText,
         NEW G \in Seq(Elements(Strs)), G[7] = TheGrantee,
         Xml!OptionalLeaf(Xml!OptionalLeaf([doc |-> UpToGrantee, cur |-> 7],
                                           "displayname", g.displayname), "id", g.id)
           = [doc |-> G, cur |-> 7]
  PROVE  Xml!AddGrant([doc |-> SentHead, cur |-> 2], g).doc = Append(G, ThePermission(g))
  <1>1. PICK os, os1, os2, os3 :
          /\ os = [doc |-> SentHead, cur |-> 2] /\ os1 = Xml!Down(os, "grant")
          /\ os2 = Xml!Down(os1, "grantee")
          /\ os3 = Xml!OptionalLeaf(Xml!OptionalLeaf(os2, "displayname", g.displayname), "id", g.id)
    OBVIOUS
  <1>2. os1 = [doc |-> Append(SentHead, TheGrant), cur |-> 6]
    <2>1. Xml!Down([doc |-> SentHead, cur |-> 2], "grant")
            = [doc |-> Append(SentHead, Ahead("grant", 2, NoText)), cur |-> Len(SentHead) + 1]
      BY DownAppends
    <2>2. Len(SentHead) + 1 = 6
      BY SentHeadIs
    <2> QED BY ONLY <1>1, <2>1, <2>2 DEF TheGrant
  <1>3. os2 = [doc |-> UpToGrantee, cur |-> 7]
    <2>1. PICK E : E = Append(SentHead, TheGrant)
      OBVIOUS
    <2>2. Xml!Down([doc |-> E, cur |-> 6], "grantee")
            = [doc |-> Append(E, Ahead("grantee", 6, NoText)), cur |-> Len(E) + 1]
      BY DownAppends
    <2>3. Len(E) + 1 = 7
      BY <2>1, UpToGranteeIs
    <2> QED BY ONLY <1>1, <1>2, <2>1, <2>2, <2>3 DEF UpToGrantee, TheGrantee
  <1>4. os3 = [doc |-> G, cur |-> 7]
    BY <1>1, <1>3
  <1>5. Xml!Up(os3) = [doc |-> G, cur |-> 6]
    <2>1. Xml!Up([doc |-> G, cur |-> 7]) = [doc |-> G, cur |-> G[7].parent]
      BY UpGoes
    <2>2. G[7].parent = 6
      BY UpToGranteeIs
    <2> QED BY ONLY <1>4, <2>1, <2>2
  <1>6. Xml!Leaf([doc |-> G, cur |-> 6], "permission", g.permission)
          = [doc |-> Append(G, Ahead("permission", 6, g.permission)), cur |-> 6]
    <2>1. "permission" \in Strs /\ g.permission \in Strs /\ 6 \in Nat
      BY GrantIs DEF Strs, ElementNames
    <2> QED BY ONLY <2>1, LeafAppends, G \in Seq(Elements(Strs))
  <1>7. Xml!AddGrant(os, g) = Xml!Leaf(Xml!Up(os3), "permission", g.permission)
    <2>1. (g.id # "" \/ g.displayname # "") = TRUE
      BY DEF NoText
    <2> QED BY ONLY <1>1, <2>1 DEF Xml!AddGrant
  <1>8. Xml!AddGrant(os, g) = [doc |-> Append(G, Ahead("permission", 6, g.permission)), cur |-> 6]
    BY ONLY <1>5, <1>6, <1>7
  <1> QED BY ONLY <1>1, <1>8 DEF ThePermission

\* A field that has a value is one more element in the grantee.
Fielded(D, n, a, value) ==
  /\ Xml!OptionalLeaf([doc |-> D, cur |-> 7], a, value)
       = [doc |-> Append(D, TheField(a, value)), cur |-> 7]
  /\ Append(D, TheField(a, value)) \in Seq(Elements(Strs))
  /\ Len(Append(D, TheField(a, value))) = n + 1
  /\ Append(D, TheField(a, value))[7] = TheGrantee

\* What Fielded says, of every field.
LEMMA FieldAdded ==
  ASSUME NEW D \in Seq(Elements(Strs)), NEW n \in Nat, Len(D) = n, 7 <= n, D[7] = TheGrantee,
         NEW a \in GrantFieldNames, NEW value \in Strs, value # NoText
  PROVE  Fielded(D, n, a, value)
  <1>1. a \in Strs /\ TheField(a, value) \in Elements(Strs)
    BY FieldIs
  <1>2. Xml!Leaf([doc |-> D, cur |-> 7], a, value)
      = [doc |-> Append(D, Ahead(a, 7, value)), cur |-> 7]
    BY ONLY <1>1, LeafAppends, D \in Seq(Elements(Strs)), value \in Strs, 7 \in Nat
  <1>3. Xml!OptionalLeaf([doc |-> D, cur |-> 7], a, value)
      = [doc |-> Append(D, TheField(a, value)), cur |-> 7]
    BY ONLY <1>2, OptionalIs, value # NoText DEF TheField
  <1>4. 7 \in 1 .. n
    OBVIOUS
  <1>5. /\ Append(D, TheField(a, value)) \in Seq(Elements(Strs))
        /\ Len(Append(D, TheField(a, value))) = n + 1
        /\ \A k \in 1 .. n : Append(D, TheField(a, value))[k] = D[k]
    BY ONLY <1>1, OneAppended, D \in Seq(Elements(Strs)), Len(D) = n
  <1> QED BY ONLY <1>3, <1>4, <1>5, D[7] = TheGrantee DEF Fielded

\* Appending four elements.
LEMMA FourJoined ==
  ASSUME NEW A, NEW D \in Seq(A), NEW e \in A, NEW f \in A, NEW g \in A, NEW h \in A
  PROVE  Append(Append(Append(Append(D, e), f), g), h) = D \o <<e, f, g, h>>
  OBVIOUS

\* Appending five elements.
FiveAt(D, e, f, g, h, i) ==
  Append(Append(Append(Append(Append(D, e), f), g), h), i) = D \o <<e, f, g, h, i>>

\* What FiveAt says.
LEMMA FiveJoined ==
  ASSUME NEW A, NEW D \in Seq(A), NEW e \in A, NEW f \in A, NEW g \in A, NEW h \in A, NEW i \in A
  PROVE  FiveAt(D, e, f, g, h, i)
  BY DEF FiveAt

\* The row of a grant with both fields.
LEMMA BothRow ==
  ASSUME NEW a \in GrantFieldNames, NEW b \in GrantFieldNames, NEW v, NEW w, NEW p, NEW g,
      p = g.permission,
         NEW row, row = <<NoText, NoText, v, w, p>>
  PROVE  AnswerRow(AclPath, GrantShape(a, b), 5, row)
           = <<TheGrant, TheGrantee, TheField(a, v), TheField(b, w), ThePermission(g)>>
  <1>1. PICK r, shape, around : /\ shape = GrantShape(a, b) /\ around = AclPath
                                /\ r = AnswerRow(around, shape, 5, row)
    OBVIOUS
  <1>2. Len(around) = 2
    BY <1>1 DEF AclPath
  <1>3. /\ row[1] = NoText /\ row[2] = NoText /\ row[3] = v /\ row[4] = w /\ row[5] = p
    OBVIOUS
  <1>4. r = [j \in 1 .. 5 |->
               Ahead(shape[j].name, IF shape[j].under = 0 THEN 2 ELSE 5 + shape[j].under, row[j])]
    BY ONLY <1>1, <1>2, GrantShapeIs DEF AnswerRow, Xml!Element, Ahead
  <1>5. /\ shape[1].name = "grant" /\ shape[1].under = 0
        /\ shape[2].name = "grantee" /\ shape[2].under = 1
        /\ shape[3].name = a /\ shape[3].under = 2 /\ shape[4].name = b /\ shape[4].under = 2
        /\ shape[5].name = "permission" /\ shape[5].under = 1 /\ 1 .. 5 = {1, 2, 3, 4, 5}
    BY <1>1, GrantShapeIs
  <1>6. /\ r[1] = TheGrant /\ r[2] = TheGrantee /\ r[3] = TheField(a, v) /\ r[4] = TheField(b, w)
        /\ r[5] = ThePermission(g)
    <2>1. p = g.permission
      OBVIOUS
    <2>2. 5 + 1 = 6 /\ 5 + 2 = 7
      OBVIOUS
    <2> QED BY ONLY <1>3, <1>4, <1>5, <2>1, <2>2
               DEF TheGrant, TheGrantee, TheField, ThePermission
  <1>7. r = <<r[1], r[2], r[3], r[4], r[5]>>
    <2>1. <<r[1], r[2], r[3], r[4], r[5]>> = r
      BY ONLY <1>4, <1>5
    <2> QED BY <2>1
  <1> QED BY ONLY <1>1, <1>6, <1>7

\* The row of a grant with one field.
LEMMA OneRow ==
  ASSUME NEW a \in GrantFieldNames, NEW v, NEW p, NEW g, p = g.permission,
         NEW row, row = <<NoText, NoText, v, p>>
  PROVE  AnswerRow(AclPath, OneShape(a), 5, row)
           = <<TheGrant, TheGrantee, TheField(a, v), ThePermission(g)>>
  <1>1. PICK r, shape, around : /\ shape = OneShape(a) /\ around = AclPath
                                /\ r = AnswerRow(around, shape, 5, row)
    OBVIOUS
  <1>2. Len(around) = 2
    BY <1>1 DEF AclPath
  <1>3. /\ row[1] = NoText /\ row[2] = NoText /\ row[3] = v /\ row[4] = p
    OBVIOUS
  <1>4. r = [j \in 1 .. 4 |->
               Ahead(shape[j].name, IF shape[j].under = 0 THEN 2 ELSE 5 + shape[j].under, row[j])]
    BY ONLY <1>1, <1>2, OneShapeIs DEF AnswerRow, Xml!Element, Ahead
  <1>5. /\ shape[1].name = "grant" /\ shape[1].under = 0
        /\ shape[2].name = "grantee" /\ shape[2].under = 1
        /\ shape[3].name = a /\ shape[3].under = 2
        /\ shape[4].name = "permission" /\ shape[4].under = 1 /\ 1 .. 4 = {1, 2, 3, 4}
    BY <1>1, OneShapeIs
  <1>6. /\ r[1] = TheGrant /\ r[2] = TheGrantee /\ r[3] = TheField(a, v)
        /\ r[4] = ThePermission(g)
    <2>1. p = g.permission
      OBVIOUS
    <2>2. 5 + 1 = 6 /\ 5 + 2 = 7
      OBVIOUS
    <2> QED BY ONLY <1>3, <1>4, <1>5, <2>1, <2>2
               DEF TheGrant, TheGrantee, TheField, ThePermission
  <1>7. r = <<r[1], r[2], r[3], r[4]>>
    <2>1. <<r[1], r[2], r[3], r[4]>> = r
      BY ONLY <1>4, <1>5
    <2> QED BY <2>1
  <1> QED BY ONLY <1>1, <1>6, <1>7

\* What is sent of a grant with both fields.
LEMMA BothSent ==
  ASSUME NEW g \in Grants, g.id # NoText, g.displayname # NoText,
         NEW row, row = <<NoText, NoText, g.displayname, g.id, g.permission>>
  PROVE  Xml!AddGrant([doc |-> SentHead, cur |-> 2], g).doc
           = SentHead \o AnswerRow(AclPath, GrantShape("displayname", "id"), 5, row)
  <1>1. PICK A, x, y, p, e, f :
          /\ A = Elements(Strs) /\ x = TheField("displayname", g.displayname)
          /\ y = TheField("id", g.id) /\ p = ThePermission(g) /\ e = TheGrant /\ f = TheGrantee
    OBVIOUS
  <1>2. "id" \in GrantFieldNames /\ "displayname" \in GrantFieldNames
    BY DEF GrantFieldNames
  <1>3. g.id \in Strs /\ g.displayname \in Strs /\ g.permission \in Strs
    BY GrantIs
  <1>4. x \in A /\ y \in A /\ p \in A /\ e \in A /\ f \in A
    <2>1. "permission" \in Strs /\ 6 \in Nat
      BY DEF Strs, ElementNames
    <2>2. p \in A
      BY ONLY <1>1, <1>3, <2>1, AheadIs DEF ThePermission
    <2> QED BY <1>1, <1>2, <1>3, <2>2, FieldIs, UpToGranteeIs
  <1>5. PICK F, G, H : F = UpToGrantee /\ G = Append(F, x) /\ H = Append(G, y)
    OBVIOUS
  <1>6. F \in Seq(Elements(Strs)) /\ Len(F) = 7 /\ F[7] = TheGrantee
    BY <1>5, UpToGranteeIs
  <1>7. /\ Xml!OptionalLeaf([doc |-> F, cur |-> 7], "displayname", g.displayname)
             = [doc |-> G, cur |-> 7]
        /\ G \in Seq(Elements(Strs)) /\ Len(G) = 8 /\ G[7] = TheGrantee
    <2>1. G = Append(F, TheField("displayname", g.displayname)) /\ g.displayname # NoText
      BY <1>1, <1>5
    <2>2. 7 \in Nat /\ 7 <= 7
      OBVIOUS
    <2>3. Fielded(F, 7, "displayname", g.displayname)
      BY ONLY <1>2, <1>3, <1>6, <2>1, <2>2, FieldAdded
    <2>4. 7 + 1 = 8
      OBVIOUS
    <2> QED BY ONLY <2>1, <2>3, <2>4 DEF Fielded
  <1>8. /\ Xml!OptionalLeaf([doc |-> G, cur |-> 7], "id", g.id) = [doc |-> H, cur |-> 7]
        /\ H \in Seq(Elements(Strs)) /\ H[7] = TheGrantee
    <2>1. H = Append(G, TheField("id", g.id)) /\ g.id # NoText
      BY <1>1, <1>5
    <2>2. 8 \in Nat /\ 7 <= 8
      OBVIOUS
    <2>3. Fielded(G, 8, "id", g.id)
      BY ONLY <1>2, <1>3, <1>7, <2>1, <2>2, FieldAdded
    <2> QED BY ONLY <2>1, <2>3 DEF Fielded
  <1>9. Xml!AddGrant([doc |-> SentHead, cur |-> 2], g).doc = Append(H, p)
    <2>1. Xml!OptionalLeaf(Xml!OptionalLeaf([doc |-> UpToGrantee, cur |-> 7],
                                            "displayname", g.displayname), "id", g.id)
            = [doc |-> H, cur |-> 7]
      BY ONLY <1>5, <1>7, <1>8
    <2> QED BY <1>1, <1>8, <2>1, GrantAdded
  <1>10. Append(H, p) = SentHead \o <<e, f, x, y, p>>
    <2>1. Append(H, p) = Append(Append(Append(Append(Append(SentHead, e), f), x), y), p)
      BY ONLY <1>1, <1>5 DEF UpToGrantee
    <2>2. SentHead \in Seq(A)
      BY <1>1, SentHeadIs
    <2>3. FiveAt(SentHead, e, f, x, y, p)
      BY ONLY <1>4, <2>2, FiveJoined
    <2> QED BY ONLY <2>1, <2>3 DEF FiveAt
  <1>11. AnswerRow(AclPath, GrantShape("displayname", "id"), 5, row) = <<e, f, x, y, p>>
    BY <1>1, <1>2, BothRow
  <1> QED BY ONLY <1>9, <1>10, <1>11

\* What is sent of a grant with one of the fields.
LEMMA OneSent ==
  ASSUME NEW g \in Grants, NEW a \in GrantFieldNames, NEW v, v # NoText,
         \/ a = "id" /\ v = g.id /\ g.displayname = NoText
         \/ a = "displayname" /\ v = g.displayname /\ g.id = NoText,
         NEW row, row = <<NoText, NoText, v, g.permission>>
  PROVE  Xml!AddGrant([doc |-> SentHead, cur |-> 2], g).doc
           = SentHead \o AnswerRow(AclPath, OneShape(a), 5, row)
  <1>1. PICK A, x, p, e, f :
          /\ A = Elements(Strs) /\ x = TheField(a, v)
          /\ p = ThePermission(g) /\ e = TheGrant /\ f = TheGrantee
    OBVIOUS
  <1>3. g.id \in Strs /\ g.displayname \in Strs /\ g.permission \in Strs
    BY GrantIs
  <1>v. v \in Strs
    BY <1>3
  <1>4. x \in A /\ p \in A /\ e \in A /\ f \in A
    <2>1. "permission" \in Strs /\ 6 \in Nat
      BY DEF Strs, ElementNames
    <2>2. p \in A
      BY ONLY <1>1, <1>3, <2>1, AheadIs DEF ThePermission
    <2> QED BY <1>1, <1>v, <2>2, FieldIs, UpToGranteeIs
  <1>5. PICK F, G : F = UpToGrantee /\ G = Append(F, x)
    OBVIOUS
  <1>6. F \in Seq(Elements(Strs)) /\ Len(F) = 7 /\ F[7] = TheGrantee
    BY <1>5, UpToGranteeIs
  <1>7. /\ Xml!OptionalLeaf([doc |-> F, cur |-> 7], a, v) = [doc |-> G, cur |-> 7]
        /\ G \in Seq(Elements(Strs)) /\ G[7] = TheGrantee
    <2>1. G = Append(F, TheField(a, v)) /\ v # NoText
      BY <1>1, <1>5
    <2>2. 7 \in Nat /\ 7 <= 7
      OBVIOUS
    <2>3. Fielded(F, 7, a, v)
      BY ONLY <1>v, <1>6, <2>1, <2>2, FieldAdded, a \in GrantFieldNames
    <2> QED BY ONLY <2>1, <2>3 DEF Fielded
  <1>8. Xml!OptionalLeaf(Xml!OptionalLeaf([doc |-> F, cur |-> 7], "displayname", g.displayname),
                         "id", g.id)
          = [doc |-> G, cur |-> 7]
    <2>1. CASE a = "id" /\ v = g.id /\ g.displayname = NoText
      <3>1. Xml!OptionalLeaf([doc |-> F, cur |-> 7], "displayname", g.displayname)
              = [doc |-> F, cur |-> 7]
        BY ONLY <2>1, OptionalIs
      <3> QED BY ONLY <1>7, <2>1, <3>1
    <2>2. CASE a = "displayname" /\ v = g.displayname /\ g.id = NoText
      <3>1. Xml!OptionalLeaf([doc |-> G, cur |-> 7], "id", g.id) = [doc |-> G, cur |-> 7]
        BY ONLY <2>2, OptionalIs
      <3> QED BY ONLY <1>7, <2>2, <3>1
    <2> QED BY <2>1, <2>2
  <1>9. Xml!AddGrant([doc |-> SentHead, cur |-> 2], g).doc = Append(G, p)
    <2>1. g.id # NoText \/ g.displayname # NoText
      OBVIOUS
    <2>2. Xml!OptionalLeaf(Xml!OptionalLeaf([doc |-> UpToGrantee, cur |-> 7],
                                            "displayname", g.displayname), "id", g.id)
            = [doc |-> G, cur |-> 7]
      BY ONLY <1>5, <1>8
    <2> QED BY <1>1, <1>7, <2>1, <2>2, GrantAdded
  <1>10. Append(G, p) = SentHead \o <<e, f, x, p>>
    <2>1. Append(G, p) = Append(Append(Append(Append(SentHead, e), f), x), p)
      BY ONLY <1>1, <1>5 DEF UpToGrantee
    <2>2. SentHead \in Seq(A)
      BY <1>1, SentHeadIs
    <2> QED BY ONLY <1>4, <2>1, <2>2, FourJoined
  <1>11. AnswerRow(AclPath, OneShape(a), 5, row) = <<e, f, x, p>>
    BY <1>1, OneRow
  <1> QED BY ONLY <1>9, <1>10, <1>11

\* The fields of a grant as they are found, of whichever of them are sent.
LEMMA BothGiven ==
  ASSUME NEW g \in Grants, g.id # NoText, g.displayname # NoText,
         NEW doc, doc = Xml!AddGrant([doc |-> SentHead, cur |-> 2], g).doc,
         NEW records \in Seq(Grants), records[1] = g
  PROVE  doc \in Documents(Strs)
      /\ GrantsGiven(Xml!RecordList(GrantPath, Xml!DOMToDict(doc)), records, 1)
  <1>1. PICK row, shape, rel : /\ row = <<NoText, NoText, g.displayname, g.id, g.permission>>
                               /\ shape = GrantShape("displayname", "id")
                               /\ rel = GrantPaths("displayname", "id")
    OBVIOUS
  <1>2. /\ "id" \in GrantFieldNames /\ "displayname" \in GrantFieldNames /\ "displayname" # "id"
        /\ "id" \in ElementNames /\ "displayname" \in ElementNames /\ ElementNames \subseteq Strs
    BY DEF GrantFieldNames, ElementNames, Strs
  <1>3. doc = SentHead \o AnswerRow(AclPath, shape, 5, row)
    BY ONLY <1>1, BothSent, g \in Grants, g.id # NoText, g.displayname # NoText,
            doc = Xml!AddGrant([doc |-> SentHead, cur |-> 2], g).doc
  <1>4. /\ row[1] = NoText /\ row[2] = NoText /\ row[3] = g.displayname /\ row[4] = g.id
        /\ row[5] = g.permission
    BY <1>1
  <1>5. RowOf(Strs, 5, row) /\ row[5] # NoText
    BY <1>4, GrantIs, GrantShapeIs DEF RowOf
  <1>6. Nested(Strs, shape, 5) /\ Sited(ElementNames, rel, 5, shape, GrantPath, AclPath)
    BY <1>1, <1>2, GrantNested, GrantSited
  <1>7. SentIs(doc, 5, rel, row)
    <2>1. 5 \in Nat /\ 5 \in 1 .. 5
      OBVIOUS
    <2> QED BY ONLY <1>3, <1>5, <1>6, <2>1, SentGrant
  <1>8. PICK r : r = Xml!RecordList(GrantPath, Xml!DOMToDict(doc))
    OBVIOUS
  <1>9. doc \in Documents(Strs) /\ RecordsOf(r, rel, 5, 1, <<row>>)
    BY <1>7, <1>8 DEF SentIs
  <1>10. DOMAIN r = 1 .. 1 /\ \A j \in 1 .. 5 : Xml!Get(r[1], rel[j]) = row[j]
    BY <1>9 DEF RecordsOf
  <1>11. /\ rel[3] = <<"grantee", "displayname">> /\ rel[4] = <<"grantee", "id">>
         /\ rel[5] = <<"permission">>
    BY <1>1 DEF GrantPaths
  <1>12. /\ Xml!Get(r[1], <<"grantee", "id">>) = g.id
         /\ Xml!Get(r[1], <<"grantee", "displayname">>) = g.displayname
         /\ Xml!Get(r[1], <<"permission">>) = g.permission
    <2>1. 3 \in 1 .. 5 /\ 4 \in 1 .. 5 /\ 5 \in 1 .. 5
      OBVIOUS
    <2>2. Xml!Get(r[1], rel[3]) = row[3] /\ Xml!Get(r[1], rel[4]) = row[4] /\ Xml!Get(r[1], rel[5])
        = row[5]
      BY ONLY <1>10, <2>1
    <2> QED BY ONLY <1>4, <1>11, <2>2
  <1>13. \A n \in 1 .. 1 : n = 1
    OBVIOUS
  <1>14. GrantsGiven(r, records, 1)
    BY ONLY <1>10, <1>12, <1>13, records[1] = g DEF GrantsGiven
  <1> QED BY ONLY <1>8, <1>9, <1>14

\* A grant with one field: the other one is not found.
LEMMA OneGiven ==
  ASSUME NEW g \in Grants, NEW a \in GrantFieldNames, NEW b \in GrantFieldNames, a # b, NEW v,
      v # NoText,
         \/ a = "id" /\ v = g.id /\ g.displayname = NoText
         \/ a = "displayname" /\ v = g.displayname /\ g.id = NoText,
         NEW doc, doc = Xml!AddGrant([doc |-> SentHead, cur |-> 2], g).doc,
         NEW records \in Seq(Grants), records[1] = g
  PROVE  doc \in Documents(Strs)
      /\ GrantsGiven(Xml!RecordList(GrantPath, Xml!DOMToDict(doc)), records, 1)
  <1>1. PICK row, shape, rel : /\ row = <<NoText, NoText, v, g.permission>>
                               /\ shape = OneShape(a) /\ rel = OnePaths(a)
    OBVIOUS
  <1>2. a \in ElementNames /\ ElementNames \subseteq Strs
    BY FieldAppended DEF Strs
  <1>3. doc = SentHead \o AnswerRow(AclPath, shape, 5, row)
    <2>1. /\ \/ a = "id" /\ v = g.id /\ g.displayname = NoText
             \/ a = "displayname" /\ v = g.displayname /\ g.id = NoText
          /\ v # NoText /\ doc = Xml!AddGrant([doc |-> SentHead, cur |-> 2], g).doc
      OBVIOUS
    <2> QED BY ONLY <1>1, <2>1, OneSent, g \in Grants, a \in GrantFieldNames
  <1>4. row[1] = NoText /\ row[2] = NoText /\ row[3] = v /\ row[4] = g.permission
    BY <1>1
  <1>5. RowOf(Strs, 4, row) /\ row[4] # NoText
    BY <1>4, GrantIs, OneShapeIs DEF RowOf
  <1>6. Nested(Strs, shape, 4) /\ Sited(ElementNames, rel, 4, shape, GrantPath, AclPath)
    BY <1>1, <1>2, OneNested, OneSited
  <1>7. SentIs(doc, 4, rel, row)
    <2>1. 4 \in Nat /\ 4 \in 1 .. 4
      OBVIOUS
    <2> QED BY ONLY <1>3, <1>5, <1>6, <2>1, SentGrant
  <1>8. PICK r : r = Xml!RecordList(GrantPath, Xml!DOMToDict(doc))
    OBVIOUS
  <1>9. doc \in Documents(Strs) /\ RecordsOf(r, rel, 4, 1, <<row>>)
    BY <1>7, <1>8 DEF SentIs
  <1>10. /\ DOMAIN r = 1 .. 1 /\ \A j \in 1 .. 4 : Xml!Get(r[1], rel[j]) = row[j]
         /\ \A q : (\A j \in 1 .. 4 : q # rel[j]) => Xml!Get(r[1], q) = NoText
    BY <1>9 DEF RecordsOf
  <1>11. /\ rel[1] = <<>> /\ rel[2] = <<"grantee">> /\ rel[3] = <<"grantee", a>>
         /\ rel[4] = <<"permission">>
    BY <1>1 DEF OnePaths
  <1>12. Xml!Get(r[1], <<"grantee", a>>) = v /\ Xml!Get(r[1], <<"permission">>) = g.permission
    <2>1. 3 \in 1 .. 4 /\ 4 \in 1 .. 4
      OBVIOUS
    <2>2. Xml!Get(r[1], rel[3]) = row[3] /\ Xml!Get(r[1], rel[4]) = row[4]
      BY ONLY <1>10, <2>1
    <2> QED BY ONLY <1>4, <1>11, <2>2
  <1>13. Xml!Get(r[1], <<"grantee", b>>) = NoText
    <2>1. PICK q : q = <<"grantee", b>>
      OBVIOUS
    <2>2. q # rel[1] /\ q # rel[2] /\ q # rel[3] /\ q # rel[4]
      BY ONLY <1>11, <2>1, a # b
    <2>3. 1 .. 4 = {1, 2, 3, 4}
      OBVIOUS
    <2>4. \A j \in 1 .. 4 : q # rel[j]
      BY ONLY <2>2, <2>3
    <2> QED BY ONLY <1>10, <2>1, <2>4
  <1>14. /\ Xml!Get(r[1], <<"grantee", "id">>) = g.id
         /\ Xml!Get(r[1], <<"grantee", "displayname">>) = g.displayname
    <2>1. /\ a = "id" => b = "displayname"
          /\ a = "displayname" => b = "id"
      BY DEF GrantFieldNames
    <2>2. CASE a = "id" /\ v = g.id /\ g.displayname = NoText
      BY ONLY <1>12, <1>13, <2>1, <2>2
    <2>3. CASE a = "displayname" /\ v = g.displayname /\ g.id = NoText
      BY ONLY <1>12, <1>13, <2>1, <2>3
    <2> QED BY <2>2, <2>3
  <1>15. \A n \in 1 .. 1 : n = 1
    OBVIOUS
  <1>16. GrantsGiven(r, records, 1)
    BY ONLY <1>10, <1>12, <1>14, <1>15, records[1] = g DEF GrantsGiven
  <1> QED BY ONLY <1>8, <1>9, <1>16

\* A grant with a grantee is read as it was sent.
LEMMA SentGrantIsRead ==
  ASSUME NEW records \in Seq(Grants), Len(records) = 1,
         records[1].id # NoText \/ records[1].displayname # NoText, NEW acl,
         acl = [ownerDisplayName |-> "o", ownerID |-> "o", grants |-> records]
  PROVE  All(AsGrant, Xml!ParseACL(Reread(Xml!GenerateAclXML(acl)).doc).grants) = records
  <1>1. PICK g \in Grants : g = records[1]
    <2>1. 1 \in DOMAIN records
      OBVIOUS
    <2> QED BY <2>1
  <1>2. PICK doc : doc = Xml!GenerateAclXML(acl)
    OBVIOUS
  <1>3. doc = Xml!AddGrant([doc |-> SentHead, cur |-> 2], g).doc
    <2>1. acl.grants = records /\ acl.ownerDisplayName = "o" /\ acl.ownerID = "o"
      OBVIOUS
    <2>2. Len(acl.grants) = 1 /\ 1 \in Nat
      BY <2>1
    <2>3. PICK upto : /\ upto[0] = GrantsStart(acl)
                      /\ \A n \in 1 .. 1 : upto[n] = Xml!AddGrant(upto[n - 1], acl.grants[n])
                      /\ Xml!GenerateAclXML(acl) = upto[1].doc
      <3>1. GrantedIn(acl, 1)
        BY ONLY <2>2, GrantedAre
      <3> QED BY ONLY <3>1 DEF GrantedIn
    <2>4. 1 \in 1 .. 1 /\ 1 - 1 = 0
      OBVIOUS
    <2>5. upto[1] = Xml!AddGrant(upto[0], acl.grants[1])
      BY ONLY <2>3, <2>4
    <2>6. GrantsStart(acl) = [doc |-> SentHead, cur |-> 2]
      BY ONLY <2>1, SentStart
    <2> QED BY ONLY <1>1, <1>2, <2>1, <2>3, <2>5, <2>6
  <1>4. "id" \in GrantFieldNames /\ "displayname" \in GrantFieldNames /\ "id" # "displayname"
    BY DEF GrantFieldNames
  <1>5. /\ doc \in Documents(Strs)
        /\ GrantsGiven(Xml!RecordList(GrantPath, Xml!DOMToDict(doc)), records, 1)
    <2>0. records[1] = g /\ (g.id # NoText \/ g.displayname # NoText)
      BY <1>1
    <2>1. CASE g.id # NoText /\ g.displayname # NoText
      BY ONLY <1>3, <2>0, <2>1, BothGiven, g \in Grants, records \in Seq(Grants)
    <2>2. CASE g.displayname = NoText
      <3>1. PICK a, b, v : a = "id" /\ b = "displayname" /\ v = g.id
        OBVIOUS
      <3>2. a \in GrantFieldNames /\ b \in GrantFieldNames /\ a # b /\ v # NoText
        BY <1>4, <2>0, <2>2, <3>1
      <3> QED BY ONLY <1>3, <2>0, <2>2, <3>1, <3>2, OneGiven, g \in Grants, records \in Seq(Grants)
    <2>3. CASE g.id = NoText
      <3>1. PICK a, b, v : a = "displayname" /\ b = "id" /\ v = g.displayname
        OBVIOUS
      <3>2. a \in GrantFieldNames /\ b \in GrantFieldNames /\ a # b /\ v # NoText
        BY <1>4, <2>0, <2>3, <3>1
      <3> QED BY ONLY <1>3, <2>0, <2>3, <3>1, <3>2, OneGiven, g \in Grants, records \in Seq(Grants)
    <2> QED BY <2>1, <2>2, <2>3
  <1>6. Reread(doc).doc = doc
    <2>1. NoText \in Strs
      BY DEF Strs, FieldValues
    <2>2. Xml!Parse(Xml!XMLText(doc)).doc = doc
      BY ONLY <1>5, <2>1, WrittenDocumentsAreRead
    <2> QED BY <2>2 DEF Reread
  <1>7. All(AsGrant, Xml!ParseACL(doc).grants) = records
    BY ONLY <1>5, GrantsAre, records \in Seq(Grants), Len(records) = 1, 1 \in Nat
  <1> QED BY ONLY <1>2, <1>6, <1>7

-----------------------------------------------------------------------------
(* The samples that are records.                                           *)

\* Samples that are records are sequences of those.
RecordsInv ==
  /\ sample = [tag |-> sample.tag, input |-> sample.input]
  /\ sample.tag = "objects" => sample.input \in Seq(Objects)
  /\ sample.tag = "tags" => sample.input \in Seq(Tags)
  /\ sample.tag = "grants" => sample.input \in Seq(Grants)

\* The samples that are records are sequences of them, of any length.
LEMMA RecordsAlways == SampleSpec => []RecordsInv
  <1>1. SampleInit => RecordsInv
    <2> SUFFICES ASSUME SampleInit PROVE RecordsInv
      OBVIOUS
    <2>1. <<>> \in Seq(Objects) /\ <<>> \in Seq(Tags) /\ <<>> \in Seq(Grants)
      OBVIOUS
    <2>2. CASE \E tag \in DOMAIN Growing : sample = [tag |-> tag, input |-> <<>>]
      BY <2>1, <2>2 DEF RecordsInv
    <2>3. CASE \E r \in Requests : sample = [tag |-> "request", input |-> r]
      BY <2>3 DEF RecordsInv
    <2>4. CASE \E l \in Lengths : sample = [tag |-> "digest", input |-> l]
      BY <2>4 DEF RecordsInv
    <2> QED BY <2>2, <2>3, <2>4 DEF SampleInit
  <1>2. RecordsInv /\ [SampleNext]_sample => RecordsInv'
    <2> SUFFICES ASSUME RecordsInv, Grow PROVE RecordsInv'
      BY DEF SampleNext, RecordsInv
    <2>1. /\ sample.tag = "objects" => Growing[sample.tag] = Objects
          /\ sample.tag = "tags" => Growing[sample.tag] = Tags
          /\ sample.tag = "grants" => Growing[sample.tag] = Grants
      BY DEF Growing
    <2>2. PICK item \in Growing[sample.tag] : sample' = [sample EXCEPT !.input = Append(@, item)]
      BY DEF Grow
    <2>3. sample' = [tag |-> sample.tag, input |-> Append(sample.input, item)]
      BY <2>2 DEF RecordsInv
    <2>4. sample.tag = "objects" => Append(sample.input, item) \in Seq(Objects)
      <3> SUFFICES ASSUME sample.tag = "objects" PROVE Append(sample.input, item) \in Seq(Objects)
        OBVIOUS
      <3>1. PICK input \in Seq(Objects), o \in Objects : input = sample.input /\ o = item
        BY <2>1, <2>2 DEF RecordsInv
      <3> QED BY <3>1
    <2>5. sample.tag = "tags" => Append(sample.input, item) \in Seq(Tags)
      <3> SUFFICES ASSUME sample.tag = "tags" PROVE Append(sample.input, item) \in Seq(Tags)
        OBVIOUS
      <3>1. PICK input \in Seq(Tags), t \in Tags : input = sample.input /\ t = item
        BY <2>1, <2>2 DEF RecordsInv
      <3> QED BY <3>1
    <2>6. sample.tag = "grants" => Append(sample.input, item) \in Seq(Grants)
      <3> SUFFICES ASSUME sample.tag = "grants" PROVE Append(sample.input, item) \in Seq(Grants)
        OBVIOUS
      <3>1. PICK input \in Seq(Grants), g \in Grants : input = sample.input /\ g = item
        BY <2>1, <2>2 DEF RecordsInv
      <3> QED BY <3>1
    <2>7. sample'.tag = sample.tag /\ sample'.input = Append(sample.input, item)
      BY <2>3
    <2> QED BY <2>3, <2>4, <2>5, <2>6, <2>7 DEF RecordsInv
  <1> QED BY <1>1, <1>2, PTL DEF SampleSpec

\* Objects and buckets of any answer are read as ObjectsRead says.
LEMMA ObjectsAlwaysRead ==
  ASSUME NEW records \in Seq(Objects)
  PROVE  ObjectsRead(records)
  <1>1. Alike(records) => All(AsObject, Xml!ParseObjects(Listing(records)).keys) = records
    BY ObjectsAreListed
  <1>2. Xml!ParseXMLMultiPathText(Listing(records), <<"listbucketresult">>,
                                  <<"contents", "owner", "id">>)
          = [n \in DOMAIN records |-> records[n].id]
    BY IdsAreFound
  <1>3. PICK found : found = Xml!ParseBuckets(Buckets(records))
    OBVIOUS
  <1>4. /\ found.ok = \A n \in DOMAIN records : records[n].etag # ""
        /\ found.ok => found.buckets
             = [n \in DOMAIN records |-> <<records[n].key, records[n].etag>>]
    BY <1>3, BucketsAreFound
  <1> QED BY ONLY <1>1, <1>2, <1>3, <1>4 DEF ObjectsRead

\* Tags of any answer are read as TagsRead says.
LEMMA TagsAlwaysRead ==
  ASSUME NEW records \in Seq(Tags)
  PROVE  TagsRead(records)
  <1>1. PICK rewritten, m : /\ rewritten = Reread(Xml!GenerateTagging(records))
                            /\ m = Xml!ParseTaggingResponse(rewritten.doc)
    OBVIOUS
  <1>2. rewritten.ok = \A n \in DOMAIN records : records[n].value \notin Xml!Marked
    BY <1>1, TagsAreRefused
  <1>3. PICK N \in Nat : Len(records) = N /\ DOMAIN records = 1 .. N
    OBVIOUS
  <1>4. ASSUME Alike(records), NEW n \in DOMAIN records, records[n].value # "",
               \A k \in n + 1 .. Len(records) : records[k].key # records[n].key
        PROVE  records[n].key \in DOMAIN m /\ m[records[n].key] = records[n].value
    <2>1. n \in 1 .. N
      BY <1>3
    <2>2. LastOfKey(records, n, N)
      BY <1>3, <1>4 DEF LastOfKey, NoText
    <2>3. Alike(records)
      BY <1>4
    <2>4. TagFound(Xml!ParseTaggingResponse(Reread(Xml!GenerateTagging(records)).doc), records[n])
      BY ONLY <1>3, <2>1, <2>2, <2>3, LastTagsAreRead, records \in Seq(Tags), N \in Nat
    <2> QED BY ONLY <1>1, <2>4 DEF TagFound
  <1> QED BY ONLY <1>1, <1>2, <1>4 DEF TagsRead

\* Grants of any answer, and one that is sent, are read as GrantsRead says.
LEMMA GrantsAlwaysRead ==
  ASSUME NEW records \in Seq(Grants)
  PROVE  GrantsRead(records)
  <1>1. Alike(records) => All(AsGrant, Xml!ParseACL(AclAnswer(records)).grants) = records
    BY GrantsAreFound
  <1>2. PICK acl : acl = [ownerDisplayName |-> "o", ownerID |-> "o", grants |-> records]
    OBVIOUS
  <1>3. ASSUME Len(records) = 1, records[1].id # "" \/ records[1].displayname # ""
        PROVE  All(AsGrant, Xml!ParseACL(Reread(Xml!GenerateAclXML(acl)).doc).grants) = records
    <2>1. records[1].id # NoText \/ records[1].displayname # NoText
      BY <1>3 DEF NoText
    <2> QED BY ONLY <1>2, <1>3, <2>1, SentGrantIsRead, records \in Seq(Grants)
  <1> QED BY ONLY <1>1, <1>2, <1>3 DEF GrantsRead

(* What the library makes of the records of every answer, and of what it   *)
(* sends itself (xml_parser.cpp, xml_path.cpp, xmlstreams.h), of any       *)
(* number of records.                                                      *)
THEOREM RecordsAreRead == SampleSpec => []RecordsRead
  <1>1. RecordsInv => RecordsRead
    <2> SUFFICES ASSUME RecordsInv PROVE RecordsRead
      OBVIOUS
    <2>1. sample.tag = "objects" => ObjectsRead(sample.input)
      BY ObjectsAlwaysRead DEF RecordsInv
    <2>2. sample.tag = "tags" => TagsRead(sample.input)
      BY TagsAlwaysRead DEF RecordsInv
    <2>3. sample.tag = "grants" => GrantsRead(sample.input)
      BY GrantsAlwaysRead DEF RecordsInv
    <2> QED BY ONLY <2>1, <2>2, <2>3 DEF RecordsRead
  <1> QED BY <1>1, RecordsAlways, PTL
=============================================================================
