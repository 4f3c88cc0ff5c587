---------------------------- MODULE ArchiveProofs ----------------------------
(***************************************************************************)
(* What an archive holds, for any actors, items, images, limit and number  *)
(* of writes.  ArchiveInv has the foreign keys of the tables (TablesOK);   *)
(* of an export under way, how what it has read so far relates to what the *)
(* tables say now (TornDraft), and that it is a copy while nothing has     *)
(* been written (QuietDraft); and of an archive, what both come to.        *)
(***************************************************************************)
EXTENDS Archive, FiniteSetTheorems, TLAPS

PiecesShown(t) == \A i \in Piece : t.pieces[i] \in Picture => t.pieces[i] \in t.pictures

\* The foreign keys of the tables, and that two of them are finite.
TablesOK(t) ==
    /\ t \in TablesRow /\ IsFiniteSet(t.heard) /\ IsFiniteSet(t.deeds)
    /\ Loadable(t) /\ PiecesShown(t)

\* What a write does not do: it removes no picture, and it puts nobody into
\* the circle who is no friend.
Milder(s, t) ==
    /\ TablesOK(t) /\ s.pictures \subseteq t.pictures
    /\ s.ring \subseteq Friends(s) => t.ring \subseteq Friends(t)

(* A write that touches only ties, the circle and the blocked domains.       *)
LEMMA TiesWritten ==
    ASSUME NEW s, NEW t, TablesOK(s), t \in TablesRow,
           t.pieces = s.pieces, t.pictures = s.pictures, t.heard = s.heard, t.deeds = s.deeds,
           Known(s) \subseteq Known(t), t.ring \subseteq Known(t),
           s.ring \subseteq Friends(s) => t.ring \subseteq Friends(t)
    PROVE  Milder(s, t)
<1>1. Loadable(t)  BY DEF TablesOK, Loadable
<1>2. PiecesShown(t)  BY DEF TablesOK, PiecesShown
<1> QED  BY <1>1, <1>2 DEF Milder, TablesOK

(* A write that leaves ties and the circle alone.                            *)
LEMMA RowsWritten ==
    ASSUME NEW s, NEW t, TablesOK(s), t \in TablesRow, t.ties = s.ties, t.ring = s.ring,
           IsFiniteSet(t.heard), IsFiniteSet(t.deeds), s.pictures \subseteq t.pictures,
           \A r \in t.heard : r.by \in Known(t), PiecesShown(t)
    PROVE  Milder(s, t)
<1>1. Known(t) = Known(s) /\ Friends(t) = Friends(s)  BY DEF Known, Friends
<1>2. Loadable(t)  BY <1>1 DEF TablesOK, Loadable
<1> QED  BY <1>1, <1>2 DEF Milder, TablesOK

(* A new row, for an actor who was unknown.                                  *)
LEMMA MeetWrites ==
    ASSUME TablesOK(tables), NEW p \in Peer, Meet(p)
    PROVE  Milder(tables, tables')
<1>1. tables \in TablesRow  BY DEF TablesOK
<1>2. tables' = [tables EXCEPT !.ties[p] = [friend |-> FALSE, flag |-> FALSE]]
      /\ tables.ties[p] = None
  BY DEF Meet, Writes
<1> DEFINE row == [friend |-> FALSE, flag |-> FALSE]
<1>3. row \in Tie  BY DEF Tie
<1> HIDE DEF row
<1>4. /\ tables'.ties = [tables.ties EXCEPT ![p] = row] /\ tables'.ring = tables.ring
      /\ tables'.pieces = tables.pieces /\ tables'.pictures = tables.pictures
      /\ tables'.heard = tables.heard /\ tables'.deeds = tables.deeds
      /\ tables'.barred = tables.barred
  BY <1>1, <1>2 DEF TablesRow, row
<1>5. tables' \in TablesRow
  BY <1>1, <1>2, <1>3 DEF TablesRow, row
<1>6. row # None  BY <1>3, ArchiveAssumption
<1>7. Known(tables) \subseteq Known(tables)'
  BY <1>1, <1>4, <1>6 DEF TablesRow, Known
<1>8. Friends(tables) \subseteq Friends(tables')
  BY <1>1, <1>2, <1>4, <1>6 DEF TablesRow, Known, Friends
<1>9. tables.ring \subseteq Known(tables)  BY DEF TablesOK, Loadable
<1> QED  BY <1>4, <1>5, <1>7, <1>8, <1>9, TiesWritten

(* A friend more.                                                            *)
LEMMA BefriendWrites ==
    ASSUME TablesOK(tables), NEW p \in Peer, Befriend(p)
    PROVE  Milder(tables, tables')
<1>1. tables \in TablesRow /\ tables.ring \subseteq Known(tables)
  BY DEF TablesOK, Loadable
<1>2. p \in Known(tables) /\ tables' = [tables EXCEPT !.ties[p].friend = TRUE]
  BY DEF Befriend, Writes
<1>3. /\ tables'.ties = [tables.ties EXCEPT ![p] = [@ EXCEPT !.friend = TRUE]]
      /\ tables'.ring = tables.ring
      /\ tables'.barred = tables.barred
      /\ tables'.pieces = tables.pieces
      /\ tables'.pictures = tables.pictures
      /\ tables'.heard = tables.heard
      /\ tables'.deeds = tables.deeds
  BY <1>1, <1>2 DEF TablesRow
<1>4. tables.ties[p] \in Tie /\ [tables.ties[p] EXCEPT !.friend = TRUE] \in Tie
  BY <1>1, <1>2 DEF TablesRow, Known, Tie
<1>5. tables' \in TablesRow
  BY <1>1, <1>2, <1>4 DEF TablesRow
<1>6. Known(tables) \subseteq Known(tables')
  BY <1>1, <1>3, <1>4, ArchiveAssumption DEF TablesRow, Known
<1>7. Friends(tables) \subseteq Friends(tables')
  BY <1>1, <1>3, <1>4, <1>6 DEF TablesRow, Friends, Tie
<1> QED  BY <1>1, <1>3, <1>5, <1>6, <1>7, TiesWritten

(* A friend less, and out of the circle.                                     *)
LEMMA SeverWrites ==
    ASSUME TablesOK(tables), NEW p \in Peer, Sever(p)
    PROVE  Milder(tables, tables')
<1>1. tables \in TablesRow /\ tables.ring \subseteq Known(tables)
  BY DEF TablesOK, Loadable
<1>2. p \in Known(tables)
      /\ tables' = [tables EXCEPT !.ties[p].friend = FALSE, !.ring = @ \ {p}]
  BY DEF Sever, Writes, Friends
<1>3. /\ tables'.ties = [tables.ties EXCEPT ![p] = [@ EXCEPT !.friend = FALSE]]
      /\ tables'.ring = tables.ring \ {p}
      /\ tables'.barred = tables.barred
      /\ tables'.pieces = tables.pieces
      /\ tables'.pictures = tables.pictures
      /\ tables'.heard = tables.heard
      /\ tables'.deeds = tables.deeds
  BY <1>1, <1>2 DEF TablesRow
<1>4. tables.ties[p] \in Tie /\ [tables.ties[p] EXCEPT !.friend = FALSE] \in Tie
  BY <1>1, <1>2 DEF TablesRow, Known, Tie
<1>5. tables' \in TablesRow
  BY <1>1, <1>2, <1>4 DEF TablesRow
<1>6. Known(tables) \subseteq Known(tables')
  BY <1>1, <1>3, <1>4, ArchiveAssumption DEF TablesRow, Known
<1>7. Friends(tables) \ {p} \subseteq Friends(tables')
  BY <1>1, <1>3, <1>6 DEF TablesRow, Friends
<1> QED  BY <1>1, <1>3, <1>5, <1>6, <1>7, TiesWritten

(* Another circle of friends.                                                *)
LEMMA GatherWrites ==
    ASSUME TablesOK(tables), Gather
    PROVE  Milder(tables, tables')
<1>1. tables \in TablesRow  BY DEF TablesOK
<1>2. PICK r \in SUBSET Friends(tables) : tables' = [tables EXCEPT !.ring = r]
  BY DEF Gather, Writes
<1>3. /\ tables'.ties = tables.ties
      /\ tables'.ring = r
      /\ tables'.barred = tables.barred
      /\ tables'.pieces = tables.pieces
      /\ tables'.pictures = tables.pictures
      /\ tables'.heard = tables.heard
      /\ tables'.deeds = tables.deeds
  BY <1>1, <1>2 DEF TablesRow
<1>4. Known(tables) \subseteq Known(tables') /\ Friends(tables) = Friends(tables')
      /\ Friends(tables) \subseteq Known(tables)
  BY <1>3 DEF Known, Friends
<1>5. r \subseteq Peer  BY DEF Friends, Known
<1>6. tables' \in TablesRow  BY <1>1, <1>2, <1>5 DEF TablesRow
<1> QED  BY <1>3, <1>4, <1>6, TiesWritten

(* A block, or its end: no friend any longer.                                *)
LEMMA SetFlagWrites ==
    ASSUME TablesOK(tables), NEW p \in Peer, SetFlag(p)
    PROVE  Milder(tables, tables')
<1>1. tables \in TablesRow /\ tables.ring \subseteq Known(tables)
  BY DEF TablesOK, Loadable
<1>2. PICK b \in BOOLEAN : tables' = [tables EXCEPT !.ties[p] = [friend |-> FALSE, flag |-> b],
                                                   !.ring = @ \ {p}]
  BY DEF SetFlag, Writes
<1> DEFINE row == [friend |-> FALSE, flag |-> b]
<1>4. row \in Tie  BY DEF Tie
<1>3. /\ tables'.ties = [tables.ties EXCEPT ![p] = row]
      /\ tables'.ring = tables.ring \ {p}
      /\ tables'.barred = tables.barred
      /\ tables'.pieces = tables.pieces
      /\ tables'.pictures = tables.pictures
      /\ tables'.heard = tables.heard
      /\ tables'.deeds = tables.deeds
  BY <1>1, <1>2 DEF TablesRow
<1>5. tables' \in TablesRow
  BY <1>1, <1>2, <1>4 DEF TablesRow
<1> HIDE DEF row
<1>6. Known(tables) \subseteq Known(tables')
  BY <1>1, <1>3, <1>4, ArchiveAssumption DEF TablesRow, Known
<1>7. Friends(tables) \ {p} \subseteq Friends(tables')
  BY <1>1, <1>3, <1>6 DEF TablesRow, Friends
<1> QED  BY <1>1, <1>3, <1>5, <1>6, <1>7, TiesWritten

(* A domain is blocked: no actor of it is a friend or in the circle.         *)
LEMMA BarWrites ==
    ASSUME TablesOK(tables), NEW d \in {DomainOf[p] : p \in Peer}, Bar(d)
    PROVE  Milder(tables, tables')
<1>1. tables \in TablesRow /\ tables.ring \subseteq Known(tables)
  BY DEF TablesOK, Loadable
<1> DEFINE there == {p \in Known(tables) : DomainOf[p] = d}
           ties == [p \in Peer |-> IF p \in there THEN [tables.ties[p] EXCEPT !.friend = FALSE]
                                   ELSE tables.ties[p]]
<1>2. tables' = [tables EXCEPT !.barred = @ \cup {d}, !.ring = @ \ there, !.ties = ties]
  BY <1>1 DEF Bar, Writes, TablesRow
<1>4. \A p \in there : tables.ties[p] \in Tie /\ ties[p] \in Tie
  BY <1>1 DEF TablesRow, Known, Tie
<1>5. ties \in [Peer -> Tie \cup {None}]
  BY <1>1, <1>4 DEF TablesRow
<1>6. \A p \in Peer \ there : ties[p] = tables.ties[p]
  OBVIOUS
<1> HIDE DEF ties
<1>3. /\ tables'.ties = ties
      /\ tables'.ring = tables.ring \ there
      /\ tables'.barred = tables.barred \cup {d}
      /\ tables'.pieces = tables.pieces
      /\ tables'.pictures = tables.pictures
      /\ tables'.heard = tables.heard
      /\ tables'.deeds = tables.deeds
  BY <1>1, <1>2 DEF TablesRow
<1>7. tables' \in TablesRow
  BY <1>1, <1>2, <1>5 DEF TablesRow
<1>8. Known(tables) \subseteq Known(tables')
  BY <1>3, <1>4, <1>6, ArchiveAssumption DEF Known
<1>9. Friends(tables) \ there \subseteq Friends(tables')
  BY <1>3, <1>6, <1>8 DEF Friends, Known
<1> QED  BY <1>1, <1>3, <1>7, <1>8, <1>9, TiesWritten

(* A domain is no longer blocked.                                            *)
LEMMA UnbarWrites ==
    ASSUME TablesOK(tables), NEW d, Unbar(d) PROVE Milder(tables, tables')
<1>1. tables \in TablesRow  BY DEF TablesOK
<1>2. tables' = [tables EXCEPT !.barred = @ \ {d}]
  BY DEF Unbar, Writes
<1>3. /\ tables'.ties = tables.ties
      /\ tables'.ring = tables.ring
      /\ tables'.barred = tables.barred \ {d}
      /\ tables'.pieces = tables.pieces
      /\ tables'.pictures = tables.pictures
      /\ tables'.heard = tables.heard
      /\ tables'.deeds = tables.deeds
  BY <1>1, <1>2 DEF TablesRow
<1>4. tables' \in TablesRow  BY <1>1, <1>2 DEF TablesRow
<1>5. Known(tables) = Known(tables') /\ PiecesShown(tables')
  BY <1>3 DEF Known, TablesOK, PiecesShown
<1> QED  BY <1>3, <1>4, <1>5, RowsWritten DEF TablesOK, Loadable

(* An object of a friend arrives.                                            *)
LEMMA HearWrites ==
    ASSUME TablesOK(tables), writes \in Nat, NEW p \in Peer, Hear(p)
    PROVE  Milder(tables, tables')
<1>1. tables \in TablesRow  BY DEF TablesOK
<1>2. p \in Known(tables)
      /\ tables' = [tables EXCEPT !.heard = @ \cup {[by |-> p, at |-> writes]}]
  BY DEF Hear, Writes, Friends
<1>3. /\ tables'.ties = tables.ties
      /\ tables'.ring = tables.ring
      /\ tables'.barred = tables.barred
      /\ tables'.pieces = tables.pieces
      /\ tables'.pictures = tables.pictures
      /\ tables'.heard = tables.heard \cup {[by |-> p, at |-> writes]}
      /\ tables'.deeds = tables.deeds
  BY <1>1, <1>2 DEF TablesRow
<1>4. tables' \in TablesRow  BY <1>1, <1>2 DEF TablesRow
<1>5. Known(tables) = Known(tables') /\ PiecesShown(tables')
  BY <1>3 DEF Known, TablesOK, PiecesShown
<1>6. IsFiniteSet(tables'.heard)
  BY <1>3, FS_AddElement DEF TablesOK
<1>7. \A r \in tables'.heard : r.by \in Known(tables')
  BY <1>2, <1>3, <1>5 DEF TablesOK, Loadable
<1> QED  BY <1>3, <1>4, <1>5, <1>6, <1>7, RowsWritten DEF TablesOK

(* An interaction or a notification more.                                    *)
LEMMA RemarkWrites ==
    ASSUME TablesOK(tables), writes \in Nat, Remark PROVE Milder(tables, tables')
<1>1. tables \in TablesRow  BY DEF TablesOK
<1>2. tables' = [tables EXCEPT !.deeds = @ \cup {[at |-> writes]}]
  BY DEF Remark, Writes
<1>3. /\ tables'.ties = tables.ties
      /\ tables'.ring = tables.ring
      /\ tables'.barred = tables.barred
      /\ tables'.pieces = tables.pieces
      /\ tables'.pictures = tables.pictures
      /\ tables'.heard = tables.heard
      /\ tables'.deeds = tables.deeds \cup {[at |-> writes]}
  BY <1>1, <1>2 DEF TablesRow
<1>4. tables' \in TablesRow  BY <1>1, <1>2 DEF TablesRow, Dated
<1>5. Known(tables) = Known(tables') /\ PiecesShown(tables')
  BY <1>3 DEF Known, TablesOK, PiecesShown
<1>6. IsFiniteSet(tables'.deeds)
  BY <1>3, FS_AddElement DEF TablesOK
<1> QED  BY <1>3, <1>4, <1>5, <1>6, RowsWritten DEF TablesOK, Loadable

(* An image more.                                                            *)
LEMMA SavePictureWrites ==
    ASSUME TablesOK(tables), SavePicture PROVE Milder(tables, tables')
<1>1. tables \in TablesRow  BY DEF TablesOK
<1>2. PICK m \in Picture : tables' = [tables EXCEPT !.pictures = @ \cup {m}]
  BY DEF SavePicture, Writes
<1>3. /\ tables'.ties = tables.ties
      /\ tables'.ring = tables.ring
      /\ tables'.barred = tables.barred
      /\ tables'.pieces = tables.pieces
      /\ tables'.pictures = tables.pictures \cup {m}
      /\ tables'.heard = tables.heard
      /\ tables'.deeds = tables.deeds
  BY <1>1, <1>2 DEF TablesRow
<1>4. tables' \in TablesRow  BY <1>1, <1>2 DEF TablesRow
<1>5. Known(tables) = Known(tables') /\ PiecesShown(tables')
  BY <1>3 DEF Known, TablesOK, PiecesShown
<1> QED  BY <1>3, <1>4, <1>5, RowsWritten DEF TablesOK, Loadable

(* An item with an image that is there, or with none.                        *)
LEMMA SavePieceWrites ==
    ASSUME TablesOK(tables), NEW i \in Piece, SavePiece(i) PROVE Milder(tables, tables')
<1>1. tables \in TablesRow  BY DEF TablesOK
<1>2. PICK x \in tables.pictures \cup {"plain"} : tables' = [tables EXCEPT !.pieces[i] = x]
  BY DEF SavePiece, Writes
<1>3. /\ tables'.ties = tables.ties
      /\ tables'.ring = tables.ring
      /\ tables'.barred = tables.barred
      /\ tables'.pieces = [tables.pieces EXCEPT ![i] = x]
      /\ tables'.pictures = tables.pictures
      /\ tables'.heard = tables.heard
      /\ tables'.deeds = tables.deeds
  BY <1>1, <1>2 DEF TablesRow
<1>4. tables' \in TablesRow  BY <1>1, <1>2 DEF TablesRow
<1>5. Known(tables) = Known(tables')
  BY <1>3 DEF Known
<1>6. PiecesShown(tables')
  BY <1>1, <1>2, <1>3, ArchiveAssumption DEF TablesOK, PiecesShown, TablesRow
<1> QED  BY <1>3, <1>4, <1>5, <1>6, RowsWritten DEF TablesOK, Loadable

(* Whatever is written meanwhile keeps the foreign keys.                     *)
LEMMA MeanwhileWrites ==
    ASSUME TablesOK(tables), writes \in Nat, Meanwhile
    PROVE  Milder(tables, tables') /\ Writes(tables')
<1>1. Milder(tables, tables')
  BY MeetWrites, BefriendWrites, SeverWrites, SetFlagWrites, HearWrites, BarWrites, UnbarWrites,
     SavePieceWrites, GatherWrites, RemarkWrites, SavePictureWrites DEF Meanwhile
<1>2. Writes(tables')
  BY DEF Meanwhile, Meet, Befriend, Sever, SetFlag, Hear, Bar, Unbar, SavePiece, Gather, Remark,
         SavePicture, Writes
<1> QED  BY <1>1, <1>2

----------------------------------------------------------------------------
\* An export under way: what it has read agrees with what the tables still say,
\* and, if nothing was written, is what they say.

TiesIn(t) == [p \in Peer |-> TieOut(t, p)]

Flagged(t) == {p \in Peer : t.ties[p] # None /\ t.ties[p].flag}

TornDraft(r, k) ==
    /\ since.out \subseteq Out(tables)
    /\ since.sound => tables.ring \subseteq Friends(tables)
    /\ k > 1 => since.out \subseteq Flagged(r)
    /\ k > 1 /\ ~since.grown
       => Known(tables) \subseteq Known(r) /\ Friends(tables) \subseteq Friends(r)
    /\ k > 2 /\ ~since.grown => r.ring \subseteq Known(r)
    /\ k > 2 /\ ~since.grown /\ since.sound => r.ring \subseteq Friends(r)
    /\ k > 4 => \A i \in Piece : r.pieces[i] \in Picture => r.pieces[i] \in tables.pictures
    /\ k > 5 => PiecesShown(r)
    /\ k > 6 /\ ~since.grown => \A x \in r.heard : x.by \in Known(r)

QuietDraft(r, k) ==
    since.quiet =>
        /\ k > 1 => r.ties = TiesIn(tables)
        /\ k > 2 => r.ring = tables.ring
        /\ k > 3 => r.barred = tables.barred
        /\ k > 4 => r.pieces = tables.pieces
        /\ k > 5 => r.pictures = tables.pictures
        /\ k > 6 => r.heard = Newest(tables.heard)

DraftOK ==
    draft # None =>
        /\ draft = [rows |-> draft.rows, at |-> draft.at]
        /\ draft.rows \in TablesRow /\ draft.at \in 1..7
        /\ IsFiniteSet(draft.rows.heard) /\ IsFiniteSet(draft.rows.deeds)
        /\ TornDraft(draft.rows, draft.at) /\ QuietDraft(draft.rows, draft.at)

\* An archive holds what a draft held at its end.
Torn(rows, b) ==
    /\ PiecesShown(rows) /\ b.out \subseteq Flagged(rows)
    /\ ~b.grown => Loadable(rows)
    /\ ~b.grown /\ b.sound => rows.ring \subseteq Friends(rows)

\* These rows are what an undisturbed export takes of these tables.
Copies(rows, t) ==
    /\ rows.ties = TiesIn(t)
    /\ rows.ring = t.ring /\ rows.barred = t.barred
    /\ rows.pieces = t.pieces /\ rows.pictures = t.pictures
    /\ rows.heard = Newest(t.heard) /\ rows.deeds = Newest(t.deeds)

BackupOK ==
    backup # None =>
        /\ backup.rows \in TablesRow
        /\ IsFiniteSet(backup.rows.heard) /\ IsFiniteSet(backup.rows.deeds)
        /\ Torn(backup.rows, backup)
        /\ backup.quiet => TablesOK(backup.was) /\ Copies(backup.rows, backup.was)

ArchiveInv == writes \in Nat /\ TablesOK(tables) /\ DraftOK /\ BackupOK

(* The empty Space satisfies the invariant.                                  *)
LEMMA ArchiveStart == ArchiveInit => ArchiveInv
<1> SUFFICES ASSUME ArchiveInit PROVE ArchiveInv  OBVIOUS
<1>1. tables \in TablesRow /\ tables.heard = {} /\ tables.deeds = {} /\ tables.ring = {}
      /\ \A i \in Piece : tables.pieces[i] = None
  BY DEF ArchiveInit, Empty, TablesRow
<1>2. TablesOK(tables)
  BY <1>1, FS_EmptySet, ArchiveAssumption DEF TablesOK, Loadable, PiecesShown
<1> QED  BY <1>2 DEF ArchiveInit, ArchiveInv, DraftOK, BackupOK

(* A write leaves an export under way consistent.                            *)
LEMMA DraftOutlives ==
    ASSUME ArchiveInv, Milder(tables, tables'), Writes(tables')
    PROVE  DraftOK'
<1> SUFFICES ASSUME draft # None PROVE DraftOK'
  BY DEF DraftOK, Writes
<1> DEFINE r == draft.rows  k == draft.at
<1>1. draft' = draft /\ r \in TablesRow /\ k \in 1..7
  BY DEF ArchiveInv, DraftOK, Writes
<1>2. /\ since'.quiet = FALSE /\ since'.out = since.out \cap Out(tables')
      /\ since'.sound = since.sound
      /\ since'.grown = (since.grown \/ ~(Friends(tables') \subseteq Friends(tables))
                                     \/ ~(Known(tables') \subseteq Known(tables)))
  BY DEF Writes
<1>3. TornDraft(r, k)  BY DEF ArchiveInv, DraftOK
<1> HIDE DEF r, k
<1>4. TornDraft(r, k)'
  <2>1. r' = r /\ k' = k  BY <1>1 DEF r, k
  <2>2. since'.out \subseteq since.out /\ since'.out \subseteq Out(tables')  BY <1>2
  <2>3. ~since'.grown => /\ ~since.grown /\ Friends(tables') \subseteq Friends(tables)
                         /\ Known(tables') \subseteq Known(tables)
    BY <1>2
  <2>4. Flagged(r)' = Flagged(r) /\ Known(r)' = Known(r) /\ Friends(r)' = Friends(r)
        /\ PiecesShown(r)' = PiecesShown(r)
    BY <2>1 DEF Flagged, Known, Friends, PiecesShown
  <2>5. Out(tables)' = Out(tables') /\ Known(tables)' = Known(tables')
        /\ Friends(tables)' = Friends(tables')
    BY DEF Out, Known, Friends
  <2> QED  BY <1>1, <1>2, <1>3, <2>1, <2>2, <2>3, <2>4, <2>5 DEF TornDraft, Milder
<1>5. QuietDraft(r, k)'  BY <1>2 DEF QuietDraft
<1> QED  BY <1>1, <1>4, <1>5 DEF DraftOK, ArchiveInv, r, k

(* What a limit leaves is part of the table.                                 *)
LEMMA NewestIsFinite ==
    ASSUME NEW rows, IsFiniteSet(rows)
    PROVE  Newest(rows) \subseteq rows /\ IsFiniteSet(Newest(rows))
BY FS_Subset DEF Newest

(* A row with a flag that is computed.                                       *)
LEMMA TieRow ==
    ASSUME NEW b \in BOOLEAN, NEW p, NEW S
    PROVE  [friend |-> b, flag |-> p \in S] \in Tie
BY DEF Tie

(* What a blocked actor's row says in the archive.                           *)
LEMMA TiesTaken ==
    ASSUME NEW t \in TablesRow
    PROVE  LET ties == TiesIn(t)
           IN  /\ ties \in [Peer -> Tie \cup {None}]
               /\ \A p \in Peer : /\ (ties[p] # None) = (p \in Known(t))
                                  /\ p \in Known(t) => /\ ties[p].flag = (p \in Out(t))
                                                       /\ ties[p].friend = (p \in Friends(t))
<1> USE DEF TiesIn
<1> DEFINE ties == TiesIn(t)
<1>1. ASSUME NEW p \in Peer
      PROVE  /\ ties[p] \in Tie \cup {None}
             /\ (ties[p] # None) = (p \in Known(t))
             /\ p \in Known(t) => /\ ties[p].flag = (p \in Out(t))
                                  /\ ties[p].friend = (p \in Friends(t))
  <2>1. CASE t.ties[p] = None
    <3>1. ties[p] = None  BY <2>1 DEF TieOut
    <3> QED  BY <2>1, <3>1 DEF Known
  <2>2. CASE t.ties[p] # None
    <3>1. ties[p] = [friend |-> t.ties[p].friend, flag |-> p \in Out(t)]
      BY <2>2 DEF TieOut
    <3>2. t.ties[p] \in Tie  BY <2>2 DEF TablesRow
    <3>3. p \in Known(t) /\ (p \in Friends(t)) = t.ties[p].friend
      BY <2>2, <3>2 DEF Known, Friends, Tie
    <3>4. t.ties[p].friend \in BOOLEAN  BY <3>2 DEF Tie
    <3>5. ties[p] \in Tie  BY <3>1, <3>4, TieRow
    <3>6. ties[p] # None  BY <3>5, ArchiveAssumption
    <3> QED  BY <3>1, <3>3, <3>5, <3>6
  <2> QED  BY <2>1, <2>2
<1> QED  BY <1>1

(* One table more: the rest of what was read stays, and this one is as the   *)
(* tables have it now.                                                       *)
NextRows(r, k) == [r EXCEPT ![Reads[k]] = Exported(tables, Reads[k])]

ReadsOne(r, k, rows) ==
    /\ rows \in TablesRow
    /\ rows.ties = IF k = 1 THEN TiesIn(tables) ELSE r.ties
    /\ rows.ring = IF k = 2 THEN tables.ring ELSE r.ring
    /\ rows.barred = IF k = 3 THEN tables.barred ELSE r.barred
    /\ rows.pieces = IF k = 4 THEN tables.pieces ELSE r.pieces
    /\ rows.pictures = IF k = 5 THEN tables.pictures ELSE r.pictures
    /\ rows.heard = IF k = 6 THEN Newest(tables.heard) ELSE r.heard
    /\ rows.deeds = IF k = 7 THEN Newest(tables.deeds) ELSE r.deeds

LEMMA ReadOne ==
    ASSUME NEW r \in TablesRow, NEW k \in 1..7, tables \in TablesRow
    PROVE  ReadsOne(r, k, NextRows(r, k))
<1> USE DEF ReadsOne, NextRows
<1> DEFINE rows == NextRows(r, k)
<1> DEFINE ties == TiesIn(tables)
<1>0. ties \in [Peer -> Tie \cup {None}]  BY TiesTaken
<1>n. Newest(tables.heard) \subseteq tables.heard /\ Newest(tables.deeds) \subseteq tables.deeds
  BY DEF Newest
<1> HIDE DEF ties
<1>1. CASE k = 1
  <2>1. rows = [r EXCEPT !.ties = ties]  BY <1>1 DEF Reads, Exported, ties, TiesIn
  <2> QED  BY <1>0, <1>1, <2>1 DEF TablesRow, ties
<1>2. CASE k = 2
  <2>1. rows = [r EXCEPT !.ring = tables.ring]  BY <1>2 DEF Reads, Exported
  <2> QED  BY <1>2, <2>1 DEF TablesRow
<1>3. CASE k = 3
  <2>1. rows = [r EXCEPT !.barred = tables.barred]  BY <1>3 DEF Reads, Exported
  <2> QED  BY <1>3, <2>1 DEF TablesRow
<1>4. CASE k = 4
  <2>1. rows = [r EXCEPT !.pieces = tables.pieces]  BY <1>4 DEF Reads, Exported
  <2> QED  BY <1>4, <2>1 DEF TablesRow
<1>5. CASE k = 5
  <2>1. rows = [r EXCEPT !.pictures = tables.pictures]  BY <1>5 DEF Reads, Exported
  <2> QED  BY <1>5, <2>1 DEF TablesRow
<1>6. CASE k = 6
  <2>1. rows = [r EXCEPT !.heard = Newest(tables.heard)]  BY <1>6 DEF Reads, Exported
  <2> QED  BY <1>n, <1>6, <2>1 DEF TablesRow
<1>7. CASE k = 7
  <2>1. rows = [r EXCEPT !.deeds = Newest(tables.deeds)]  BY <1>7 DEF Reads, Exported
  <2> QED  BY <1>n, <1>7, <2>1 DEF TablesRow
<1> QED  BY <1>1, <1>2, <1>3, <1>4, <1>5, <1>6, <1>7

(* The tables that are read before stay, and the next one agrees with them.  *)
LEMMA ReadTorn ==
    ASSUME NEW r \in TablesRow, NEW k \in 1..7, TablesOK(tables), NEW rows,
           ReadsOne(r, k, rows), TornDraft(r, k)
    PROVE  TornDraft(rows, k + 1)
<1>1. /\ rows.ties = IF k = 1 THEN TiesIn(tables) ELSE r.ties
      /\ rows.ring = IF k = 2 THEN tables.ring ELSE r.ring
      /\ rows.pieces = IF k = 4 THEN tables.pieces ELSE r.pieces
      /\ rows.pictures = IF k = 5 THEN tables.pictures ELSE r.pictures
      /\ rows.heard = IF k = 6 THEN Newest(tables.heard) ELSE r.heard
  BY DEF ReadsOne
<1>2. CASE k = 1
  <2> DEFINE ties == TiesIn(tables)
  <2>1. \A p \in Peer : /\ (ties[p] # None) = (p \in Known(tables))
                        /\ p \in Known(tables) => /\ ties[p].flag = (p \in Out(tables))
                                                  /\ ties[p].friend = (p \in Friends(tables))
    BY TiesTaken DEF TablesOK
  <2>2. rows.ties = ties  BY <1>1, <1>2
  <2> HIDE DEF ties
  <2>3. Known(rows) = Known(tables)  BY <2>1, <2>2 DEF Known
  <2>4. Friends(tables) \subseteq Friends(rows)
    BY <2>1, <2>2, <2>3 DEF Friends, Known
  <2>5. Out(tables) \subseteq Flagged(rows)
    BY <2>1, <2>2 DEF Out, Known, Flagged
  <2>6. since.out \subseteq Out(tables) /\ (since.sound => tables.ring \subseteq Friends(tables))
    BY DEF TornDraft
  <2>7. k + 1 = 2  BY <1>2
  <2>8. since.out \subseteq Flagged(rows)  BY <2>5, <2>6
  <2>9. ~(k + 1 > 2) /\ ~(k + 1 > 4) /\ ~(k + 1 > 5) /\ ~(k + 1 > 6)  BY <2>7
  <2> QED  BY <2>3, <2>4, <2>6, <2>8, <2>9 DEF TornDraft
<1>3. CASE k # 1
  <2>1. Known(rows) = Known(r) /\ Friends(rows) = Friends(r) /\ Flagged(rows) = Flagged(r)
    BY <1>1, <1>3 DEF Known, Friends, Flagged
  <2>2. k > 1 /\ k + 1 > 2  BY <1>3
  <2>3. /\ since.out \subseteq Flagged(rows)
        /\ ~since.grown
           => Known(tables) \subseteq Known(rows) /\ Friends(tables) \subseteq Friends(rows)
    BY <2>1, <2>2 DEF TornDraft
  <2>4. ~since.grown => rows.ring \subseteq Known(rows)
    BY <1>1, <2>1, <2>2, <2>3 DEF TornDraft, TablesOK, Loadable
  <2>5. ~since.grown /\ since.sound => rows.ring \subseteq Friends(rows)
    BY <1>1, <2>1, <2>2, <2>3 DEF TornDraft
  <2>6. k + 1 > 4 => \A i \in Piece :
          rows.pieces[i] \in Picture => rows.pieces[i] \in tables.pictures
    BY <1>1 DEF TornDraft, TablesOK, PiecesShown
  <2>7. k + 1 > 5 => PiecesShown(rows)
    BY <1>1 DEF TornDraft, PiecesShown
  <2>8. Newest(tables.heard) \subseteq tables.heard  BY DEF Newest
  <2>9. k + 1 > 6 /\ ~since.grown => \A x \in rows.heard : x.by \in Known(rows)
    BY <1>1, <2>1, <2>3, <2>8 DEF TornDraft, TablesOK, Loadable
  <2> QED  BY <2>2, <2>3, <2>4, <2>5, <2>6, <2>7, <2>9 DEF TornDraft
<1> QED  BY <1>2, <1>3

(* Undisturbed, the next table is read as it is.                             *)
LEMMA ReadQuiet ==
    ASSUME NEW r \in TablesRow, NEW k \in 1..7, TablesOK(tables), NEW rows,
           ReadsOne(r, k, rows), QuietDraft(r, k)
    PROVE  QuietDraft(rows, k + 1) /\ (k = 7 /\ since.quiet => Copies(rows, tables))
<1>1. /\ rows.ties = IF k = 1 THEN TiesIn(tables) ELSE r.ties
      /\ rows.ring = IF k = 2 THEN tables.ring ELSE r.ring
      /\ rows.barred = IF k = 3 THEN tables.barred ELSE r.barred
      /\ rows.pieces = IF k = 4 THEN tables.pieces ELSE r.pieces
      /\ rows.pictures = IF k = 5 THEN tables.pictures ELSE r.pictures
      /\ rows.heard = IF k = 6 THEN Newest(tables.heard) ELSE r.heard
      /\ rows.deeds = IF k = 7 THEN Newest(tables.deeds) ELSE r.deeds
  BY DEF ReadsOne
<1>2. QuietDraft(rows, k + 1)
  BY <1>1 DEF QuietDraft
<1> QED  BY <1>1, <1>2 DEF QuietDraft, Copies

(* Reading a table keeps the invariant, and so does the end of the export.   *)
LEMMA ReadNextKeeps ==
    ASSUME ArchiveInv, ReadNext
    PROVE  ArchiveInv'
<1> DEFINE r == draft.rows  k == draft.at
           rows == NextRows(r, k)
<1>1. /\ draft # None /\ r \in TablesRow /\ k \in 1..7 /\ TablesOK(tables)
      /\ IsFiniteSet(r.heard) /\ IsFiniteSet(r.deeds) /\ TornDraft(r, k) /\ QuietDraft(r, k)
  BY DEF ReadNext, ArchiveInv, DraftOK
<1>2. tables' = tables /\ writes' = writes /\ Len(Reads) = 7
  BY DEF ReadNext, Reads
<1>3. \/ k < 7 /\ draft' = [rows |-> rows, at |-> k + 1] /\ backup' = backup /\ since' = since
      \/ k = 7 /\ draft' = None /\ backup' = Backup(rows)
  BY <1>1, <1>2 DEF ReadNext, NextRows
<1> HIDE DEF r, k
<1>0. tables \in TablesRow  BY <1>1 DEF TablesOK
<1>6. ReadsOne(r, k, rows)  BY <1>0, <1>1, ReadOne
<1> HIDE DEF rows
<1>4. TornDraft(rows, k + 1)  BY <1>1, <1>6, ReadTorn
<1>5. QuietDraft(rows, k + 1) /\ (k = 7 /\ since.quiet => Copies(rows, tables))
  BY <1>1, <1>6, ReadQuiet
<1>7. IsFiniteSet(rows.heard) /\ IsFiniteSet(rows.deeds)
  <2>1. rows.heard = (IF k = 6 THEN Newest(tables.heard) ELSE r.heard)
        /\ rows.deeds = (IF k = 7 THEN Newest(tables.deeds) ELSE r.deeds)
    BY <1>6 DEF ReadsOne
  <2> QED  BY <1>1, <2>1, NewestIsFinite DEF TablesOK
<1>9. rows \in TablesRow  BY <1>6 DEF ReadsOne
<1>8. CASE k < 7 /\ draft' = [rows |-> rows, at |-> k + 1] /\ backup' = backup /\ since' = since
  <2>1. draft'.rows = rows /\ draft'.at = k + 1 /\ k + 1 \in 1..7  BY <1>1, <1>8
  <2>3. TornDraft(draft.rows, draft.at)'
    BY <1>2, <1>4, <1>8, <2>1 DEF TornDraft, Out, Known, Friends, Flagged, PiecesShown
  <2>4. QuietDraft(draft.rows, draft.at)'
    BY <1>2, <1>5, <1>8, <2>1 DEF QuietDraft, TiesIn, TieOut, Newest, Out, Known
  <2>5. DraftOK'  BY <1>7, <1>8, <1>9, <2>1, <2>3, <2>4 DEF DraftOK
  <2>6. BackupOK'
    BY <1>8 DEF ArchiveInv, BackupOK, Torn, Copies, Flagged, Known, Friends, Loadable,
                PiecesShown, TablesOK
  <2>7. TablesOK(tables)'  BY <1>1, <1>2
  <2> QED  BY <1>2, <2>5, <2>6, <2>7 DEF ArchiveInv
<1>10. CASE k = 7 /\ draft' = None /\ backup' = Backup(rows)
  <2>1. backup' = [rows |-> rows, quiet |-> since.quiet, out |-> since.out,
                   grown |-> since.grown, sound |-> since.sound, was |-> IF since.quiet THEN tables ELSE None]
    BY <1>10 DEF Backup
  <2>2. Torn(rows, backup')
    BY <1>4, <1>10, <2>1 DEF TornDraft, Torn, Loadable
  <2>3. backup'.quiet => TablesOK(backup'.was) /\ Copies(rows, backup'.was)
    BY <1>1, <1>5, <1>10, <2>1
  <2>4. BackupOK'
    BY <1>7, <1>9, <2>1, <2>2, <2>3 DEF BackupOK
  <2>5. DraftOK'  BY <1>10 DEF DraftOK
  <2> QED  BY <1>1, <1>2, <2>4, <2>5 DEF ArchiveInv
<1> QED  BY <1>3, <1>8, <1>10

(* An export that has read nothing claims nothing.                           *)
LEMMA BeginExportKeeps ==
    ASSUME ArchiveInv, BeginExport
    PROVE  ArchiveInv'
<1>1. /\ draft' = [rows |-> Empty, at |-> 1] /\ tables' = tables /\ backup' = backup
      /\ writes' = writes
      /\ since' = [quiet |-> TRUE, out |-> Out(tables), grown |-> FALSE,
                   sound |-> tables.ring \subseteq Friends(tables)]
  BY DEF BeginExport
<1>2. Empty \in TablesRow /\ IsFiniteSet(Empty.heard) /\ IsFiniteSet(Empty.deeds)
  BY FS_EmptySet DEF Empty, TablesRow
<1>3. Out(tables)' = Out(tables) /\ Friends(tables)' = Friends(tables)
  BY <1>1 DEF Out, Friends, Known
<1>4. TornDraft(draft.rows, draft.at)' /\ QuietDraft(draft.rows, draft.at)'
  <2>1. draft'.at = 1 /\ since'.out = Out(tables)
        /\ since'.sound = (tables.ring \subseteq Friends(tables))
    BY <1>1
  <2>2. ~(draft'.at > 1) /\ ~(draft'.at > 2) /\ ~(draft'.at > 3) /\ ~(draft'.at > 4)
        /\ ~(draft'.at > 5) /\ ~(draft'.at > 6)
    BY <2>1
  <2> QED  BY <1>1, <1>3, <2>1, <2>2 DEF TornDraft, QuietDraft
<1>5. DraftOK'  BY <1>1, <1>2, <1>4 DEF DraftOK
<1>6. BackupOK'
  BY <1>1 DEF ArchiveInv, BackupOK, Torn, Copies, Flagged, Known, Friends, Loadable,
              PiecesShown, TablesOK
<1> QED  BY <1>1, <1>5, <1>6 DEF ArchiveInv

(* What is loaded has its foreign keys, whatever the archive lacks.          *)
LEMMA LoadedIsOK ==
    ASSUME NEW rows \in TablesRow, Loadable(rows),
           IsFiniteSet(rows.heard), IsFiniteSet(rows.deeds)
    PROVE  /\ TablesOK(Loaded(rows))
           /\ Loaded(rows).ties = rows.ties /\ Loaded(rows).ring = rows.ring
           /\ Loaded(rows).barred = rows.barred /\ Loaded(rows).pictures = rows.pictures
           /\ Loaded(rows).pieces = [i \in Piece |-> PieceIn(rows, i)]
           /\ Loaded(rows).heard = rows.heard /\ Loaded(rows).deeds = rows.deeds
<1> DEFINE t == Loaded(rows)
           pieces == [i \in Piece |-> PieceIn(rows, i)]
<1>1. \A i \in Piece : /\ pieces[i] \in Picture \cup {"plain", None}
                       /\ pieces[i] \in Picture => pieces[i] \in rows.pictures
  BY ArchiveAssumption DEF PieceIn, TablesRow
<1>2. pieces \in [Piece -> Picture \cup {"plain", None}]  BY <1>1
<1>3. Purged.barred = {}  BY DEF Purged, Empty
<1> HIDE DEF pieces
<1>4. t = [rows EXCEPT !.barred = @ \cup Purged.barred, !.pieces = pieces]
  BY DEF Loaded, pieces
<1>5. /\ t.ties = rows.ties /\ t.ring = rows.ring /\ t.barred = rows.barred
      /\ t.pictures = rows.pictures /\ t.pieces = pieces /\ t.heard = rows.heard
      /\ t.deeds = rows.deeds
  BY <1>3, <1>4 DEF TablesRow
<1>6. t \in TablesRow  BY <1>2, <1>3, <1>4 DEF TablesRow
<1> HIDE DEF t
<1>7. Known(t) = Known(rows)  BY <1>5 DEF Known
<1>8. Loadable(t) /\ PiecesShown(t)
  BY <1>1, <1>5, <1>7 DEF Loadable, PiecesShown
<1>9. TablesOK(t)  BY <1>5, <1>6, <1>8 DEF TablesOK
<1> QED  BY <1>5, <1>9 DEF t, pieces

(* A restore brings foreign keys with it, a deletion leaves none.            *)
LEMMA RestoreKeeps ==
    ASSUME ArchiveInv, Restore \/ Erase
    PROVE  ArchiveInv'
<1>1. UNCHANGED <<draft, backup, writes, since>> /\ draft = None  BY DEF Restore, Erase
<1>2. TablesOK(tables)'
  <2>1. CASE Restore
    BY <2>1, LoadedIsOK DEF Restore, ArchiveInv, BackupOK
  <2>2. CASE Erase
    <3>1. tables' = Empty  BY <2>2 DEF Erase, Purged
    <3>2. Empty \in TablesRow /\ Empty.ring = {} /\ Empty.heard = {} /\ Empty.deeds = {}
          /\ \A i \in Piece : Empty.pieces[i] = None
      BY DEF Empty, TablesRow
    <3>3. TablesOK(Empty)
      BY <3>2, FS_EmptySet, ArchiveAssumption DEF TablesOK, Loadable, PiecesShown
    <3> QED  BY <3>1, <3>3
  <2> QED  BY <2>1, <2>2
<1>3. BackupOK'
  BY <1>1 DEF ArchiveInv, BackupOK, Torn, Copies, TiesIn, TieOut, Newest, Out, Flagged, Known,
              Friends, Loadable, PiecesShown, TablesOK
<1> QED  BY <1>1, <1>2, <1>3 DEF ArchiveInv, DraftOK

(* Every step keeps the invariant.                                           *)
LEMMA ArchiveStep ==
    ASSUME ArchiveInv, [ArchiveNext]_archiveVars
    PROVE  ArchiveInv'
<1>1. CASE Meanwhile
  <2>1. TablesOK(tables) /\ writes \in Nat  BY DEF ArchiveInv
  <2>2. Milder(tables, tables') /\ Writes(tables')  BY <1>1, <2>1, MeanwhileWrites
  <2>3. writes' \in Nat /\ backup' = backup  BY <2>1, <2>2 DEF Writes
  <2>4. BackupOK'
    BY <2>3 DEF ArchiveInv, BackupOK, Torn, Copies, TiesIn, TieOut, Newest, Out, Flagged, Known,
                Friends, Loadable, PiecesShown, TablesOK
  <2> QED  BY <2>2, <2>3, <2>4, DraftOutlives DEF Milder, ArchiveInv
<1>2. CASE UNCHANGED archiveVars
  BY <1>2 DEF archiveVars, ArchiveInv, DraftOK, BackupOK, TornDraft, QuietDraft, Torn, Copies,
              TiesIn, TieOut, Newest, Out, Flagged, Known, Friends, Loadable, PiecesShown, TablesOK
<1> QED  BY <1>1, <1>2, BeginExportKeeps, ReadNextKeeps, RestoreKeeps DEF ArchiveNext

(* ArchiveInv is an invariant.                                               *)
LEMMA ArchiveAlways == ArchiveSpec => []ArchiveInv
BY ArchiveStart, ArchiveStep, PTL DEF ArchiveSpec

(* TornArchivesHold for any actors, items, images, limit and number of       *)
(* writes: an export that others write into is torn only in what it names.   *)
THEOREM TornButSound == ArchiveSpec => []TornArchivesHold
<1>1. ArchiveInv => TornArchivesHold
  <2> SUFFICES ASSUME ArchiveInv, backup # None PROVE TornArchivesHold
    BY DEF TornArchivesHold
  <2>1. Torn(backup.rows, backup)  BY DEF ArchiveInv, BackupOK
  <2>2. Flagged(backup.rows) \subseteq Out(backup.rows)  BY DEF Flagged, Out, Known
  <2> QED  BY <2>1, <2>2 DEF Torn, TornArchivesHold, PiecesShown
<1> QED  BY <1>1, ArchiveAlways, PTL

(* The latest rows are all there are unless there are more than the limit.   *)
LEMMA NewestAreLatest ==
    ASSUME NEW rows, IsFiniteSet(rows), \A r \in rows : r.at \in Nat
    PROVE  /\ Cardinality(rows) <= Carried => Newest(rows) = rows
           /\ \A r \in rows \ Newest(rows), k \in Newest(rows) : r.at < k.at
<1> DEFINE Later(r) == {s \in rows : s.at > r.at}
<1>1. \A r \in rows : /\ IsFiniteSet(Later(r)) /\ Cardinality(Later(r)) \in Nat
                      /\ Cardinality(Later(r)) < Cardinality(rows)
  <2> TAKE r \in rows
  <2>1. Later(r) \subseteq rows /\ Later(r) # rows  OBVIOUS
  <2> HIDE DEF Later
  <2> QED  BY <2>1, FS_Subset, FS_CardinalityType
<1>2. Newest(rows) = {r \in rows : Cardinality(Later(r)) < Carried}
  BY DEF Newest
<1>3. ASSUME NEW r \in rows \ Newest(rows), NEW k \in Newest(rows)
      PROVE  r.at < k.at
  <2>1. k \in rows /\ Cardinality(Later(k)) < Carried /\ ~(Cardinality(Later(r)) < Carried)
    BY <1>2
  <2>2. CASE ~(r.at < k.at)
    <3>1. Later(r) \subseteq Later(k)  BY <2>1, <2>2
    <3> HIDE DEF Later
    <3>2. Cardinality(Later(r)) <= Cardinality(Later(k))
      BY <1>1, <2>1, <3>1, FS_Subset
    <3> QED  BY <1>1, <2>1, <3>2, ArchiveAssumption
  <2> QED  BY <2>2
<1>4. ASSUME Cardinality(rows) <= Carried
      PROVE  Newest(rows) = rows
  <2> HIDE DEF Later
  <2>1. Cardinality(rows) \in Nat  BY FS_CardinalityType
  <2> QED  BY <1>1, <1>2, <1>4, <2>1, ArchiveAssumption
<1> QED  BY <1>3, <1>4

(* RoundTrip for any actors, items, images, limit and number of writes: a    *)
(* restore of an undisturbed export gives the Space back.                    *)
THEOREM UndisturbedExportsReturn == ArchiveSpec => RoundTrip
<1> DEFINE Back == Restore /\ backup.quiet => Alike(backup.was, tables')
<1>1. ArchiveInv /\ [ArchiveNext]_archiveVars => [Back]_archiveVars
  <2> SUFFICES ASSUME ArchiveInv, Restore, backup.quiet PROVE Alike(backup.was, tables')
    OBVIOUS
  <2> DEFINE s == backup.was  rows == backup.rows  t == Loaded(rows)
  <2>1. /\ rows \in TablesRow /\ IsFiniteSet(rows.heard) /\ IsFiniteSet(rows.deeds)
        /\ TablesOK(s) /\ Copies(rows, s)
    BY DEF Restore, ArchiveInv, BackupOK
  <2>2. tables' = IF Loadable(rows) THEN t ELSE tables  BY DEF Restore
  <2> HIDE DEF s, rows, t
  <2>3. \A p \in Peer : /\ (rows.ties[p] # None) = (p \in Known(s))
                        /\ p \in Known(s) => /\ rows.ties[p].flag = (p \in Out(s))
                                             /\ rows.ties[p].friend = (p \in Friends(s))
    BY <2>1, TiesTaken DEF Copies, TablesOK
  <2>4. Known(rows) = Known(s)  BY <2>3 DEF Known
  <2>5. Loadable(rows)
    BY <2>1, <2>4, NewestIsFinite DEF Loadable, Copies, TablesOK
  <2>6. tables' = t /\ t.ties = rows.ties /\ t.ring = s.ring /\ t.barred = s.barred
        /\ t.pictures = s.pictures /\ t.pieces = [i \in Piece |-> PieceIn(rows, i)]
        /\ t.heard = Newest(s.heard) /\ t.deeds = Newest(s.deeds)
    BY <2>1, <2>2, <2>5, LoadedIsOK DEF Copies, t
  <2>7. t.pieces = s.pieces
    <3>1. \A i \in Piece : PieceIn(rows, i) = s.pieces[i]
      BY <2>1 DEF PieceIn, Copies, TablesOK, PiecesShown
    <3> QED  BY <2>1, <2>6, <3>1 DEF TablesOK, TablesRow
  <2>8. Known(t) = Known(s)  BY <2>4, <2>6 DEF Known
  <2>9. Friends(t) = Friends(s)
    BY <2>3, <2>6, <2>8 DEF Friends, Known
  <2>10. Out(t) = Out(s)
    BY <2>3, <2>6, <2>8 DEF Out, Known
  <2>11. \A r \in s.heard : r.at \in Nat  BY <2>1 DEF TablesOK, TablesRow
  <2>12. \A r \in s.deeds : r.at \in Nat  BY <2>1 DEF TablesOK, TablesRow, Dated
  <2>13. /\ t.heard \subseteq s.heard /\ t.deeds \subseteq s.deeds
         /\ Cardinality(s.heard) <= Carried => t.heard = s.heard
         /\ Cardinality(s.deeds) <= Carried => t.deeds = s.deeds
         /\ \A r \in s.heard \ t.heard, k \in t.heard : r.at < k.at
         /\ \A r \in s.deeds \ t.deeds, k \in t.deeds : r.at < k.at
    BY <2>1, <2>6, <2>11, <2>12, NewestIsFinite, NewestAreLatest DEF TablesOK
  <2>14. \A name \in {"heard", "deeds"} :
            /\ t[name] \subseteq s[name]
            /\ Cardinality(s[name]) <= Carried => t[name] = s[name]
            /\ \A r \in s[name] \ t[name], k \in t[name] : r.at < k.at
    BY <2>13
  <2> QED  BY <2>6, <2>7, <2>8, <2>9, <2>10, <2>14 DEF Alike, s
<1> QED  BY <1>1, ArchiveAlways, PTL DEF ArchiveSpec, RoundTrip
=============================================================================
