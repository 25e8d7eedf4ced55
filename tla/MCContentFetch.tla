--------------------------- MODULE MCContentFetch ---------------------------
(* Instances of ContentFetch for TLC.  The letters are 1 and 2.            *)
EXTENDS ContentFetch

NewRow(id, w) == [id |-> id, word |-> w]

(***************************************************************************)
(* The states that the table goes through.  With pages of four bytes and   *)
(* two ids: two files are imported, without and with a last newline; words *)
(* are added, some of them empty, so that the content runs over within a   *)
(* page or at its end, or the ids run over within their page or beyond it; *)
(* a word with a newline is added; and words are deleted, all at last.     *)
(***************************************************************************)
Files == << <<1, 1, 2>>, <<Newline>> >>

MCTables ==
  LET first == Imported(<<>>, 1, Files[1])
  IN << first,
        Imported(first, 2, Files[2]),
        << NewRow(2, <<>>), NewRow(3, <<>>), NewRow(4, <<>>), NewRow(5, <<1>>) >>,
        << NewRow(2, <<>>), NewRow(5, <<1>>), NewRow(6, <<2, Newline, 1>>), NewRow(7, <<2>>) >>,
        << NewRow(5, <<1>>) >>,
        <<>> >>

(***************************************************************************)
(* What init_db has imported comes back as it was in the files, but for a  *)
(* newline that a last line lacked.                                        *)
(***************************************************************************)
ImportedBack ==
  LET Ended(f) == IF f # <<>> /\ Last(f) # Newline THEN Append(f, Newline) ELSE f
  IN pc = "returned" /\ sized = read /\ read \in DOMAIN Files =>
       content = FlattenSeq([k \in 1 .. read |-> Ended(Files[k])])

(***************************************************************************)
(* From a file through the table to the files of an index: what a client   *)
(* of the table has put in is what searches look at, under its id.         *)
(***************************************************************************)
LinesKept == LinesMatchIds /\ ImportedBack
=============================================================================
