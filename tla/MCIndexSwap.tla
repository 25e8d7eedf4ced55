---------------------------- MODULE MCIndexSwap ----------------------------
(* Instances of IndexSwap for TLC.  The letters are 1 and 2.               *)
EXTENDS IndexSwap

Row(id, word) == [id |-> id, word |-> word]

(* A word is deleted and its like is added under another id, so that the   *)
(* same line numbers stand for other words.                                *)
MCTables == << << Row(1, <<1, 1, 2>>), Row(2, <<1, 2, 2>>) >>,
               << Row(2, <<1, 2, 2>>), Row(3, <<1, 1, 2>>) >> >>

(* The second text makes an empty index.bin, the third ends the process.   *)
MCUploads == { <<1, 1, 2, 2>>, <<1, 1>>, <<1, 3, 2>> }

(* A table that ends with a word of two letters.                           *)
ShortWords == << << Row(1, <<1, 1, 2>>), Row(2, <<1, 2>>) >> >>

OneQuery == { <<1, 1, 2>> }
=============================================================================
