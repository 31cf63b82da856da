----------------------------- MODULE MCLifecycle -----------------------------
(* Folders of one to three files, with and without a database and the loop, *)
(* and a camera. *)
EXTENDS Lifecycle, TLC

Folder(files, loop, db) == [kind |-> "video", files |-> files, loop |-> loop, db |-> db]

MCSources ==
  {Folder(<<1, Unreadable, 1>>, FALSE, TRUE), Folder(<<1, 2>>, FALSE, FALSE),
   Folder(<<Unreadable, 1>>, FALSE, TRUE), Folder(<<1, 0, 1>>, FALSE, TRUE),
   Folder(<<Unreadable, 1>>, TRUE, TRUE), Folder(<<2>>, TRUE, FALSE),
   [kind |-> "rtsp", files |-> <<0>>, loop |-> FALSE, db |-> FALSE]}
=============================================================================
