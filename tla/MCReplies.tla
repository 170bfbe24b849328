----------------------------- MODULE MCReplies -----------------------------
(* A directory of two files, descriptors of three lengths and buffers      *)
(* around them.                                                            *)
EXTENDS Replies
MCDirectory == <<".", "a", "b">>
MCLengths == {1, 2, 3}
MCBuffers == {0, 2, 3}
MCMixes == {{"lookup", "list"}, {"security"}}
=============================================================================
