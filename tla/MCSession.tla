----------------------------- MODULE MCSession -----------------------------
(* Instances of Session for TLC. *)
EXTENDS Session

NoByte == -1
Digit == -1 .. Base - 1

Short == <<<<3>>>>                 \* a word of one byte
Pair == <<<<>>, <<1, 2>>>>         \* an empty word and one of two bytes
Huge == <<<<3, 3, 3, 3, 3, 3, 3, 3>>>>   \* above MAX_MSG
Wordy == <<<<>>, <<>>, <<>>>>      \* more than MAX_CMDS words, exactly MAX_MSG
MCCmds == {Short, Pair, Huge, Wordy}

Row == <<<<"str", <<4, 4>>>>, <<"dbl", 9>>>>
NilReply == <<"nil">>
ErrReply == <<"err", 1, <<5>>>>
StrReply == <<"str", <<6, 7, 1, 1, 0, 2, 5>>>>   \* longer than a new Buffer
IntReply == <<"int", 10>>
RowReply == <<"arr", Row>>                  \* exactly MAX_MSG
LongReply == <<"arr", Row \o Row>>          \* above MAX_MSG
ShortReplies == {NilReply, ErrReply, StrReply, IntReply, RowReply}
AllReplies == {NilReply, LongReply}
=============================================================================
