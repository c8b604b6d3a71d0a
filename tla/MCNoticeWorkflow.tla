-------------------------- MODULE MCNoticeWorkflow --------------------------
EXTENDS NoticeWorkflow, TLC

(* The slots are interchangeable.                                          *)
Sym == Permutations(Slots)
=============================================================================
