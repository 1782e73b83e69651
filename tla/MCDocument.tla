----------------------------- MODULE MCDocument ------------------------------
(* DocumentAutosave with a few pieces of text and one structure mutation.     *)
EXTENDS DocumentAutosave

CONSTANTS e1, e2, e3, m1

OneText     == {e1}
TwoTexts    == {e1, e2}
NoText      == {}
ThreeTexts  == {e1, e2, e3}
NoMutation  == {}
OneMutation == {m1}

Anything  == {"leave", "close", "crash", "echo", "clear", "retry"}
AtTheEditor == {"clear", "retry"}
JustEcho  == {"echo"}
JustLeave == {"leave"}
AllChanges  == Typed \cup Mutations

\* Nobody is in the editor.
DocumentRests ==
  /\ FileInit /\ proposal = Skeleton
  /\ view = "elsewhere" /\ editor = {} /\ unserialized = FALSE
  /\ content = {} /\ loaded = FALSE /\ loading = FALSE /\ load = "none" /\ got = {}
  /\ dirty = FALSE /\ saving = FALSE /\ error = FALSE
  /\ timer = FALSE /\ queued = FALSE /\ awaited = 0
  /\ locked = FALSE /\ mut = Idle /\ index = {}
  /\ done = Skeleton /\ cleared = {} /\ mayDisturb = 0
=============================================================================
