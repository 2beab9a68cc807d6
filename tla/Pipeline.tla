------------------------------- MODULE Pipeline -------------------------------
(***************************************************************************)
(* A turn as a sequential program: accumulator, adapter and client, joined *)
(* as pump_stream and flush_frames (src/src/route_multi_agent.rs) join     *)
(* them, without tasks and channels.  Turn has those, and its property     *)
(* AsIfSequential that they make no difference; Conversation takes whole   *)
(* turns for its steps.                                                    *)
(***************************************************************************)
EXTENDS WarpClient, SequencesExt

NewTurn == [blocks |-> <<>>, adapter |-> NewAdapter, client |-> NewClient]

\* flush_frames: a frame is translated and its events reach the client.
Flush(t, frame) ==
  [t EXCEPT !.adapter = TranslateAdapter(@, frame),
            !.client  = FoldLeft(Receive, @, TranslateEvents(t.adapter, frame))]

\* pump_stream: an event is accumulated and its frames are flushed.
Pump(t, ev) ==
  FoldLeft(Flush, [t EXCEPT !.blocks = HandleBlocks(@, ev)], HandleFrames(t.blocks, ev))

=============================================================================
