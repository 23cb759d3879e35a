--------------------------- MODULE MC_ToolExchange ---------------------------
(* Small instances of ToolExchange for TLC: the tools of the device channel    *)
(* and of the head, with the schema and time limits the code gives them, and   *)
(* the batches a model may ask for.                                            *)
EXTENDS ToolExchange

MCTools ==
    [search |-> build_channel_music_tools.search,
     play   |-> build_channel_music_tools.play,
     head   |-> StackChanHeadTool,
     ghost  |-> [StackChanHeadTool EXCEPT !.known = FALSE,
                                          !.via = "channel"]]

Call(id, name, args) == [id |-> id, name |-> name, args |-> args]

\* A read, a name that does not resolve and an action; the same read asked for
\* twice; the action under an id the model uses elsewhere, arguments
\* the schema refuses, and a motion.
MCBatches ==
    { <<Call(1, "search", "query"), Call(3, "ghost", "query"),
        Call(2, "play", "song")>>,
      <<Call(1, "search", "query"), Call(1, "search", "query")>>,
      <<Call(1, "play", "song"), Call(2, "play", "query"),
        Call(3, "head", "nod")>> }

=============================================================================
