---------------------------- MODULE MCActionSink ----------------------------
EXTENDS ActionSink

\* The sinks of each model and what clients write to them.
MCOneOrder == <<"a">>
MCTwoOrder == <<"a", "b">>
MCSharedChunks == {<<"req", "nl">>, <<"frag", "nl">>, <<"nl">>}
MCMultilineChunks ==
    {<<"req", "nl">>, <<"frag", "nl">>, <<"text", "nl">>, <<"bin", "nl">>, <<"frag">>, <<"nl">>, <<"nul">>}
=============================================================================
