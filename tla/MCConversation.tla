---------------------------- MODULE MCConversation ----------------------------
\* Instances of ConversationStore for TLC; the values are in the configurations.
EXTENDS ConversationStore, TLC
MCRecords == {<<"a", 1>>, <<"a", 2>>, <<"b", 1>>}
MCBatches == {<<<<"a", 1>>, <<"b", 1>>>>}
MCImports == {<<>>, <<<<"a", 1>>>>}
MCModes == {[rooted |-> TRUE, deferred |-> TRUE], [rooted |-> FALSE, deferred |-> FALSE]}
MCWriters == Permutations(Writers)
=============================================================================
