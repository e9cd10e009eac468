---------------------------- MODULE MCRoutedCall ----------------------------
(* Small instance of RoutedCall for TLC.                                   *)
EXTENDS RoutedCall

\* A name in two spellings; valid service types, and types with a slash, with
\* two dots and without a character.
MCSelfIDs == {<<"a">>, <<"A">>, <<"a", "/", "b">>}
MCServiceNames == {<<"a">>, <<"a", "/", "b">>, <<"a", ".", ".">>, <<>>}
TwoServices == {<<"a">>, <<"b">>}
MCProviderName == <<"b">>
MCChains == {<<>>, <<"token", "apikey", "mtls">>}
=============================================================================
