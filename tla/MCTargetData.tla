---------------------------- MODULE MCTargetData ----------------------------
EXTENDS TargetData

\* Two providers: enough for a failure after a success and for clashing ids.
ProviderNames == <<"uikit", "swiftui">>
=============================================================================
