--------------------------- MODULE MCCommandLine ---------------------------
(* Command lines of up to three options for CommandLine.                    *)
EXTENDS CommandLine

Files == {<<<<"main", ".rs">>>>, <<<<"rustc", ".rs">>>>,
          <<<<"unstable-options", ".rs">>>>, <<<<"mir-opt-level", ".rs">>>>,
          <<<<"always-encode-mir">>>>}
Sysroots == {<<<<"--sysroot">>, <<"theirs">>>>, <<<<"--sysroot", "theirs">>>>}
Unstable ==
    {<<<<"-Z">>, z>> : z \in {<<"mir-opt-level", 0>>, <<"mir_opt_level", 3>>,
                              <<"always-encode-mir">>, <<"always-encode-mir", 0>>,
                              <<"unstable-options">>, <<"unstable-options", 0>>}} \cup
    {<<<<"-Z", "mir-opt-level", 3>>>>, <<<<"-Z", "always-encode-mir">>>>}
Directories == {<<<<"-L">>, <<"mir-opt-level">>>>}
SomeOptions == Files \cup Sysroots \cup Unstable \cup Directories
CargoOptions == {<<<<"main", ".rs">>>>}
=============================================================================
