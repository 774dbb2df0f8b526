-------------------------------- MODULE MCWebApp --------------------------------
(* WebApp with a small configuration.                                       *)
EXTENDS WebApp

Handler(version, known) == [version |-> version, known |-> known]

\* One path with two versions, one of them given twice, one with an unknown
\* action.
MCConfig ==
  << [path |-> <<"met", "no">>,
      versions |-> <<Handler(<<1, 0>>, TRUE), Handler(<<2, 0>>, TRUE),
                     Handler(<<1, 0>>, TRUE), Handler(<<3, 0>>, FALSE)>>,
      default |-> <<1, 0>>] >>

Url(parts, version, slash) == [parts |-> parts, version |-> version, slash |-> slash]

\* The default, a version behind a prefix, a version followed by a slash, a
\* version that cannot be read, the root.
MCUrls == {Url(<<"met", "no">>, NoVersion, FALSE), Url(<<"api", "met", "no">>, <<2, 0>>, FALSE),
           Url(<<"met", "no">>, <<2, 0>>, TRUE), Url(<<"no">>, NotAVersion, FALSE),
           Url(<<>>, NoVersion, FALSE)}
================================================================================
