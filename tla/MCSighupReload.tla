--------------------------- MODULE MCSighupReload ---------------------------
EXTENDS SighupReload

CONSTANTS readOnlyFlag   \* the command line has --read-only

\* The default configuration: no OAuth, logs to the default destination.
Default == [f \in Field |->
    IF f \in {"readOnly", "requireOAuth", "skipJWTVerification", "requireTLS"}
    THEN FALSE ELSE Unset]

OAuth == [Default EXCEPT !["requireOAuth"] = TRUE,
                         !["authorizationURL"] = "https://one",
                         !["certificateAuthority"] = "ca1"]

\* An open server; an issuer; the same issuer with other scopes and
\* require_tls; with another certificate authority and an audience; token
\* passthrough; one that Validate refuses.  A file whose tools are refused takes
\* the same path as that one.
MCRejected == {}
MCFile == {[Default EXCEPT !["logFile"] = "a.log"],
           OAuth,
           [OAuth EXCEPT !["oauthScopes"] = "openid", !["requireTLS"] = TRUE],
           [OAuth EXCEPT !["certificateAuthority"] = "ca2",
                         !["oauthAudience"] = "mcp"],
           [Default EXCEPT !["requireOAuth"] = TRUE,
                           !["skipJWTVerification"] = TRUE],
           [Default EXCEPT !["requireOAuth"] = TRUE]}

\* Two issuers.
TwoIssuers == {OAuth, [OAuth EXCEPT !["authorizationURL"] = "https://two"]}

MCFlags == {IF readOnlyFlag THEN [f \in {"readOnly"} |-> TRUE] ELSE <<>>}

MCToken == {[kind |-> "none", issuer |-> Unset, audience |-> Unset],
            [kind |-> "opaque", issuer |-> Unset, audience |-> Unset],
            [kind |-> "jwt", issuer |-> "https://one", audience |-> "mcp"]}
=============================================================================
