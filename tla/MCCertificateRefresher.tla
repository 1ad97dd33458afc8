------------------------- MODULE MCCertificateRefresher -------------------------
(* The model-checking instance of CertificateRefresher.                    *)
EXTENDS CertificateRefresher

CONSTANTS g1, g2

\* Two goroutines that build credentials.
MCReaders == {g1, g2}

\* A chain with its key, a certificate or a key alone, a certificate beside
\* something that is neither.
MCSecrets ==
    {<<"CERTIFICATE", "PRIVATE KEY", "CERTIFICATE">>, <<"CERTIFICATE">>,
     <<"RSA PRIVATE KEY">>, <<"RSA PRIVATE KEY", "CERTIFICATE", "EC PRIVATE KEY">>}
================================================================================
