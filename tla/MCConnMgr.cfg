\* register_mime_type and connmgr_init over every sequence of up to three
\* registrations of three types, then the service's requests with failing
\* UpnpAddToActionResponse calls.
SPECIFICATION Spec
CONSTANTS
    Chars <- MCChars
    Calls <- MCCalls
    MPEG = "audio/mpeg"
    XMPEG = "audio/x-mpeg"
    Actions <- MCActions
    AddOutcomes = {TRUE, FALSE}
INVARIANT TypeOK
INVARIANT NoBufferOverrun
INVARIANT ConnectionInfoComplete
PROPERTY ImplementsProtocolList
