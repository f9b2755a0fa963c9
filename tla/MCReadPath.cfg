CONSTANTS
    CR = CR
    LF = LF
    max_header_size = 120
    max_http_body_size = 80
    FinalKeys <- MCFinalKeys
    max_message_size = 130
    ReplySizes = {0, 125, 126, 65535, 65536}
    Clients <- MCClients
SPECIFICATION Spec
INVARIANTS
    AnsweredOnItsMerits
    DeliversWhatWasSent
    AnswersInFrames
PROPERTIES
    ReadsToTheEnd
CHECK_DEADLOCK FALSE
