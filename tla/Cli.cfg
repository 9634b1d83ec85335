CONSTANTS
    p1 = p1
    p2 = p2
    Proc = {p1, p2}
    Nobody = Nobody
    bos = bos
    eos = eos
    u = u
    x = x
    th = th
    pl = pl
    e1 = e1
    e2 = e2
    sy = sy
    Token = {bos, eos, u, x, th, pl, e1, e2, sy}
    Bos = bos
    Eos = eos
    Question = {u}
    Word = {x}
    Think = th
    Plain = pl
    MaxPrefix <- MCPrefix
    Systems <- MCSystems
    MaxMinCtx = 10
    NPredict = 2
    MaxAccept = 2
    Mixed = Mixed
    Configs <- MCConfigs
    ResumeMin = 3
SYMMETRY Processes
SPECIFICATION Spec
INVARIANTS
    TranscriptIsConversation
    AnswersTranscript
    OneEngine
