SPECIFICATION FairSpec
CONSTANTS
    nothing = nothing  absent = absent  nofile = nofile  nourl = nourl
    pic = pic  sig = sig  ftp = ftp  bot1 = bot1  cron = cron
    Label <- Labels  Blank = ""  NoneText = "None"  Clip <- Clipped  Fold <- Folded
    NoValue = nothing  Absent = absent
    MaxRequests = 2  BarrenRounds = 1  MaxVariant = 2
    Task = {bot1, cron}  Script = {cron}
    Url = {pic, sig, ftp}  NoUrl = nourl  UsableUrl = {pic, sig}
    Concurrency = 1  MaxRetries = 2
    Base = {"bank", "set", "eam", "avt"}  Stem = {"bank"}  Site <- Sites  Id = {1, 2, 3}
    FileContent <- Files  Page <- Pages1  Ticket <- Tickets1  NoFile = nofile
    MaxImports = 2  MaxUploads = 1  MaxEvents = 1
INVARIANTS TypeOK CountsAddUp ReportedIsStored AnswerAsMarked PathBacked PictureWhole SameFileAddsNothing
PROPERTIES ScriptCommitsWhole ImportEnds
